----------------------------- MODULE MeshProofs ------------------------------
(***************************************************************************)
(* The links of a hub, for every set of workers and every number of broken *)
(* connections: only the task of an older connection of the same worker    *)
(* silences a link, and when the hub is quiet every worker it writes to    *)
(* knows every validator that counts.                                      *)
(***************************************************************************)
EXTENDS Mesh, SequenceTheorems, TLAPS

-----------------------------------------------------------------------------
\* The invariant.

Keys == Workers \cup {Hub}

\* What a worker knows by itself: a connection can bring the hub no other key.
Own(c) == {WorkerOf(c), Hub}

Traffic(c) ==
  {Hello} \cup {Validators(keys) : keys \in SUBSET Own(c)}
    \cup [type : {"Op"}, set : SUBSET Workers]

\* What the task of c can have left to do.
HelloTails     == {HelloSteps, <<"announce", "handOver">>, <<"handOver">>}
ValidatorTails == {ValidatorSteps, <<"announce">>}
OpTails        == {OpSteps, <<"handle">>}
CloseTails     == {CloseSteps, <<"closed">>}

Work(c) ==
  {<<>>}
    \cup {With(steps, {WorkerOf(c)}) : steps \in HelloTails}
    \cup {With(steps, keys) : steps \in ValidatorTails, keys \in SUBSET Own(c)}
    \cup {With(steps, ops) : steps \in OpTails, ops \in SUBSET Workers}
    \cup {With(steps, {}) : steps \in CloseTails}

HubTypes ==
  /\ DOMAIN peers \subseteq Workers
  /\ \A w \in DOMAIN peers : peers[w] \in greeted /\ WorkerOf(peers[w]) = w
  /\ active \subseteq validators /\ validators \subseteq Keys
  /\ pool \subseteq Workers

LifeTypes ==
  /\ greeted \subseteq dialled /\ cut \subseteq dialled /\ dialled \subseteq Connections
  /\ overlapped \subseteq greeted

WorkTypes ==
  /\ todo \in [Connections -> UNION {Work(c) : c \in Connections}]
  /\ \A c \in Connections : todo[c] \in Work(c)

WorkerTypes ==
  /\ known \in [Connections -> SUBSET Keys]
  /\ pending \in [Connections -> SUBSET Workers]

MailTypes ==
  /\ up \in [Connections -> UNION {Seq(Traffic(c)) : c \in Connections}]
  /\ \A c \in Connections : up[c] \in Seq(Traffic(c))

TypeOK == HubTypes /\ LifeTypes /\ WorkTypes /\ WorkerTypes /\ MailTypes

\* Before it is dialled nothing has happened on a connection.
Dialled ==
  \A c \in Connections :
    /\ c \in dialled => Own(c) \subseteq known[c]
    /\ c \notin dialled => todo[c] = <<>> /\ up[c] = <<>> /\ known[c] = {WorkerOf(c)}

Left(tasks, step) == \E i \in DOMAIN tasks : tasks[i].step = step
Announces(tasks, key) ==
  \E i \in DOMAIN tasks : tasks[i].step = "announce" /\ key \in tasks[i].set

\* The end of a connection takes its writer away before it starts to close.
PeersOpen == \A w \in DOMAIN peers : ~Left(todo[peers[w]], "closed")

TwinsOverlap ==
  \A c, d \in greeted :
    c # d /\ WorkerOf(c) = WorkerOf(d) /\ Open(c) /\ Open(d)
      => c \in overlapped /\ d \in overlapped

LinksStand ==
  \A c \in greeted \ overlapped :
    ~Left(todo[c], "closed") =>
      /\ WorkerOf(c) \in DOMAIN peers /\ peers[WorkerOf(c)] = c
      /\ Left(todo[c], "greet") \/ WorkerOf(c) \in active

\* A validator the hub has heard of is known to a peer, or will be once the peer
\* is greeted, or once a connection of that validator is announced.
NewsUnderWay ==
  \A w \in DOMAIN peers : \A key \in validators :
    \/ peers[w] \in cut
    \/ key \in known[peers[w]]
    \/ Left(todo[peers[w]], "greet")
    \/ \E d \in Connections : WorkerOf(d) = key /\ Announces(todo[d], key)

\* Only the end of a connection that was greeted takes a validator back.
EndsGreeted ==
  \A c \in Connections : Left(todo[c], "deactivate") => c \in greeted

LinksInv == PeersOpen /\ TwinsOverlap /\ LinksStand
MeshInv == TypeOK /\ Dialled /\ EndsGreeted /\ LinksInv /\ NewsUnderWay

-----------------------------------------------------------------------------
\* What a task has left.

Step(step, set) == [step |-> step, set |-> set]

LEMMA WorkCases ==
  ASSUME NEW c, NEW t
  PROVE  t \in Work(c) <=>
         \/ t = <<>>
         \/ LET w == {WorkerOf(c)}
            IN  \/ t = <<Step("greet", w), Step("announce", w), Step("handOver", w)>>
                \/ t = <<Step("announce", w), Step("handOver", w)>>
                \/ t = <<Step("handOver", w)>>
         \/ \E keys \in SUBSET Own(c) :
              \/ t = <<Step("learn", keys), Step("announce", keys)>>
              \/ t = <<Step("announce", keys)>>
         \/ \E ops \in SUBSET Workers :
              \/ t = <<Step("relay", ops), Step("handle", ops)>>
              \/ t = <<Step("handle", ops)>>
         \/ t = <<Step("deactivate", {}), Step("closed", {})>>
         \/ t = <<Step("closed", {})>>
<1>1. \A set :
        /\ With(HelloSteps, set)
             = <<Step("greet", set), Step("announce", set), Step("handOver", set)>>
        /\ With(<<"announce", "handOver">>, set)
             = <<Step("announce", set), Step("handOver", set)>>
        /\ With(<<"handOver">>, set) = <<Step("handOver", set)>>
  BY DEF With, Step, HelloSteps
<1>2. \A set :
        /\ With(ValidatorSteps, set) = <<Step("learn", set), Step("announce", set)>>
        /\ With(<<"announce">>, set) = <<Step("announce", set)>>
        /\ With(OpSteps, set) = <<Step("relay", set), Step("handle", set)>>
        /\ With(<<"handle">>, set) = <<Step("handle", set)>>
  BY DEF With, Step, ValidatorSteps, OpSteps
<1>3. \A set :
        /\ With(CloseSteps, set) = <<Step("deactivate", set), Step("closed", set)>>
        /\ With(<<"closed">>, set) = <<Step("closed", set)>>
  BY DEF With, Step, CloseSteps
<1>. QED BY <1>1, <1>2, <1>3 DEF Work, HelloTails, ValidatorTails, OpTails, CloseTails

\* Lists of three, two and one steps about one set.
LEMMA OneStep ==
  ASSUME NEW a, NEW set, NEW t, t = <<Step(a, set)>>
  PROVE  /\ t # <<>> /\ Head(t).step = a /\ Head(t).set = set /\ Tail(t) = <<>>
         /\ \A step : Left(t, step) <=> step = a
         /\ \A key : Announces(t, key) <=> a = "announce" /\ key \in set
BY DEF Step, Left, Announces

LEMMA TwoSteps ==
  ASSUME NEW a, NEW b, NEW set, NEW t, t = <<Step(a, set), Step(b, set)>>
  PROVE  /\ t # <<>> /\ Head(t).step = a /\ Head(t).set = set /\ Tail(t) = <<Step(b, set)>>
         /\ \A step : Left(t, step) <=> step \in {a, b}
         /\ \A key : Announces(t, key) <=> "announce" \in {a, b} /\ key \in set
BY DEF Step, Left, Announces

LEMMA ThreeSteps ==
  ASSUME NEW a, NEW b, NEW d, NEW set, NEW t,
         t = <<Step(a, set), Step(b, set), Step(d, set)>>
  PROVE  /\ t # <<>> /\ Head(t).step = a /\ Head(t).set = set
         /\ Tail(t) = <<Step(b, set), Step(d, set)>>
         /\ \A step : Left(t, step) <=> step \in {a, b, d}
         /\ \A key : Announces(t, key) <=> "announce" \in {a, b, d} /\ key \in set
BY DEF Step, Left, Announces

LEMMA NoSteps ==
  /\ \A step : ~Left(<<>>, step)
  /\ \A key : ~Announces(<<>>, key)
BY DEF Left, Announces

\* What the step at the head of a task's list is about, and what follows it.
GoesOn(c, t) ==
  LET step == Head(t).step
      set  == Head(t).set
      rest == Tail(t)
  IN  /\ rest \in Work(c)
      /\ Left(t, "greet") <=> step = "greet"
      /\ Left(t, "closed") <=> step \in {"deactivate", "closed"}
      /\ Left(t, "deactivate") <=> step = "deactivate"
      /\ ~Left(rest, "greet") /\ ~Left(rest, "deactivate")
      /\ Left(rest, "closed") <=> step = "deactivate"
      /\ step = "greet" => set = {WorkerOf(c)} /\ Announces(rest, WorkerOf(c))
      /\ step = "learn" => set \subseteq Own(c) /\ \A key \in set : Announces(rest, key)
      /\ step = "announce" => set \subseteq Own(c)
      /\ step \in {"relay", "handle"} => set \subseteq Workers
      /\ step = "deactivate" => rest # <<>> /\ Head(rest).step = "closed"
      /\ step = "closed" => \A key : ~Announces(t, key)
      /\ \A key : Announces(t, key) =>
           Announces(rest, key) \/ (step = "announce" /\ key \in set)

LEMMA WorkGoesOn ==
  ASSUME NEW c, NEW t \in Work(c), t # <<>>
  PROVE  GoesOn(c, t)
<1> DEFINE w == {WorkerOf(c)}
<1>0. <<>> \in Work(c)
  BY WorkCases
<1>1. CASE t = <<Step("greet", w), Step("announce", w), Step("handOver", w)>>
  <2>1. Tail(t) = <<Step("announce", w), Step("handOver", w)>>
    BY <1>1, ThreeSteps
  <2>2. Tail(t) \in Work(c)
    BY <1>0, <2>1, WorkCases
  <2>3. /\ \A step : Left(t, step) <=> step \in {"greet", "announce", "handOver"}
        /\ \A step : Left(Tail(t), step) <=> step \in {"announce", "handOver"}
        /\ \A key : Announces(t, key) <=> key = WorkerOf(c)
        /\ \A key : Announces(Tail(t), key) <=> key = WorkerOf(c)
        /\ Head(t).step = "greet" /\ Head(t).set = {WorkerOf(c)}
    BY <1>1, <2>1, ThreeSteps, TwoSteps
  <2>. QED BY <2>2, <2>3 DEF GoesOn
<1>2. CASE t = <<Step("announce", w), Step("handOver", w)>>
  <2>1. Tail(t) = <<Step("handOver", w)>>
    BY <1>2, TwoSteps
  <2>2. Tail(t) \in Work(c)
    BY <1>0, <2>1, WorkCases
  <2>3. /\ \A step : Left(t, step) <=> step \in {"announce", "handOver"}
        /\ \A step : Left(Tail(t), step) <=> step = "handOver"
        /\ \A key : Announces(t, key) <=> key = WorkerOf(c)
        /\ Head(t).step = "announce" /\ Head(t).set = {WorkerOf(c)}
    BY <1>2, <2>1, TwoSteps, OneStep
  <2>. QED BY <2>2, <2>3 DEF GoesOn, Own
<1>3. CASE t = <<Step("handOver", w)>>
  <2>1. Tail(t) = <<>>
    BY <1>3, OneStep
  <2>2. Tail(t) \in Work(c)
    BY <1>0, <2>1, WorkCases
  <2>. QED BY <1>3, <2>1, <2>2, OneStep, NoSteps DEF GoesOn, Own
<1>4. ASSUME NEW keys \in SUBSET Own(c), t = <<Step("learn", keys), Step("announce", keys)>>
      PROVE  GoesOn(c, t)
  <2>1. Tail(t) = <<Step("announce", keys)>>
    BY <1>4, TwoSteps
  <2>2. Tail(t) \in Work(c)
    BY <1>0, <2>1, WorkCases
  <2>. QED BY <1>4, <2>1, <2>2, TwoSteps, OneStep, NoSteps DEF GoesOn, Own
<1>5. ASSUME NEW keys \in SUBSET Own(c), t = <<Step("announce", keys)>>
      PROVE  GoesOn(c, t)
  <2>1. Tail(t) = <<>>
    BY <1>5, OneStep
  <2>2. Tail(t) \in Work(c)
    BY <1>0, <2>1, WorkCases
  <2>. QED BY <1>5, <2>1, <2>2, OneStep, NoSteps DEF GoesOn, Own
<1>6. ASSUME NEW ops \in SUBSET Workers, t = <<Step("relay", ops), Step("handle", ops)>>
      PROVE  GoesOn(c, t)
  <2>1. Tail(t) = <<Step("handle", ops)>>
    BY <1>6, TwoSteps
  <2>2. Tail(t) \in Work(c)
    BY <1>0, <2>1, WorkCases
  <2>. QED BY <1>6, <2>1, <2>2, TwoSteps, OneStep, NoSteps DEF GoesOn, Own
<1>7. ASSUME NEW ops \in SUBSET Workers, t = <<Step("handle", ops)>>
      PROVE  GoesOn(c, t)
  <2>1. Tail(t) = <<>>
    BY <1>7, OneStep
  <2>2. Tail(t) \in Work(c)
    BY <1>0, <2>1, WorkCases
  <2>. QED BY <1>7, <2>1, <2>2, OneStep, NoSteps DEF GoesOn, Own
<1>8. CASE t = <<Step("deactivate", {}), Step("closed", {})>>
  <2>1. Tail(t) = <<Step("closed", {})>>
    BY <1>8, TwoSteps
  <2>2. Tail(t) \in Work(c)
    BY <1>0, <2>1, WorkCases
  <2>. QED BY <1>8, <2>1, <2>2, TwoSteps, OneStep, NoSteps DEF GoesOn, Own
<1>9. CASE t = <<Step("closed", {})>>
  <2>1. Tail(t) = <<>>
    BY <1>9, OneStep
  <2>2. Tail(t) \in Work(c)
    BY <1>0, <2>1, WorkCases
  <2>. QED BY <1>9, <2>1, <2>2, OneStep, NoSteps DEF GoesOn, Own
<1>. QED BY <1>1, <1>2, <1>3, <1>4, <1>5, <1>6, <1>7, <1>8, <1>9, WorkCases

-----------------------------------------------------------------------------
\* Types.

LEMMA ConnectionParts ==
  ASSUME NEW c \in Connections
  PROVE  /\ WorkerOf(c) \in Workers /\ WorkerOf(c) # Hub /\ Own(c) \subseteq Keys
         /\ First(c) \in Connections
BY MeshAssumption DEF Connections, WorkerOf, Own, Keys, First

LEMMA TrafficParts ==
  ASSUME NEW c, NEW m \in Traffic(c)
  PROVE  /\ m.type \in {"Hello", "Validator", "Op"}
         /\ m.type = "Validator" => m.set \subseteq Own(c)
         /\ m.type = "Op" => m.set \subseteq Workers
BY DEF Traffic, Hello, Validators

LEMMA TodoTypes ==
  ASSUME WorkTypes, NEW c \in Connections, NEW t \in Work(c),
         todo' = [todo EXCEPT ![c] = t]
  PROVE  WorkTypes'
<1>1. todo'[c] = t /\ \A d \in Connections \ {c} : todo'[d] = todo[d]
  BY DEF WorkTypes
<1>2. \A d \in Connections : todo'[d] \in Work(d)
  BY <1>1 DEF WorkTypes
<1>3. todo' \in [Connections -> UNION {Work(d) : d \in Connections}]
  BY DEF WorkTypes
<1>. QED BY <1>2, <1>3 DEF WorkTypes

LEMMA UpTypes ==
  ASSUME MailTypes, NEW c \in Connections, NEW s \in Seq(Traffic(c)),
         up' = [up EXCEPT ![c] = s]
  PROVE  MailTypes'
<1>1. up'[c] = s /\ \A d \in Connections \ {c} : up'[d] = up[d]
  BY DEF MailTypes
<1>2. \A d \in Connections : up'[d] \in Seq(Traffic(d))
  BY <1>1 DEF MailTypes
<1>3. up' \in [Connections -> UNION {Seq(Traffic(d)) : d \in Connections}]
  BY DEF MailTypes
<1>. QED BY <1>2, <1>3 DEF MailTypes

LEMMA SentTypes ==
  ASSUME MailTypes, NEW c \in Connections, NEW msgs \in Seq(Traffic(c)),
         up' = Sent(c, msgs)
  PROVE  MailTypes'
<1>1. CASE c \in cut
  BY <1>1 DEF Sent, MailTypes
<1>2. CASE c \notin cut
  <2>1. up[c] \o msgs \in Seq(Traffic(c))
    BY ConcatProperties DEF MailTypes
  <2>. QED BY <1>2, <2>1, UpTypes DEF Sent
<1>. QED BY <1>1, <1>2

LEMMA OperationsTypes ==
  ASSUME NEW c, NEW ops \in SUBSET Workers
  PROVE  Operations(ops) \in Seq(Traffic(c))
<1>1. [type |-> "Op", set |-> ops] \in Traffic(c)
  BY DEF Traffic
<1>. QED BY <1>1 DEF Operations

LEMMA CollectedParts ==
  ASSUME NEW has, NEW told, NEW set
  PROVE  /\ Collected(has, told, set) = [c \in Connections |-> Collected(has, told, set)[c]]
         /\ \A c \in Connections :
              /\ c \in told \ cut => Collected(has, told, set)[c] = has[c] \cup set
              /\ c \notin told \ cut => Collected(has, told, set)[c] = has[c]
BY DEF Collected

LEMMA CollectedTypes ==
  ASSUME NEW U, NEW has \in [Connections -> SUBSET U], NEW told, NEW set \in SUBSET U
  PROVE  Collected(has, told, set) \in [Connections -> SUBSET U]
BY DEF Collected

\* One critical section: the rest of the task is what is left.
LEMMA EnterParts ==
  ASSUME TypeOK, Dialled, NEW c \in Connections, NEW step, Enter(c, step)
  PROVE  /\ todo[c] \in Work(c) /\ todo[c] # <<>> /\ Head(todo[c]).step = step
         /\ GoesOn(c, todo[c])
         /\ todo' = [todo EXCEPT ![c] = Tail(todo[c])]
         /\ todo'[c] = Tail(todo[c])
         /\ \A d \in Connections \ {c} : todo'[d] = todo[d]
         /\ WorkTypes' /\ c \in dialled
<1>1. todo[c] \in Work(c) /\ todo[c] # <<>> /\ Head(todo[c]).step = step
      /\ todo' = [todo EXCEPT ![c] = Tail(todo[c])]
  BY DEF Enter, TypeOK, WorkTypes
<1>2. GoesOn(c, todo[c])
  BY <1>1, WorkGoesOn
<1>3. Tail(todo[c]) \in Work(c)
  BY <1>2 DEF GoesOn
<1>4. WorkTypes'
  BY <1>1, <1>3, TodoTypes DEF TypeOK
<1>5. c \in dialled
  BY <1>1 DEF Dialled
<1>. QED BY <1>1, <1>2, <1>4, <1>5 DEF TypeOK, WorkTypes

LEMMA ReadsParts ==
  ASSUME TypeOK, Dialled, NEW c \in Connections, Reads(c)
  PROVE  /\ Head(up[c]) \in Traffic(c)
         /\ c \in dialled /\ todo[c] = <<>> /\ MailTypes'
<1>1. up[c] \in Seq(Traffic(c)) /\ up[c] # <<>> /\ todo[c] = <<>>
      /\ up' = [up EXCEPT ![c] = Tail(up[c])]
  BY DEF Reads, TypeOK, MailTypes
<1>2. Head(up[c]) \in Traffic(c) /\ Tail(up[c]) \in Seq(Traffic(c))
  BY <1>1, HeadTailProperties
<1>3. MailTypes'
  BY <1>1, <1>2, UpTypes DEF TypeOK
<1>. QED BY <1>1, <1>2, <1>3 DEF Dialled

-----------------------------------------------------------------------------
\* Every step keeps the types, and a connection untouched until it is dialled.

LEMMA DialTypes ==
  ASSUME TypeOK, Dialled, NEW c \in Connections, Dial(c)
  PROVE  TypeOK' /\ Dialled'
<1>1. /\ known' = [known EXCEPT ![c] = @ \cup {Hub}] /\ dialled' = dialled \cup {c}
      /\ c \notin dialled /\ known[c] = {WorkerOf(c)}
  BY DEF Dial, Dialled
<1>2. known'[c] = Own(c) /\ \A d \in Connections \ {c} : known'[d] = known[d]
  BY <1>1 DEF TypeOK, WorkerTypes, Own
<1>3. WorkerTypes'
  BY <1>1, ConnectionParts DEF TypeOK, WorkerTypes, Dial, Keys
<1>4. MailTypes'
  <2>1. <<Hello, Validators(known'[c])>> \in Seq(Traffic(c))
    BY <1>2 DEF Traffic
  <2>2. Operations(pending[c]) \in Seq(Traffic(c))
    BY OperationsTypes DEF TypeOK, WorkerTypes
  <2>3. <<Hello, Validators(known'[c])>> \o Operations(pending[c]) \in Seq(Traffic(c))
    BY <2>1, <2>2, ConcatProperties
  <2>. QED BY <2>3, SentTypes DEF Dial, TypeOK
<1>5. HubTypes' /\ LifeTypes' /\ WorkTypes'
  BY <1>1 DEF TypeOK, HubTypes, LifeTypes, WorkTypes, Dial, history
<1>6. \A d \in Connections \ {c} : up'[d] = up[d] /\ todo'[d] = todo[d]
  BY DEF Dial, Sent, TypeOK, MailTypes
<1>7. Dialled'
  BY <1>1, <1>2, <1>6 DEF Dialled
<1>. QED BY <1>3, <1>4, <1>5, <1>7 DEF TypeOK

LEMMA CutTypes ==
  ASSUME TypeOK, Dialled, NEW c \in Connections, Cut(c)
  PROVE  TypeOK' /\ Dialled'
<1>1. up' = up \/ up' = [up EXCEPT ![c] = <<>>]
  BY DEF Cut
<1>2. MailTypes'
  <2>1. <<>> \in Seq(Traffic(c))
    OBVIOUS
  <2>2. up' = up => MailTypes'
    BY DEF TypeOK, MailTypes
  <2>. QED BY <1>1, <2>1, <2>2, UpTypes DEF TypeOK
<1>3. HubTypes' /\ LifeTypes' /\ WorkTypes' /\ WorkerTypes'
  BY DEF TypeOK, HubTypes, LifeTypes, WorkTypes, WorkerTypes, Cut, history
<1>4. Dialled'
  BY <1>1 DEF Cut, Dialled, TypeOK, MailTypes
<1>. QED BY <1>2, <1>3, <1>4 DEF TypeOK

LEMMA ReadHelloTypes ==
  ASSUME TypeOK, Dialled, NEW c \in Connections, ReadHello(c)
  PROVE  TypeOK' /\ Dialled'
<1>1. c \in dialled /\ MailTypes'
  BY ReadsParts DEF ReadHello
<1>2. WorkTypes'
  <2>1. With(HelloSteps, {WorkerOf(c)}) \in Work(c)
    BY DEF Work, HelloTails
  <2>. QED BY <2>1, TodoTypes DEF ReadHello, TypeOK
<1>3. LifeTypes'
  BY <1>1 DEF ReadHello, Reads, TypeOK, LifeTypes, Twins
<1>4. HubTypes'
  BY <1>1, ConnectionParts DEF ReadHello, Reads, TypeOK, HubTypes
<1>5. WorkerTypes'
  BY DEF ReadHello, Reads, TypeOK, WorkerTypes
<1>6. /\ UNCHANGED <<dialled, known>>
      /\ \A d \in Connections \ {c} : todo'[d] = todo[d] /\ up'[d] = up[d]
  BY DEF ReadHello, Reads, TypeOK, WorkTypes, MailTypes
<1>7. Dialled'
  BY <1>1, <1>6 DEF Dialled
<1>. QED BY <1>1, <1>2, <1>3, <1>4, <1>5, <1>7 DEF TypeOK

\* What gossip leaves to do.
LEMMA GossipWork ==
  ASSUME TypeOK, Dialled, NEW c \in Connections, ReadGossip(c)
  PROVE  \E t \in Work(c) :
           /\ todo' = [todo EXCEPT ![c] = t]
           /\ \A step \in {"greet", "deactivate", "closed"} : ~Left(t, step)
<1> DEFINE m     == Head(up[c])
           fresh == {x \in m.set : <<m.type, x>> \notin seen}
           steps == IF m.type = "Op" THEN OpSteps ELSE ValidatorSteps
           t     == IF fresh = {} THEN <<>> ELSE With(steps, fresh)
<1>1. todo' = [todo EXCEPT ![c] = t]
  BY DEF ReadGossip
<1>2. m \in Traffic(c) /\ m.type # "Hello"
  BY ReadsParts DEF ReadGossip
<1>3. CASE fresh = {}
  BY <1>1, <1>3, WorkCases, NoSteps
<1>4. CASE fresh # {} /\ m.type = "Op"
  <2>1. fresh \in SUBSET Workers
    BY <1>2, <1>4, TrafficParts
  <2> HIDE DEF fresh, m
  <2>2. t = <<Step("relay", fresh), Step("handle", fresh)>>
    BY <1>4 DEF With, Step, OpSteps
  <2> HIDE DEF t
  <2>3. t \in Work(c)
    BY <2>1, <2>2, WorkCases
  <2>4. \A step \in {"greet", "deactivate", "closed"} : ~Left(t, step)
    BY <2>2, TwoSteps
  <2>. QED BY <1>1, <2>3, <2>4
<1>5. CASE fresh # {} /\ m.type # "Op"
  <2>1. fresh \in SUBSET Own(c)
    BY <1>2, <1>5, TrafficParts
  <2> HIDE DEF fresh, m
  <2>2. t = <<Step("learn", fresh), Step("announce", fresh)>>
    BY <1>5 DEF With, Step, ValidatorSteps
  <2> HIDE DEF t
  <2>3. t \in Work(c)
    BY <2>1, <2>2, WorkCases
  <2>4. \A step \in {"greet", "deactivate", "closed"} : ~Left(t, step)
    BY <2>2, TwoSteps
  <2>. QED BY <1>1, <2>3, <2>4
<1>. QED BY <1>3, <1>4, <1>5

LEMMA ReadGossipTypes ==
  ASSUME TypeOK, Dialled, NEW c \in Connections, ReadGossip(c)
  PROVE  TypeOK' /\ Dialled'
<1>1. c \in dialled /\ MailTypes'
  BY ReadsParts DEF ReadGossip
<1>2. WorkTypes'
  BY GossipWork, TodoTypes DEF TypeOK
<1>3. HubTypes' /\ LifeTypes' /\ WorkerTypes'
  BY DEF ReadGossip, Reads, history, TypeOK, HubTypes, LifeTypes, WorkerTypes
<1>4. /\ UNCHANGED <<dialled, known>>
      /\ \A d \in Connections \ {c} : todo'[d] = todo[d] /\ up'[d] = up[d]
  BY DEF ReadGossip, Reads, TypeOK, WorkTypes, MailTypes
<1>5. Dialled'
  BY <1>1, <1>4 DEF Dialled
<1>. QED BY <1>1, <1>2, <1>3, <1>5 DEF TypeOK

LEMMA PeersParts ==
  ASSUME TypeOK
  PROVE  /\ Range(peers) \subseteq greeted /\ Range(peers) \subseteq dialled
         /\ \A w : PeersBut(w) \subseteq Range(peers)
BY DEF TypeOK, HubTypes, LifeTypes, Range, PeersBut

LEMMA DialledKept ==
  ASSUME TypeOK, Dialled, NEW c \in dialled, NEW told, told \subseteq dialled, NEW set,
         known' = known \/ known' = Collected(known, told, set),
         UNCHANGED <<up, dialled>>, \A d \in Connections \ {c} : todo'[d] = todo[d]
  PROVE  Dialled'
<1>1. \A d \in Connections : known[d] \subseteq known'[d] /\ (d \notin dialled => known'[d] = known[d])
  BY CollectedParts
<1>. QED BY <1>1 DEF Dialled

\* The sections that add to the engine's validators.
LEMMA AddTypes ==
  ASSUME TypeOK, Dialled, NEW c \in Connections, Greet(c) \/ Learn(c)
  PROVE  /\ TypeOK' /\ Dialled' /\ What(c) \subseteq Own(c)
         /\ \A key \in What(c) : Announces(todo'[c], key)
         /\ Greet(c) => What(c) = {WorkerOf(c)}
<1>1. PICK step \in {"greet", "learn"} : Enter(c, step) /\ (Greet(c) => step = "greet")
  <2>1. CASE Greet(c)
    BY <2>1 DEF Greet
  <2>2. CASE ~Greet(c)
    BY <2>2 DEF Learn
  <2>. QED BY <2>1, <2>2
<1>2. /\ GoesOn(c, todo[c]) /\ Head(todo[c]).step = step /\ todo'[c] = Tail(todo[c])
      /\ \A d \in Connections \ {c} : todo'[d] = todo[d]
      /\ WorkTypes' /\ c \in dialled
  BY <1>1, EnterParts
<1>3. /\ What(c) \subseteq Own(c) /\ \A key \in What(c) : Announces(todo'[c], key)
      /\ Greet(c) => What(c) = {WorkerOf(c)}
  BY <1>1, <1>2 DEF GoesOn, What, Own
<1>4. /\ UNCHANGED <<peers, greeted, overlapped, up, dialled, cut, pool, pending>>
      /\ validators' = validators \cup What(c) /\ active' = active \cup What(c)
      /\ known' = known \/ known' = Collected(known, {c}, validators')
  BY DEF Greet, Learn, Added, Enter, history
<1>5. HubTypes' /\ LifeTypes' /\ MailTypes'
  BY <1>3, <1>4, ConnectionParts DEF TypeOK, HubTypes, LifeTypes, MailTypes
<1>6. WorkerTypes'
  <2>1. validators' \in SUBSET Keys
    BY <1>5 DEF HubTypes
  <2>2. known' \in [Connections -> SUBSET Keys]
    <3>1. known \in [Connections -> SUBSET Keys]
      BY DEF TypeOK, WorkerTypes
    <3>2. Collected(known, {c}, validators') \in [Connections -> SUBSET Keys]
      BY <2>1, <3>1, CollectedTypes
    <3>. QED BY <1>4, <3>1, <3>2
  <2>. QED BY <1>4, <2>2 DEF TypeOK, WorkerTypes
<1>7. Dialled'
  BY <1>2, <1>4, DialledKept
<1>. QED BY <1>2, <1>3, <1>5, <1>6, <1>7 DEF TypeOK

LEMMA AnnounceTypes ==
  ASSUME TypeOK, Dialled, NEW c \in Connections, Announce(c)
  PROVE  TypeOK' /\ Dialled'
<1>1. Enter(c, "announce") /\ known' = Collected(known, PeersBut(WorkerOf(c)), What(c))
      /\ UNCHANGED <<peers, greeted, overlapped, up, dialled, cut, pool, pending,
                     validators, active>>
  BY DEF Announce, Enter, history
<1>2. /\ GoesOn(c, todo[c]) /\ Head(todo[c]).step = "announce"
      /\ \A d \in Connections \ {c} : todo'[d] = todo[d]
      /\ WorkTypes' /\ c \in dialled
  BY <1>1, EnterParts
<1>3. What(c) \in SUBSET Keys
  BY <1>2, ConnectionParts DEF GoesOn, What
<1>4. HubTypes' /\ LifeTypes' /\ MailTypes'
  BY <1>1 DEF TypeOK, HubTypes, LifeTypes, MailTypes
<1>5. WorkerTypes'
  BY <1>1, <1>3, CollectedTypes DEF TypeOK, WorkerTypes
<1>6. PeersBut(WorkerOf(c)) \subseteq dialled
  BY PeersParts
<1>7. Dialled'
  BY <1>1, <1>2, <1>6, DialledKept
<1>. QED BY <1>2, <1>4, <1>5, <1>7 DEF TypeOK

\* The sections that pass operations on.
LEMMA PassTypes ==
  ASSUME TypeOK, Dialled, NEW c \in Connections, Relay(c) \/ Handle(c) \/ HandOver(c)
  PROVE  TypeOK' /\ Dialled'
<1>1. PICK step \in {"relay", "handle", "handOver"} :
        Enter(c, step) /\ (step = "handOver" <=> ~(Relay(c) \/ Handle(c)))
  <2>1. CASE Relay(c)
    BY <2>1 DEF Relay
  <2>2. CASE ~Relay(c) /\ Handle(c)
    BY <2>2 DEF Handle
  <2>3. CASE ~Relay(c) /\ ~Handle(c)
    BY <2>3 DEF HandOver
  <2>. QED BY <2>1, <2>2, <2>3
<1>2. /\ GoesOn(c, todo[c]) /\ Head(todo[c]).step = step
      /\ \A d \in Connections \ {c} : todo'[d] = todo[d]
      /\ WorkTypes' /\ c \in dialled
  BY <1>1, EnterParts
<1>3. Relay(c) \/ Handle(c) => What(c) \in SUBSET Workers
  BY <1>1, <1>2 DEF GoesOn, What
<1>4. UNCHANGED <<peers, greeted, overlapped, up, dialled, cut, validators, active, known>>
  BY DEF Relay, Handle, HandOver, Enter, history
<1>5. pool' \in SUBSET Workers
  BY <1>3 DEF Relay, Handle, HandOver, TypeOK, HubTypes
<1>6. pending' \in [Connections -> SUBSET Workers]
  <2>1. pool \in SUBSET Workers /\ pending \in [Connections -> SUBSET Workers]
    BY DEF TypeOK, HubTypes, WorkerTypes
  <2>. QED BY <1>3, <2>1, CollectedTypes DEF Relay, Handle, HandOver
<1>7. HubTypes' /\ LifeTypes' /\ MailTypes' /\ WorkerTypes'
  BY <1>4, <1>5, <1>6 DEF TypeOK, HubTypes, LifeTypes, MailTypes, WorkerTypes
<1>8. Dialled'
  BY <1>2, <1>4, DialledKept
<1>. QED BY <1>2, <1>7, <1>8 DEF TypeOK

LEMMA DeactivateTypes ==
  ASSUME TypeOK, Dialled, NEW c \in Connections, Deactivate(c)
  PROVE  TypeOK' /\ Dialled'
<1>1. Enter(c, "deactivate") /\ active' = active \ {WorkerOf(c)}
      /\ UNCHANGED <<peers, greeted, overlapped, up, dialled, cut, validators, known,
                     pool, pending>>
  BY DEF Deactivate, Enter, history
<1>2. WorkTypes' /\ c \in dialled /\ \A d \in Connections \ {c} : todo'[d] = todo[d]
  BY <1>1, EnterParts
<1>3. HubTypes' /\ LifeTypes' /\ MailTypes' /\ WorkerTypes'
  BY <1>1 DEF TypeOK, HubTypes, LifeTypes, MailTypes, WorkerTypes
<1>4. Dialled'
  BY <1>1, <1>2, DialledKept
<1>. QED BY <1>2, <1>3, <1>4 DEF TypeOK

\* A task that ends: its peer is silent, and only its last sections are left.
LEMMA CloseParts ==
  ASSUME TypeOK, NEW c \in Connections, Close(c)
  PROVE  \E t \in Work(c) :
           /\ todo' = [todo EXCEPT ![c] = t]
           /\ ~Left(t, "greet") /\ Left(t, "closed")
           /\ Left(t, "deactivate") => c \in greeted
<1>1. CASE c \in greeted
  <2> DEFINE t == With(CloseSteps, {})
  <2>1. todo' = [todo EXCEPT ![c] = t]
    BY <1>1 DEF Close, Ended
  <2>2. t = <<Step("deactivate", {}), Step("closed", {})>>
    BY DEF With, Step, CloseSteps
  <2> HIDE DEF t
  <2>3. t \in Work(c)
    BY <2>2, WorkCases
  <2>4. ~Left(t, "greet") /\ Left(t, "closed")
    BY <2>2, TwoSteps
  <2>. QED BY <1>1, <2>1, <2>3, <2>4
<1>2. CASE c \notin greeted
  <2> DEFINE t == With(<<"closed">>, {})
  <2>1. todo' = [todo EXCEPT ![c] = t]
    BY <1>2 DEF Close, Ended
  <2>2. t = <<Step("closed", {})>>
    BY DEF With, Step
  <2> HIDE DEF t
  <2>3. t \in Work(c)
    BY <2>2, WorkCases
  <2>4. ~Left(t, "greet") /\ ~Left(t, "deactivate") /\ Left(t, "closed")
    BY <2>2, OneStep
  <2>. QED BY <1>2, <2>1, <2>3, <2>4
<1>. QED BY <1>1, <1>2

LEMMA CloseTypes ==
  ASSUME TypeOK, Dialled, NEW c \in Connections, Close(c)
  PROVE  TypeOK' /\ Dialled'
<1>1. WorkTypes'
  BY CloseParts, TodoTypes DEF TypeOK
<1>2. UNCHANGED <<validators, active, pool, greeted, overlapped, known, pending, up,
                  dialled, cut>>
  BY DEF Close, Ended, history
<1>3. peers' = peers \/ peers' = Restrict(peers, DOMAIN peers \ {WorkerOf(c)})
  BY DEF Close
<1>4. HubTypes'
  BY <1>2, <1>3 DEF TypeOK, HubTypes, Restrict
<1>5. LifeTypes' /\ WorkerTypes' /\ MailTypes'
  BY <1>2 DEF TypeOK, LifeTypes, WorkerTypes, MailTypes
<1>6. c \in dialled /\ \A d \in Connections \ {c} : todo'[d] = todo[d]
  BY DEF Close, Ended, TypeOK, LifeTypes, WorkTypes
<1>7. Dialled'
  BY <1>2, <1>6, DialledKept
<1>. QED BY <1>1, <1>4, <1>5, <1>7 DEF TypeOK

LEMMA SubmitTypes ==
  ASSUME TypeOK, Dialled, NEW c \in Connections, Submit(c)
  PROVE  TypeOK' /\ Dialled'
<1>1. UNCHANGED <<peers, validators, active, pool, todo, greeted, overlapped, known,
                  dialled, cut>>
  BY DEF Submit, history
<1>2. HubTypes' /\ LifeTypes' /\ WorkTypes'
  BY <1>1 DEF TypeOK, HubTypes, LifeTypes, WorkTypes
<1>3. WorkerTypes'
  BY <1>1, ConnectionParts DEF Submit, TypeOK, WorkerTypes
<1>4. MailTypes'
  <2>1. Operations({WorkerOf(c)}) \in Seq(Traffic(c))
    BY ConnectionParts, OperationsTypes
  <2>2. CASE c \in dialled
    BY <2>1, <2>2, SentTypes DEF Submit, TypeOK
  <2>3. CASE c \notin dialled
    BY <2>3 DEF Submit, TypeOK, MailTypes
  <2>. QED BY <2>2, <2>3
<1>5. \A d \in Connections : d \notin dialled => up'[d] = up[d]
  BY DEF Submit, Sent, TypeOK, MailTypes
<1>6. Dialled'
  BY <1>1, <1>5 DEF Dialled
<1>. QED BY <1>2, <1>3, <1>4, <1>6 DEF TypeOK

LEMMA SyncTypes ==
  ASSUME TypeOK, Dialled, HubSync \/ \E c \in Connections : WorkerSync(c)
  PROVE  TypeOK' /\ Dialled'
<1>1. CASE HubSync
  <2>1. UNCHANGED <<peers, validators, active, pool, todo, greeted, overlapped, known,
                    dialled, cut, up>>
    BY <1>1 DEF HubSync, history
  <2>2. WorkerTypes'
    <3>1. pool \in SUBSET Workers /\ pending \in [Connections -> SUBSET Workers]
      BY DEF TypeOK, HubTypes, WorkerTypes
    <3>. QED BY <1>1, <2>1, <3>1, CollectedTypes DEF HubSync, TypeOK, WorkerTypes
  <2>. QED BY <2>1, <2>2 DEF TypeOK, HubTypes, LifeTypes, WorkTypes, MailTypes, Dialled
<1>2. ASSUME NEW c \in Connections, WorkerSync(c)
      PROVE  TypeOK' /\ Dialled'
  <2>1. /\ UNCHANGED <<peers, validators, active, pool, todo, greeted, overlapped, known,
                       dialled, cut, pending>>
        /\ up' = Sent(c, Operations(pending[c])) /\ c \in dialled
    BY <1>2 DEF WorkerSync, history
  <2>2. MailTypes'
    <3>1. Operations(pending[c]) \in Seq(Traffic(c))
      BY OperationsTypes DEF TypeOK, WorkerTypes
    <3>. QED BY <2>1, <3>1, SentTypes DEF TypeOK
  <2>3. \A d \in Connections : d \notin dialled => up'[d] = up[d]
    BY <2>1 DEF Sent, TypeOK, MailTypes
  <2>. QED BY <2>1, <2>2, <2>3 DEF TypeOK, HubTypes, LifeTypes, WorkTypes, WorkerTypes, Dialled
<1>. QED BY <1>1, <1>2

LEMMA NextTypes ==
  ASSUME TypeOK, Dialled, [Next]_vars
  PROVE  TypeOK' /\ Dialled'
<1>1. CASE UNCHANGED vars
  BY <1>1 DEF vars, TypeOK, HubTypes, LifeTypes, WorkTypes, WorkerTypes, MailTypes, Dialled
<1>2. ASSUME NEW c \in Connections, Task(c)
      PROVE  TypeOK' /\ Dialled'
  BY <1>2, ReadHelloTypes, ReadGossipTypes, AddTypes, AnnounceTypes, PassTypes,
     DeactivateTypes, CloseTypes DEF Task
<1>. QED BY <1>1, <1>2, DialTypes, CutTypes, SubmitTypes, SyncTypes DEF Next

LEMMA InitTypes ==
  ASSUME Init
  PROVE  TypeOK /\ Dialled
<1>1. \A c \in Connections : <<>> \in Work(c) /\ <<>> \in Seq(Traffic(c))
  <2>1. \A c : <<>> \in Work(c)
    BY WorkCases
  <2>2. \A S : <<>> \in Seq(S)
    OBVIOUS
  <2>. QED BY <2>1, <2>2
<1>2. WorkTypes /\ MailTypes
  BY <1>1 DEF Init, WorkTypes, MailTypes
<1>3. HubTypes /\ LifeTypes
  BY DEF Init, HubTypes, LifeTypes, Keys
<1>4. WorkerTypes
  BY ConnectionParts DEF Init, WorkerTypes, Keys
<1>5. Dialled
  BY DEF Init, Dialled
<1>. QED BY <1>2, <1>3, <1>4, <1>5 DEF TypeOK

-----------------------------------------------------------------------------
\* Links.

LEMMA ClosedIsLeft ==
  ASSUME WorkTypes, NEW c \in Connections
  PROVE  Closed(c) => Left(todo[c], "closed")
BY WorkGoesOn DEF WorkTypes, Closed, GoesOn

\* A step that ends no task and greets whom it has to.
LEMMA LinksKept ==
  ASSUME TypeOK, LinksInv, UNCHANGED <<peers, greeted, overlapped>>,
         \A d \in Connections :
           /\ Left(todo'[d], "closed") <=> Left(todo[d], "closed")
           /\ Closed(d)' <=> Closed(d)
           /\ Left(todo[d], "greet") \/ WorkerOf(d) \in active
                => Left(todo'[d], "greet") \/ WorkerOf(d) \in active'
  PROVE  LinksInv'
<1>1. greeted \subseteq Connections /\ overlapped \subseteq greeted
      /\ \A w \in DOMAIN peers : peers[w] \in greeted
  BY DEF TypeOK, HubTypes, LifeTypes
<1>2. PeersOpen'
  BY <1>1 DEF LinksInv, PeersOpen
<1>3. TwinsOverlap'
  BY <1>1 DEF LinksInv, TwinsOverlap, Open
<1>4. LinksStand'
  BY <1>1 DEF LinksInv, LinksStand
<1>. QED BY <1>2, <1>3, <1>4 DEF LinksInv

LEMMA QuietLinks ==
  ASSUME TypeOK, LinksInv, UNCHANGED <<peers, greeted, overlapped, todo, active>>
  PROVE  LinksInv'
<1>1. \A d \in Connections : Closed(d)' <=> Closed(d)
  BY DEF Closed
<1>. QED BY <1>1, LinksKept

LEMMA GossipLinks ==
  ASSUME TypeOK, Dialled, LinksInv, NEW c \in Connections, ReadGossip(c)
  PROVE  LinksInv'
<1>1. PICK t \in Work(c) :
        /\ todo' = [todo EXCEPT ![c] = t]
        /\ \A step \in {"greet", "deactivate", "closed"} : ~Left(t, step)
  BY GossipWork
<1>2. todo[c] = <<>> /\ UNCHANGED <<peers, greeted, overlapped, active>>
  BY DEF ReadGossip, Reads, history
<1>3. todo'[c] = t /\ \A d \in Connections \ {c} : todo'[d] = todo[d]
  BY <1>1 DEF TypeOK, WorkTypes
<1>4. WorkTypes'
  BY <1>1, TodoTypes DEF TypeOK
<1>5. Closed(c)' <=> Closed(c)
  <2>1. ~Closed(c)
    BY <1>2 DEF Closed
  <2>2. Closed(c)' => Left(todo'[c], "closed")
    BY <1>3, <1>4, WorkGoesOn DEF WorkTypes, Closed, GoesOn
  <2>. QED BY <1>1, <1>3, <2>1, <2>2
<1>6. \A d \in Connections \ {c} : Closed(d)' <=> Closed(d)
  BY <1>3 DEF Closed
<1>. QED BY <1>1, <1>2, <1>3, <1>5, <1>6, NoSteps, LinksKept

LEMMA SectionLinks ==
  ASSUME TypeOK, Dialled, LinksInv, NEW c \in Connections,
         Greet(c) \/ Learn(c) \/ Announce(c) \/ Relay(c) \/ Handle(c) \/ HandOver(c)
  PROVE  LinksInv'
<1>1. PICK step \in {"greet", "learn", "announce", "relay", "handle", "handOver"} :
        Enter(c, step) /\ (step = "greet" => active' = active \cup What(c))
  <2>1. CASE Greet(c) \/ Learn(c)
    BY <2>1 DEF Greet, Learn, Added
  <2>2. CASE Announce(c) \/ Relay(c)
    BY <2>2 DEF Announce, Relay
  <2>3. CASE Handle(c) \/ HandOver(c)
    BY <2>3 DEF Handle, HandOver
  <2>. QED BY <2>1, <2>2, <2>3
<1>2. /\ GoesOn(c, todo[c]) /\ todo[c] # <<>> /\ Head(todo[c]).step = step
      /\ todo'[c] = Tail(todo[c]) /\ WorkTypes'
      /\ \A d \in Connections \ {c} : todo'[d] = todo[d]
  BY <1>1, EnterParts
<1>3. active \subseteq active' /\ UNCHANGED <<peers, greeted, overlapped>>
  BY DEF Greet, Learn, Added, Announce, Relay, Handle, HandOver, Enter, history
<1>4. ~Left(todo[c], "closed") /\ ~Left(todo'[c], "closed")
  BY <1>2 DEF GoesOn
<1>5. ~Closed(c) /\ ~Closed(c)'
  <2>1. Closed(c)' => Left(todo'[c], "closed")
    BY <1>2, WorkGoesOn DEF WorkTypes, Closed, GoesOn
  <2>2. ~Closed(c)
    BY <1>2 DEF Closed
  <2>. QED BY <1>4, <2>1, <2>2
<1>6. Left(todo[c], "greet") => WorkerOf(c) \in active'
  <2>1. Left(todo[c], "greet") => step = "greet" /\ What(c) = {WorkerOf(c)}
    BY <1>2 DEF GoesOn, What
  <2>. QED BY <1>1, <2>1
<1>7. \A d \in Connections \ {c} : Closed(d)' <=> Closed(d)
  BY <1>2 DEF Closed
<1>8. \A d \in Connections :
        /\ Left(todo'[d], "closed") <=> Left(todo[d], "closed")
        /\ Closed(d)' <=> Closed(d)
        /\ Left(todo[d], "greet") \/ WorkerOf(d) \in active
             => Left(todo'[d], "greet") \/ WorkerOf(d) \in active'
  BY <1>2, <1>3, <1>4, <1>5, <1>6, <1>7
<1>. QED BY <1>3, <1>8, LinksKept

\* A Hello that finds another task of its worker makes both overlap.
LEMMA HelloLinks ==
  ASSUME TypeOK, Dialled, LinksInv, NEW c \in Connections, ReadHello(c)
  PROVE  LinksInv'
<1> DEFINE t == With(HelloSteps, {WorkerOf(c)})
           W == WorkerOf(c)
<1>1. /\ todo[c] = <<>> /\ UNCHANGED <<active, dialled>>
      /\ greeted' = greeted \cup {c} /\ todo' = [todo EXCEPT ![c] = t]
      /\ peers' = [w \in DOMAIN peers \cup {W} |-> IF w = W THEN c ELSE peers[w]]
      /\ overlapped' = IF Twins(c) = {} THEN overlapped
                       ELSE overlapped \cup Twins(c) \cup {c}
  BY DEF ReadHello, Reads
<1>2. todo'[c] = t /\ \A d \in Connections \ {c} : todo'[d] = todo[d]
  BY <1>1 DEF TypeOK, WorkTypes
<1>3. t = <<Step("greet", {W}), Step("announce", {W}), Step("handOver", {W})>>
  BY DEF With, Step, HelloSteps
<1> HIDE DEF t
<1>4. ~Left(t, "closed") /\ Left(t, "greet") /\ t # <<>> /\ Head(t).step = "greet"
  BY <1>3, ThreeSteps
<1>5. greeted \subseteq Connections /\ \A w \in DOMAIN peers : peers[w] \in greeted
      /\ overlapped \subseteq greeted
  BY DEF TypeOK, HubTypes, LifeTypes
<1>6. PeersOpen'
  <2> SUFFICES ASSUME NEW w \in DOMAIN peers'
               PROVE  ~Left(todo'[peers'[w]], "closed")
    BY DEF PeersOpen
  <2>1. CASE w = W
    BY <1>1, <1>2, <1>4, <2>1
  <2>2. CASE w # W
    <3>1. w \in DOMAIN peers /\ peers'[w] = peers[w]
      BY <1>1, <2>2
    <3>2. ~Left(todo[peers[w]], "closed") /\ peers[w] \in Connections
      BY <1>5, <3>1 DEF LinksInv, PeersOpen
    <3>3. peers[w] = c \/ todo'[peers[w]] = todo[peers[w]]
      BY <1>2, <3>2
    <3>. QED BY <1>2, <1>4, <3>1, <3>2, <3>3
  <2>. QED BY <2>1, <2>2
<1>7. \A d \in greeted' : d # c => d \in greeted /\ (Open(d)' <=> Open(d))
                                    /\ todo'[d] = todo[d]
  BY <1>1, <1>2, <1>5 DEF Open, Closed
<1>8. overlapped \subseteq overlapped'
      /\ (Twins(c) # {} => c \in overlapped' /\ Twins(c) \subseteq overlapped')
  BY <1>1
<1>9. TwinsOverlap'
  <2> SUFFICES ASSUME NEW d \in greeted', NEW e \in greeted', d # e,
                      WorkerOf(d) = WorkerOf(e), Open(d)', Open(e)'
               PROVE  d \in overlapped' /\ e \in overlapped'
    BY DEF TwinsOverlap
  <2>1. CASE d # c /\ e # c
    BY <1>7, <1>8, <2>1 DEF LinksInv, TwinsOverlap
  <2>2. CASE d = c
    <3>1. e \in Twins(c)
      BY <1>7, <2>2 DEF Twins
    <3>. QED BY <1>8, <2>2, <3>1
  <2>3. CASE e = c
    <3>1. d \in Twins(c)
      BY <1>7, <2>3 DEF Twins
    <3>. QED BY <1>8, <2>3, <3>1
  <2>. QED BY <2>1, <2>2, <2>3
<1>10. LinksStand'
  <2> SUFFICES ASSUME NEW d \in greeted', d \notin overlapped', ~Left(todo'[d], "closed")
               PROVE  /\ WorkerOf(d) \in DOMAIN peers' /\ peers'[WorkerOf(d)] = d
                      /\ Left(todo'[d], "greet") \/ WorkerOf(d) \in active'
    BY DEF LinksStand
  <2>1. CASE d = c
    BY <1>1, <1>2, <1>4, <2>1
  <2>2. CASE d # c
    <3>1. /\ d \in greeted \ overlapped /\ todo'[d] = todo[d]
          /\ WorkerOf(d) \in DOMAIN peers /\ peers[WorkerOf(d)] = d
          /\ Left(todo[d], "greet") \/ WorkerOf(d) \in active
      BY <1>7, <1>8, <2>2 DEF LinksInv, LinksStand
    <3>2. WorkerOf(d) # W
      <4>1. ~Closed(d)
        BY <1>5, <3>1, ClosedIsLeft DEF TypeOK
      <4>2. WorkerOf(d) = W => d \in Twins(c)
        BY <2>2, <3>1, <4>1 DEF Twins, Open
      <4>. QED BY <1>8, <4>2
    <3>. QED BY <1>1, <3>1, <3>2
  <2>. QED BY <2>1, <2>2
<1>. QED BY <1>6, <1>9, <1>10 DEF LinksInv

LEMMA CloseLinks ==
  ASSUME TypeOK, Dialled, LinksInv, NEW c \in Connections, Close(c)
  PROVE  LinksInv'
<1> DEFINE W == WorkerOf(c)
<1>1. PICK t \in Work(c) : /\ todo' = [todo EXCEPT ![c] = t]
                           /\ ~Left(t, "greet") /\ Left(t, "closed")
  BY CloseParts
<1>2. /\ todo[c] = <<>> /\ UNCHANGED <<active, greeted, overlapped>>
      /\ peers' = IF c \in greeted THEN Restrict(peers, DOMAIN peers \ {W}) ELSE peers
  BY DEF Close, Ended, history
<1>3. todo'[c] = t /\ \A d \in Connections \ {c} : todo'[d] = todo[d]
  BY <1>1 DEF TypeOK, WorkTypes
<1>4. /\ greeted \subseteq Connections /\ overlapped \subseteq greeted
      /\ \A w \in DOMAIN peers : peers[w] \in greeted /\ WorkerOf(peers[w]) = w
  BY DEF TypeOK, HubTypes, LifeTypes
<1>5. \A w \in DOMAIN peers' : w \in DOMAIN peers /\ peers'[w] = peers[w] /\ peers[w] # c
  BY <1>2, <1>4 DEF Restrict
<1>6. PeersOpen'
  BY <1>3, <1>4, <1>5 DEF LinksInv, PeersOpen
<1>7. \A d \in greeted : Open(d)' => Open(d)
  <2>1. Open(c) \/ c \notin greeted
    BY <1>2 DEF Open, Closed
  <2>. QED BY <1>2, <1>3, <1>4, <2>1 DEF Open, Closed
<1>8. TwinsOverlap'
  BY <1>2, <1>7 DEF LinksInv, TwinsOverlap
<1>9. LinksStand'
  <2> SUFFICES ASSUME NEW d \in greeted, d \notin overlapped, ~Left(todo'[d], "closed")
               PROVE  /\ WorkerOf(d) \in DOMAIN peers' /\ peers'[WorkerOf(d)] = d
                      /\ Left(todo'[d], "greet") \/ WorkerOf(d) \in active'
    BY <1>2 DEF LinksStand
  <2>1. d # c /\ todo'[d] = todo[d]
    BY <1>1, <1>3, <1>4
  <2>2. /\ WorkerOf(d) \in DOMAIN peers /\ peers[WorkerOf(d)] = d
        /\ Left(todo[d], "greet") \/ WorkerOf(d) \in active
    BY <2>1 DEF LinksInv, LinksStand
  <2>3. c \in greeted => WorkerOf(d) # W
    <3> SUFFICES ASSUME c \in greeted, WorkerOf(d) = W
                 PROVE  FALSE
      OBVIOUS
    <3>1. Open(c)
      BY <1>2 DEF Open, Closed
    <3>2. Open(d)
      BY <1>4, <2>1, ClosedIsLeft DEF Open, TypeOK
    <3>. QED BY <2>1, <3>1, <3>2 DEF LinksInv, TwinsOverlap
  <2>. QED BY <1>2, <2>1, <2>2, <2>3 DEF Restrict
<1>. QED BY <1>6, <1>8, <1>9 DEF LinksInv

LEMMA DeactivateLinks ==
  ASSUME TypeOK, Dialled, EndsGreeted, LinksInv, NEW c \in Connections, Deactivate(c)
  PROVE  LinksInv'
<1>1. /\ Enter(c, "deactivate") /\ active' = active \ {WorkerOf(c)}
      /\ UNCHANGED <<peers, greeted, overlapped>>
  BY DEF Deactivate, Enter, history
<1>2. /\ GoesOn(c, todo[c]) /\ todo[c] # <<>> /\ Head(todo[c]).step = "deactivate"
      /\ todo'[c] = Tail(todo[c])
      /\ \A d \in Connections \ {c} : todo'[d] = todo[d]
  BY <1>1, EnterParts
<1>3. Left(todo[c], "closed") /\ Left(todo'[c], "closed")
  BY <1>2 DEF GoesOn
<1>4. /\ greeted \subseteq Connections /\ overlapped \subseteq greeted
      /\ \A w \in DOMAIN peers : peers[w] \in greeted
  BY DEF TypeOK, HubTypes, LifeTypes
<1>5. PeersOpen'
  <2>1. \A w \in DOMAIN peers : peers[w] # c
    BY <1>3 DEF LinksInv, PeersOpen
  <2>. QED BY <1>1, <1>2, <1>4, <2>1 DEF LinksInv, PeersOpen
<1>6. ~Closed(c) /\ \A d \in greeted : Open(d)' => Open(d)
  <2>1. ~Closed(c)
    BY <1>2 DEF Closed
  <2>. QED BY <1>1, <1>2, <1>4, <2>1 DEF Open, Closed
<1>7. TwinsOverlap'
  BY <1>1, <1>6 DEF LinksInv, TwinsOverlap
<1>8. LinksStand'
  <2> SUFFICES ASSUME NEW d \in greeted, d \notin overlapped, ~Left(todo'[d], "closed")
               PROVE  /\ WorkerOf(d) \in DOMAIN peers /\ peers[WorkerOf(d)] = d
                      /\ Left(todo'[d], "greet") \/ WorkerOf(d) \in active'
    BY <1>1 DEF LinksStand
  <2>1. d # c /\ todo'[d] = todo[d]
    BY <1>2, <1>3, <1>4
  <2>2. /\ WorkerOf(d) \in DOMAIN peers /\ peers[WorkerOf(d)] = d
        /\ Left(todo[d], "greet") \/ WorkerOf(d) \in active
    BY <2>1 DEF LinksInv, LinksStand
  <2>3. c \in greeted
    BY <1>2 DEF GoesOn, EndsGreeted
  <2>4. Open(c) /\ Open(d)
    BY <1>4, <1>6, <2>1, <2>3, ClosedIsLeft DEF Open, TypeOK
  <2>5. WorkerOf(d) # WorkerOf(c)
    BY <2>1, <2>3, <2>4 DEF LinksInv, TwinsOverlap
  <2>. QED BY <1>1, <2>1, <2>2, <2>5
<1>. QED BY <1>5, <1>7, <1>8 DEF LinksInv

LEMMA NextEnds ==
  ASSUME TypeOK, Dialled, EndsGreeted, [Next]_vars
  PROVE  EndsGreeted'
<1>1. greeted \subseteq greeted'
  BY DEF Next, Task, Dial, Cut, Submit, WorkerSync, HubSync, ReadHello, ReadGossip, Greet,
         Learn, Announce, Relay, Handle, HandOver, Close, Ended, Deactivate, Enter, history,
         vars
<1>2. ASSUME NEW c \in Connections, NEW t, todo' = [todo EXCEPT ![c] = t],
             Left(t, "deactivate") => c \in greeted
      PROVE  EndsGreeted'
  <2>1. todo'[c] = t /\ \A d \in Connections \ {c} : todo'[d] = todo[d]
    BY <1>2 DEF TypeOK, WorkTypes
  <2>. QED BY <1>1, <1>2, <2>1 DEF EndsGreeted
<1>3. CASE UNCHANGED todo
  BY <1>1, <1>3 DEF EndsGreeted
<1>4. ASSUME NEW c \in Connections, NEW step, Enter(c, step)
      PROVE  EndsGreeted'
  <2>1. /\ GoesOn(c, todo[c])
        /\ todo' = [todo EXCEPT ![c] = Tail(todo[c])]
    BY <1>4, EnterParts
  <2>. QED BY <1>2, <2>1 DEF GoesOn
<1>5. ASSUME NEW c \in Connections, ReadHello(c)
      PROVE  EndsGreeted'
  <2> DEFINE t == With(HelloSteps, {WorkerOf(c)})
             W == WorkerOf(c)
  <2>1. t = <<Step("greet", {W}), Step("announce", {W}), Step("handOver", {W})>>
    BY DEF With, Step, HelloSteps
  <2>2. todo' = [todo EXCEPT ![c] = t]
    BY <1>5 DEF ReadHello
  <2> HIDE DEF t
  <2>3. ~Left(t, "deactivate")
    BY <2>1, ThreeSteps
  <2>. QED BY <1>2, <2>2, <2>3
<1>6. ASSUME NEW c \in Connections, Task(c)
      PROVE  EndsGreeted'
  <2>1. CASE ReadGossip(c)
    BY <1>2, <2>1, GossipWork
  <2>2. CASE Close(c)
    BY <1>2, <2>2, CloseParts
  <2>. QED BY <1>4, <1>5, <1>6, <2>1, <2>2
           DEF Task, Greet, Learn, Announce, Relay, Handle, HandOver, Deactivate
<1>7. CASE HubSync \/ UNCHANGED vars
  BY <1>3, <1>7 DEF HubSync, vars
<1>8. ASSUME NEW c \in Connections, Dial(c) \/ Cut(c) \/ Submit(c) \/ WorkerSync(c)
      PROVE  EndsGreeted'
  BY <1>3, <1>8 DEF Dial, Cut, Submit, WorkerSync
<1>. QED BY <1>6, <1>7, <1>8 DEF Next

LEMMA NextLinks ==
  ASSUME TypeOK, Dialled, EndsGreeted, LinksInv, [Next]_vars
  PROVE  LinksInv'
<1>1. CASE HubSync \/ UNCHANGED vars
  BY <1>1, QuietLinks DEF HubSync, history, vars
<1>2. ASSUME NEW c \in Connections, Dial(c) \/ Cut(c) \/ Submit(c) \/ WorkerSync(c)
      PROVE  LinksInv'
  BY <1>2, QuietLinks DEF Dial, Cut, Submit, WorkerSync, history
<1>3. ASSUME NEW c \in Connections, Task(c)
      PROVE  LinksInv'
  BY <1>3, HelloLinks, GossipLinks, SectionLinks, CloseLinks, DeactivateLinks DEF Task
<1>. QED BY <1>1, <1>2, <1>3 DEF Next

-----------------------------------------------------------------------------
\* News.

\* The news of a key that was under way stays so when it is announced no less and the
\* peer has yet to be greeted or knows no less.
LEMMA NewsKept ==
  ASSUME TypeOK, NewsUnderWay, cut \subseteq cut', validators' = validators,
         \A w \in DOMAIN peers' : w \in DOMAIN peers /\ peers'[w] = peers[w],
         \A c \in Connections : known[c] \subseteq known'[c],
         \A c \in Connections : Left(todo[c], "greet") => Left(todo'[c], "greet"),
         \A c \in Connections : \A key : Announces(todo[c], key) => Announces(todo'[c], key)
  PROVE  NewsUnderWay'
<1>1. \A w \in DOMAIN peers : peers[w] \in Connections
  BY DEF TypeOK, HubTypes, LifeTypes
<1>. QED BY <1>1 DEF NewsUnderWay

LEMMA QuietNews ==
  ASSUME TypeOK, Dialled, NewsUnderWay,
         UNCHANGED vars \/ HubSync
           \/ \E c \in Connections : Dial(c) \/ Cut(c) \/ Submit(c) \/ WorkerSync(c)
  PROVE  NewsUnderWay'
<1>1. /\ cut \subseteq cut' /\ UNCHANGED <<validators, peers, todo>>
      /\ known' = known \/ \E c \in Connections : known' = [known EXCEPT ![c] = @ \cup {Hub}]
  BY DEF vars, HubSync, Dial, Cut, Submit, WorkerSync
<1>2. \A c \in Connections : known[c] \subseteq known'[c]
  BY <1>1 DEF TypeOK, WorkerTypes
<1>. QED BY <1>1, <1>2, NewsKept

\* A task that reads, or ends, had nothing left to do.
LEMMA IdleNews ==
  ASSUME TypeOK, Dialled, NewsUnderWay, NEW c \in Connections, ReadGossip(c) \/ Close(c)
  PROVE  NewsUnderWay'
<1>1. /\ todo[c] = <<>> /\ UNCHANGED <<cut, validators, known>>
      /\ \A d \in Connections \ {c} : todo'[d] = todo[d]
  BY DEF ReadGossip, Reads, Close, Ended, TypeOK, WorkTypes
<1>2. \A w \in DOMAIN peers' : w \in DOMAIN peers /\ peers'[w] = peers[w]
  BY DEF ReadGossip, Close, Restrict
<1>3. /\ \A d \in Connections : Left(todo[d], "greet") => Left(todo'[d], "greet")
      /\ \A d \in Connections : \A key : Announces(todo[d], key) => Announces(todo'[d], key)
  BY <1>1, NoSteps
<1>. QED BY <1>1, <1>2, <1>3, NewsKept

\* The new peer is still to be greeted.
LEMMA HelloNews ==
  ASSUME TypeOK, Dialled, NewsUnderWay, NEW c \in Connections, ReadHello(c)
  PROVE  NewsUnderWay'
<1> DEFINE t == With(HelloSteps, {WorkerOf(c)})
           W == WorkerOf(c)
<1>1. /\ todo[c] = <<>> /\ UNCHANGED <<cut, validators, known>>
      /\ todo' = [todo EXCEPT ![c] = t]
      /\ peers' = [w \in DOMAIN peers \cup {W} |-> IF w = W THEN c ELSE peers[w]]
  BY DEF ReadHello, Reads
<1>2. todo'[c] = t /\ \A d \in Connections \ {c} : todo'[d] = todo[d]
  BY <1>1 DEF TypeOK, WorkTypes
<1>3. t = <<Step("greet", {W}), Step("announce", {W}), Step("handOver", {W})>>
  BY DEF With, Step, HelloSteps
<1> HIDE DEF t
<1>4. Left(t, "greet")
  BY <1>3, ThreeSteps
<1>5. \A d \in Connections : \A key : Announces(todo[d], key) => Announces(todo'[d], key)
  BY <1>1, <1>2, NoSteps
<1>6. SUFFICES ASSUME NEW w \in DOMAIN peers', NEW key \in validators
               PROVE  \/ peers'[w] \in cut
                      \/ key \in known[peers'[w]]
                      \/ Left(todo'[peers'[w]], "greet")
                      \/ \E d \in Connections : WorkerOf(d) = key /\ Announces(todo'[d], key)
  BY <1>1 DEF NewsUnderWay
<1>7. CASE peers'[w] = c
  BY <1>2, <1>4, <1>7
<1>8. CASE peers'[w] # c
  <2>1. w \in DOMAIN peers /\ peers'[w] = peers[w] /\ peers[w] \in Connections
    BY <1>1, <1>8 DEF TypeOK, HubTypes, LifeTypes
  <2>. QED BY <1>2, <1>5, <1>8, <2>1 DEF NewsUnderWay
<1>. QED BY <1>7, <1>8

\* What is added to the validators is announced next.  A connection brings the key of
\* its worker, and the hub's, which every worker knows.
LEMMA AddNews ==
  ASSUME TypeOK, Dialled, NewsUnderWay, NEW c \in Connections, Greet(c) \/ Learn(c)
  PROVE  NewsUnderWay'
<1>1. PICK step \in {"greet", "learn"} : Enter(c, step) /\ (step = "greet" => Greet(c))
  BY DEF Greet, Learn
<1>2. /\ GoesOn(c, todo[c]) /\ Head(todo[c]).step = step /\ todo'[c] = Tail(todo[c])
      /\ \A d \in Connections \ {c} : todo'[d] = todo[d]
  BY <1>1, EnterParts
<1>3. /\ UNCHANGED <<peers, cut>> /\ validators' = validators \cup What(c)
      /\ known' = known \/ known' = Collected(known, {c}, validators')
      /\ Greet(c) => known' = Collected(known, {c}, validators')
  BY DEF Greet, Learn, Added, Enter
<1>4. What(c) \subseteq Own(c) /\ \A key \in What(c) : Announces(todo'[c], key)
  BY AddTypes
<1>5. \A d \in Connections : known[d] \subseteq known'[d]
  BY <1>3, CollectedParts
<1>6. \A d \in Connections : \A key : Announces(todo[d], key) => Announces(todo'[d], key)
  <2>1. \A key : Announces(todo[c], key) => Announces(todo'[c], key)
    BY <1>2 DEF GoesOn
  <2>. QED BY <1>2, <2>1
<1>7. SUFFICES ASSUME NEW w \in DOMAIN peers, NEW key \in validators'
               PROVE  \/ peers[w] \in cut
                      \/ key \in known'[peers[w]]
                      \/ Left(todo'[peers[w]], "greet")
                      \/ \E d \in Connections : WorkerOf(d) = key /\ Announces(todo'[d], key)
  BY <1>3 DEF NewsUnderWay
<1>8. peers[w] \in Connections /\ peers[w] \in dialled
  BY DEF TypeOK, HubTypes, LifeTypes
<1>9. CASE key \in What(c)
  <2>1. CASE key = WorkerOf(c)
    BY <1>4, <1>9, <2>1
  <2>2. CASE key = Hub
    BY <1>5, <1>8, <2>2 DEF Dialled, Own
  <2>. QED BY <1>4, <1>9, <2>1, <2>2 DEF Own
<1>10. CASE key \in validators /\ peers[w] # c
  BY <1>2, <1>5, <1>6, <1>8, <1>10 DEF NewsUnderWay
<1>11. CASE key \in validators /\ peers[w] = c
  <2>1. CASE step = "greet"
    <3>1. c \notin cut => known'[c] = known[c] \cup validators'
      BY <1>1, <1>3, <2>1, CollectedParts
    <3>. QED BY <1>11, <3>1
  <2>2. CASE step # "greet"
    <3>1. ~Left(todo[c], "greet")
      BY <1>2, <2>2 DEF GoesOn
    <3>. QED BY <1>5, <1>6, <1>8, <1>11, <3>1 DEF NewsUnderWay
  <2>. QED BY <2>1, <2>2
<1>. QED BY <1>3, <1>9, <1>10, <1>11

\* The announcement reaches every peer but the worker it is about.
LEMMA AnnounceNews ==
  ASSUME TypeOK, Dialled, NewsUnderWay, NEW c \in Connections, Announce(c)
  PROVE  NewsUnderWay'
<1>1. /\ Enter(c, "announce") /\ UNCHANGED <<peers, cut, validators>>
      /\ known' = Collected(known, PeersBut(WorkerOf(c)), What(c))
  BY DEF Announce, Enter
<1>2. /\ GoesOn(c, todo[c]) /\ Head(todo[c]).step = "announce" /\ todo'[c] = Tail(todo[c])
      /\ \A d \in Connections \ {c} : todo'[d] = todo[d]
  BY <1>1, EnterParts
<1>3. \A d \in Connections : known[d] \subseteq known'[d]
  BY <1>1, CollectedParts
<1>4. \A d \in Connections : Left(todo[d], "greet") => Left(todo'[d], "greet")
  BY <1>2 DEF GoesOn
<1>5. SUFFICES ASSUME NEW w \in DOMAIN peers, NEW key \in validators, peers[w] \notin cut,
                      NEW d \in Connections, WorkerOf(d) = key, Announces(todo[d], key)
               PROVE  \/ key \in known'[peers[w]]
                      \/ Announces(todo'[d], key)
  <2>1. \A w \in DOMAIN peers : peers[w] \in Connections
    BY DEF TypeOK, HubTypes, LifeTypes
  <2>. QED BY <1>1, <1>3, <1>4, <2>1 DEF NewsUnderWay
<1>6. /\ peers[w] \in Connections /\ peers[w] \in dialled /\ WorkerOf(peers[w]) = w
      /\ peers[w] \in Range(peers)
  BY DEF TypeOK, HubTypes, LifeTypes, Range
<1>7. CASE d # c
  BY <1>2, <1>5, <1>7
<1>8. CASE d = c /\ key \notin What(c)
  BY <1>2, <1>5, <1>8 DEF GoesOn, What
<1>9. CASE d = c /\ key \in What(c) /\ w = WorkerOf(c)
  BY <1>3, <1>5, <1>6, <1>9 DEF Dialled, Own
<1>10. CASE d = c /\ key \in What(c) /\ w # WorkerOf(c)
  <2>1. peers[w] \in PeersBut(WorkerOf(c)) \ cut
    BY <1>5, <1>6, <1>10 DEF PeersBut
  <2>. QED BY <1>1, <1>6, <1>10, <2>1, CollectedParts
<1>. QED BY <1>7, <1>8, <1>9, <1>10

\* The sections that are not about validators.
LEMMA PassNews ==
  ASSUME TypeOK, Dialled, NewsUnderWay, NEW c \in Connections,
         Relay(c) \/ Handle(c) \/ HandOver(c) \/ Deactivate(c)
  PROVE  NewsUnderWay'
<1>1. PICK step \in {"relay", "handle", "handOver", "deactivate"} : Enter(c, step)
  BY DEF Relay, Handle, HandOver, Deactivate
<1>2. /\ GoesOn(c, todo[c]) /\ Head(todo[c]).step = step /\ todo'[c] = Tail(todo[c])
      /\ \A d \in Connections \ {c} : todo'[d] = todo[d]
  BY <1>1, EnterParts
<1>3. UNCHANGED <<peers, cut, validators, known>>
  BY DEF Relay, Handle, HandOver, Deactivate, Enter
<1>4. /\ Left(todo[c], "greet") => Left(todo'[c], "greet")
      /\ \A key : Announces(todo[c], key) => Announces(todo'[c], key)
  BY <1>2 DEF GoesOn
<1>5. /\ \A d \in Connections : Left(todo[d], "greet") => Left(todo'[d], "greet")
      /\ \A d \in Connections : \A key : Announces(todo[d], key) => Announces(todo'[d], key)
  BY <1>2, <1>4
<1>. QED BY <1>3, <1>5, NewsKept

LEMMA NextNews ==
  ASSUME TypeOK, Dialled, NewsUnderWay, [Next]_vars
  PROVE  NewsUnderWay'
<1>1. ASSUME NEW c \in Connections, Task(c)
      PROVE  NewsUnderWay'
  BY <1>1, IdleNews, HelloNews, AddNews, AnnounceNews, PassNews DEF Task
<1>. QED BY <1>1, QuietNews DEF Next

-----------------------------------------------------------------------------
\* What the mesh promises.

LEMMA InitInv ==
  ASSUME Init
  PROVE  MeshInv
<1>1. TypeOK /\ Dialled
  BY InitTypes
<1>2. EndsGreeted
  BY NoSteps DEF Init, EndsGreeted
<1>3. DOMAIN peers = {}
  BY DEF Init
<1>4. LinksInv /\ NewsUnderWay
  BY <1>3 DEF Init, LinksInv, PeersOpen, TwinsOverlap, LinksStand, NewsUnderWay
<1>. QED BY <1>1, <1>2, <1>4 DEF MeshInv

LEMMA NextInv ==
  ASSUME MeshInv, [Next]_vars
  PROVE  MeshInv'
BY NextTypes, NextEnds, NextLinks, NextNews DEF MeshInv

\* The tasks of the hub, the peers it writes to and what the workers have heard of
\* stay together as MeshInv says.
THEOREM MeshInvariant == Spec => []MeshInv
<1>1. Init => MeshInv
  BY InitInv
<1>2. MeshInv /\ [Next]_vars => MeshInv'
  BY NextInv
<1>. QED BY <1>1, <1>2, PTL DEF Spec

LEMMA OpenPeers ==
  ASSUME MeshInv
  PROVE  OnlyOverlapSilences
<1>1. /\ greeted \subseteq Connections
      /\ \A w \in DOMAIN peers : peers[w] \in greeted
      /\ \A c \in Connections : Closed(c) => Left(todo[c], "closed")
  BY ClosedIsLeft DEF MeshInv, TypeOK, HubTypes, LifeTypes
<1>2. \A c \in Range(peers) : Open(c)
  BY <1>1 DEF MeshInv, LinksInv, PeersOpen, Open, Range
<1>3. \A c \in greeted \ overlapped :
        todo[c] = <<>> => /\ WorkerOf(c) \in DOMAIN peers /\ peers[WorkerOf(c)] = c
                          /\ WorkerOf(c) \in active
  BY NoSteps DEF MeshInv, LinksInv, LinksStand
<1>. QED BY <1>2, <1>3 DEF OnlyOverlapSilences

LEMMA QuietHub ==
  ASSUME MeshInv, \A c \in Connections : Idle(c)
  PROVE  \A c \in Connections : IsLink(c) => active \subseteq known[c]
<1>1. \A c \in Connections : /\ \A key : ~Announces(todo[c], key)
                             /\ ~Left(todo[c], "greet")
  <2> SUFFICES ASSUME NEW c \in Connections
               PROVE  (\A key : ~Announces(todo[c], key)) /\ ~Left(todo[c], "greet")
    OBVIOUS
  <2>1. CASE todo[c] = <<>>
    BY <2>1, NoSteps
  <2>2. CASE Closed(c)
    <3>1. todo[c] \in Work(c) /\ todo[c] # <<>> /\ Head(todo[c]).step = "closed"
      BY <2>2 DEF Closed, MeshInv, TypeOK, WorkTypes
    <3>. QED BY <3>1, WorkGoesOn DEF GoesOn
  <2>. QED BY <2>1, <2>2 DEF Idle
<1>2. SUFFICES ASSUME NEW c \in Connections, IsLink(c), NEW key \in active
               PROVE  key \in known[c]
  OBVIOUS
<1>3. PICK w \in DOMAIN peers : peers[w] = c
  BY <1>2 DEF IsLink, Range
<1>4. c \notin cut /\ key \in validators
  BY <1>2 DEF IsLink, MeshInv, TypeOK, HubTypes
<1>. QED BY <1>1, <1>3, <1>4 DEF MeshInv, NewsUnderWay

\* The hub writes only to connections whose task still runs, and a connection it has
\* greeted is its link to the worker, who counts, unless the task of another connection
\* of the worker was there at the same time.
THEOREM SilenceTheorem == Spec => []OnlyOverlapSilences
<1>1. MeshInv => OnlyOverlapSilences
  BY OpenPeers
<1>. QED BY <1>1, MeshInvariant, PTL

\* Whenever the hub has nothing left to read and to do, every worker it writes to knows
\* every validator that counts, in whatever order the tasks handled the Hellos.
THEOREM MembershipTheorem == Spec => []MembershipSpreads
<1>1. MeshInv => MembershipSpreads
  BY QuietHub DEF MembershipSpreads
<1>. QED BY <1>1, MeshInvariant, PTL

=============================================================================
