------------------------- MODULE InputReaderProofs -------------------------
(***************************************************************************)
(* The safety of the keyboard reader, for a channel of any capacity and    *)
(* any number of events.  The invariant adds to the properties where the   *)
(* event being published is, that `stop` precedes all that follows it      *)
(* (the token, its visibility, the release of the channel), and what each  *)
(* place of the main thread says of the reader.                            *)
(***************************************************************************)
EXTENDS InputReader, FiniteSetTheorems, TLAPS

Events(c) == {c[i].at : i \in {j \in DOMAIN c : c[j].kind = "event"}}

Ordered(c) ==
  \A i, j \in DOMAIN c :
    i < j /\ c[i].kind = "event" /\ c[j].kind = "event" => c[i].at < c[j].at

HeldInv ==
  /\ Len(typed) <= MaxTyped
  /\ reader = "read" => nread < Len(typed)
  /\ held # 0 <=> reader \in {"send", "try", "parked"}
  /\ held # 0 => held = nread /\ IsMessage(held)

StopInv ==
  /\ seen \/ token => stop
  /\ woken => seen
  /\ reader = "try" => ~woken
  /\ main \in {"unpark", "join", "receiver"} => stop

PlaceInv ==
  /\ main = "new" => reader = "none"
  /\ main \in {"receiver", "terminal", "tasks", "ended"} => reader \in {"none", "done"}
  /\ terminal = "shell" => main \in {"new", "tasks", "ended"}

OrderInv ==
  /\ handled \cup Events(channel) \subseteq 1..nread
  /\ EventsInOrder

InputInv ==
  InputTypeOK /\ HeldInv /\ StopInv /\ PlaceInv /\ OrderInv /\ NoEventLost

----------------------------------------------------------------------------
LEMMA QueuedEvents == Queued = Events(channel)
BY DEF Queued, Events

LEMMA Messages ==
  /\ \A m \in Message : m.kind = "event" => m.at \in 1..MaxTyped
  /\ \A i \in 1..MaxTyped : Event(i) \in Message /\ Event(i).kind = "event" /\ Event(i).at = i
  /\ \A r \in Reply : [kind |-> r] \in Message /\ [kind |-> r].kind # "event"
BY DEF Message, Event, Reply

LEMMA Appended ==
  ASSUME NEW c \in Seq(Message), NEW m \in Message
  PROVE  /\ Append(c, m) \in Seq(Message) /\ Len(Append(c, m)) = Len(c) + 1
         /\ Events(Append(c, m)) = Events(c) \cup (IF m.kind = "event" THEN {m.at} ELSE {})
         /\ Ordered(c) /\ (m.kind = "event" => \A q \in Events(c) : q < m.at)
              => Ordered(Append(c, m))
<1> DEFINE d == Append(c, m)
           n == Len(c)
<1>1. /\ d \in Seq(Message) /\ n \in Nat /\ Len(d) = n + 1 /\ d[n + 1] = m
      /\ \A i \in 1..n : d[i] = c[i]
      /\ DOMAIN c = 1..n /\ DOMAIN d = 1..(n + 1)
  OBVIOUS
<1>2. Events(d) = Events(c) \cup (IF m.kind = "event" THEN {m.at} ELSE {})
  BY <1>1 DEF Events
<1>3. ASSUME Ordered(c), m.kind = "event" => \A q \in Events(c) : q < m.at
      PROVE  Ordered(d)
  <2>1. ASSUME NEW i \in 1..n, c[i].kind = "event" PROVE c[i].at \in Events(c)
    BY <1>1, <2>1 DEF Events
  <2>2. QED
    BY <1>1, <1>3, <2>1 DEF Ordered
<1>4. QED
  BY <1>1, <1>2, <1>3

LEMMA Received ==
  ASSUME NEW c \in Seq(Message), c # <<>>
  PROVE  /\ Tail(c) \in Seq(Message) /\ Len(Tail(c)) = Len(c) - 1
         /\ Head(c) \in Message
         /\ Events(c) = Events(Tail(c))
                          \cup (IF Head(c).kind = "event" THEN {Head(c).at} ELSE {})
         /\ Ordered(c) =>
              /\ Ordered(Tail(c))
              /\ Head(c).kind = "event" => \A q \in Events(Tail(c)) : Head(c).at < q
<1> DEFINE d == Tail(c)
           n == Len(c)
<1>1. /\ d \in Seq(Message) /\ n \in Nat \ {0} /\ Len(d) = n - 1 /\ Head(c) = c[1]
      /\ \A i \in 1..(n - 1) : d[i] = c[i + 1]
      /\ DOMAIN c = 1..n /\ DOMAIN d = 1..(n - 1)
      /\ c[1] \in Message
  OBVIOUS
<1>2. \A i \in 1..n : i = 1 \/ (i - 1 \in 1..(n - 1) /\ d[i - 1] = c[i])
  BY <1>1
<1>3. Events(c) = Events(d) \cup (IF c[1].kind = "event" THEN {c[1].at} ELSE {})
  <2>1. ASSUME NEW e \in Events(c)
        PROVE  e \in Events(d) \cup (IF c[1].kind = "event" THEN {c[1].at} ELSE {})
    <3>1. PICK i \in 1..n : c[i].kind = "event" /\ e = c[i].at
      BY <1>1 DEF Events
    <3>2. CASE i = 1
      BY <3>1, <3>2
    <3>3. CASE i # 1
      <4>1. i - 1 \in DOMAIN d /\ d[i - 1] = c[i]
        BY <1>1, <1>2, <3>3
      <4>2. QED
        BY <3>1, <4>1 DEF Events
    <3>4. QED
      BY <3>2, <3>3
  <2>2. ASSUME NEW e \in Events(d) PROVE e \in Events(c)
    BY <1>1 DEF Events
  <2>3. c[1].kind = "event" => c[1].at \in Events(c)
    BY <1>1 DEF Events
  <2>4. QED
    BY <2>1, <2>2, <2>3
<1>4. ASSUME Ordered(c) PROVE Ordered(d)
  BY <1>1, <1>4 DEF Ordered
<1>5. ASSUME Ordered(c), c[1].kind = "event", NEW q \in Events(d) PROVE c[1].at < q
  <2>1. PICK i \in 1..(n - 1) : d[i].kind = "event" /\ q = d[i].at
    BY <1>1 DEF Events
  <2>2. i + 1 \in 1..n /\ 1 < i + 1 /\ c[i + 1] = d[i]
    BY <1>1
  <2>3. QED
    BY <1>1, <1>5, <2>1, <2>2 DEF Ordered
<1>6. QED
  BY <1>1, <1>3, <1>4, <1>5

LEMMA Order == EventsInOrder <=>
  /\ Ordered(channel)
  /\ \A h \in handled, q \in Events(channel) : h < q
  /\ \A h \in handled \cup Events(channel), e \in InHand : h < e
BY DEF EventsInOrder, Ordered, Queued, Events

(* The steps of the shutdown, one by one. *)
LEMMA Steps ==
  /\ Leave => main' = "stop"
  /\ Released("stop") => main = "stop" /\ main' = "unpark"
  /\ Released("unpark") => main = "unpark" /\ main' = "join"
  /\ Released("join") => main = "join" /\ main' = "receiver"
  /\ Released("receiver") => main = "receiver" /\ main' = "terminal"
  /\ Released("terminal") => main = "terminal" /\ main' = "tasks"
  /\ Released("tasks") => main = "tasks" /\ main' = "ended"
<1>1. /\ Len(ShutdownOrder) = 7
      /\ ShutdownOrder[1] = "stop" /\ ShutdownOrder[2] = "unpark"
      /\ ShutdownOrder[3] = "join" /\ ShutdownOrder[4] = "receiver"
      /\ ShutdownOrder[5] = "terminal" /\ ShutdownOrder[6] = "tasks"
      /\ ShutdownOrder[7] = "ended"
  BY DEF ShutdownOrder
<1>2. \A i \in 1..(7 - 1) : i = 1 \/ i = 2 \/ i = 3 \/ i = 4 \/ i = 5 \/ i = 6
  OBVIOUS
<1>3. QED
  BY <1>1, <1>2 DEF Leave, Released

LEMMA RoomLeft ==
  ASSUME InputTypeOK, Room, NEW m \in Message
  PROVE  Append(channel, m) \in Seq(Message) /\ Len(Append(channel, m)) <= Capacity
<1>1. channel \in Seq(Message) /\ Len(channel) \in Nat /\ Len(waiting) \in Nat
  BY DEF InputTypeOK
<1>2. Len(channel) + 1 <= Capacity
  BY <1>1, CapacityAssumption DEF Room
<1>3. QED
  BY <1>1, <1>2, Appended

LEMMA Types ==
  ASSUME InputTypeOK, HeldInv, OrderInv, [Next]_vars
  PROVE  InputTypeOK'
<1> USE MaxTypedAssumption, CapacityAssumption
<1> USE DEF InputTypeOK, readerVars, taskVars, Phases
<1>1. CASE Type
  <2>1. typed' \in Seq({"press", "resize", "release"}) /\ Len(typed') = Len(typed) + 1
    BY <1>1 DEF Type
  <2>2. UNCHANGED <<nread, reader, held, seen, token, woken, stop, channel, calls, waiting,
                    main, terminal, handled>>
    BY <1>1 DEF Type
  <2>3. QED
    BY <2>1, <2>2
<1>2. CASE CheckStop
  BY <1>2 DEF CheckStop
<1>3. CASE Poll
  BY <1>3 DEF Poll
<1>4. CASE Read
  BY <1>4 DEF Read, HeldInv
<1>5. CASE SendCheckStop
  BY <1>5 DEF SendCheckStop
<1>6. CASE Try
  <2>1. Event(held) \in Message
    BY <1>6, Messages DEF Try, HeldInv
  <2>2. channel' \in Seq(Message) /\ Len(channel') <= Capacity
    <3>1. CASE Room
      BY <1>6, <2>1, <3>1, RoomLeft DEF Try
    <3>2. CASE ~Room
      BY <1>6, <3>2 DEF Try
    <3>3. QED
      BY <3>1, <3>2
  <2>3. reader' \in {"check", "parked"} /\ held' \in {0, held}
    BY <1>6 DEF Try
  <2>4. QED
    BY <1>6, <2>2, <2>3 DEF Try
<1>7. CASE Unparked
  BY <1>7 DEF Unparked
<1>8. CASE StopVisible
  BY <1>8 DEF StopVisible
<1>9. ASSUME NEW r \in Reply, TaskReplies(r) PROVE InputTypeOK'
  <2>1. calls' \in [Reply -> Nat]
    BY <1>9 DEF TaskReplies
  <2>2. CASE Room
    <3>1. channel' = Append(channel, [kind |-> r]) /\ waiting' = waiting
      BY <1>9, <2>2 DEF TaskReplies
    <3>2. channel' \in Seq(Message) /\ Len(channel') <= Capacity
      BY <2>2, <3>1, Messages, RoomLeft
    <3>3. QED
      BY <1>9, <2>1, <3>1, <3>2 DEF TaskReplies
  <2>3. CASE ~Room
    <3>1. channel' = channel /\ waiting' = Append(waiting, r)
      BY <1>9, <2>3 DEF TaskReplies
    <3>2. waiting' \in Seq(Reply)
      BY <3>1
    <3>3. QED
      BY <1>9, <2>1, <3>1, <3>2 DEF TaskReplies
  <2>4. QED
    BY <2>2, <2>3
<1>10. CASE WaiterSends
  <2>1. Head(waiting) \in Reply /\ Tail(waiting) \in Seq(Reply)
    BY <1>10 DEF WaiterSends
  <2>2. channel' \in Seq(Message) /\ Len(channel') <= Capacity
    <3>1. [kind |-> Head(waiting)] \in Message /\ channel' = Append(channel, [kind |-> Head(waiting)])
      BY <1>10, <2>1, Messages DEF WaiterSends
    <3>2. Len(channel) < Capacity /\ Len(channel) \in Nat
      BY <1>10 DEF WaiterSends
    <3>3. QED
      BY <3>1, <3>2, Appended
  <2>3. QED
    BY <1>10, <2>1, <2>2 DEF WaiterSends
<1>11. CASE Start
  <2>1. calls' \in [Reply -> Nat]
    BY <1>11 DEF Start
  <2>2. QED
    BY <1>11, <2>1 DEF Start
<1>12. CASE Draw
  BY <1>12, Steps DEF Draw
<1>13. CASE Recv
  <2>1. channel' \in Seq(Message) /\ Len(channel') <= Capacity
    BY <1>13, Received DEF Recv
  <2>2. main' \in {"stop", "draw"} /\ calls' \in [Reply -> Nat]
    <3>1. \A r \in Reply : Dispatched(r) => calls' \in [Reply -> Nat]
      BY DEF Dispatched
    <3>2. "answer" \in Reply
      BY DEF Reply
    <3>3. QED
      BY <1>13, <3>1, <3>2, Steps DEF Recv, Update
  <2>3. handled' \subseteq 1..Len(typed)
    <3>1. Head(channel).kind = "event" => Head(channel).at \in 1..Len(typed)
      <4>1. channel # <<>> /\ channel \in Seq(Message)
        BY <1>13 DEF Recv
      <4>2. Head(channel).kind = "event" => Head(channel).at \in Events(channel)
        BY <4>1, Received
      <4>3. QED
        BY <4>2 DEF OrderInv
    <3>2. QED
      BY <1>13, <3>1 DEF Recv
  <2>4. QED
    BY <1>13, <2>1, <2>2, <2>3 DEF Recv
<1>14. CASE SetStop
  BY <1>14, Steps DEF SetStop
<1>15. CASE Unpark
  BY <1>15, Steps DEF Unpark
<1>16. CASE Join
  BY <1>16, Steps DEF Join
<1>17. CASE DropReceiver
  BY <1>17, Steps DEF DropReceiver
<1>18. CASE Restore
  BY <1>18, Steps DEF Restore
<1>19. CASE DropTasks
  BY <1>19, Steps DEF DropTasks
<1>20. CASE UNCHANGED vars
  BY <1>20 DEF vars
<1>21. QED
  BY <1>1, <1>2, <1>3, <1>4, <1>5, <1>6, <1>7, <1>8, <1>9, <1>10, <1>11, <1>12, <1>13,
     <1>14, <1>15, <1>16, <1>17, <1>18, <1>19, <1>20
     DEF Next, ReaderStep, MainStep, Shutdown

LEMMA Held ==
  ASSUME InputTypeOK, HeldInv, PlaceInv, [Next]_vars
  PROVE  HeldInv'
<1> USE MaxTypedAssumption DEF InputTypeOK, HeldInv, IsMessage, readerVars, taskVars
<1>1. CASE Type
  <2>1. /\ UNCHANGED <<nread, reader, held>> /\ Len(typed') = Len(typed) + 1
        /\ Len(typed') <= MaxTyped
        /\ \A i \in 1..Len(typed) : typed'[i] = typed[i]
    BY <1>1 DEF Type
  <2>2. QED
    BY <2>1
<1>2. CASE CheckStop
  BY <1>2 DEF CheckStop
<1>3. CASE Poll
  BY <1>3 DEF Poll
<1>4. CASE Read
  BY <1>4 DEF Read
<1>5. CASE SendCheckStop
  BY <1>5 DEF SendCheckStop
<1>6. CASE Try
  BY <1>6 DEF Try
<1>7. CASE Unparked
  BY <1>7 DEF Unparked
<1>8. CASE Start
  BY <1>8 DEF Start, PlaceInv
<1>9. QED
  <2>1. ASSUME UNCHANGED <<typed, nread, reader, held>> PROVE HeldInv'
    BY <2>1
  <2>2. CASE StopVisible \/ WaiterSends \/ UNCHANGED vars \/ \E r \in Reply : TaskReplies(r)
    BY <2>1, <2>2 DEF StopVisible, TaskReplies, WaiterSends, vars
  <2>3. CASE Draw \/ Recv \/ Shutdown
    BY <2>1, <2>3 DEF Draw, Recv, Shutdown, SetStop, Unpark, Join, DropReceiver, Restore,
                      DropTasks
  <2>4. QED
    BY <1>1, <1>2, <1>3, <1>4, <1>5, <1>6, <1>7, <1>8, <2>2, <2>3
       DEF Next, ReaderStep, MainStep

(* `stop` is set before the reader is woken, so a woken reader sees it. *)
LEMMA Stops ==
  ASSUME InputTypeOK, StopInv, [Next]_vars
  PROVE  StopInv'
<1> USE Steps DEF InputTypeOK, StopInv, readerVars, taskVars
<1>1. CASE ReaderStep
  BY <1>1 DEF ReaderStep, CheckStop, Poll, Read, SendCheckStop, Try, Unparked
<1>2. CASE StopVisible
  BY <1>2 DEF StopVisible
<1>3. CASE Start \/ Draw
  BY <1>3 DEF Start, Draw
<1>4. CASE Recv
  <2>1. main' \in {"stop", "draw"}
    BY <1>4 DEF Recv, Update
  <2>2. QED
    BY <1>4, <2>1 DEF Recv
<1>5. CASE Shutdown
  BY <1>5 DEF Shutdown, SetStop, Unpark, Join, DropReceiver, Restore, DropTasks
<1>6. ASSUME UNCHANGED <<reader, woken, seen, token, main, stop>> PROVE StopInv'
  BY <1>6
<1>7. QED
  BY <1>1, <1>2, <1>3, <1>4, <1>5, <1>6
     DEF Next, MainStep, Type, TaskReplies, WaiterSends, vars

LEMMA Places ==
  ASSUME InputTypeOK, PlaceInv, [Next]_vars
  PROVE  PlaceInv'
<1> USE Steps DEF InputTypeOK, PlaceInv, readerVars, taskVars
<1>1. CASE ReaderStep
  BY <1>1 DEF ReaderStep, CheckStop, Poll, Read, SendCheckStop, Try, Unparked
<1>2. CASE Start \/ Draw
  BY <1>2 DEF Start, Draw
<1>3. CASE Recv
  <2>1. main = "recv" /\ main' \in {"stop", "draw"}
    BY <1>3 DEF Recv, Update
  <2>2. QED
    BY <1>3, <2>1 DEF Recv
<1>4. CASE Shutdown
  BY <1>4 DEF Shutdown, SetStop, Unpark, Join, DropReceiver, Restore, DropTasks
<1>5. ASSUME UNCHANGED <<reader, main, terminal>> PROVE PlaceInv'
  BY <1>5
<1>6. QED
  BY <1>1, <1>2, <1>3, <1>4, <1>5
     DEF Next, MainStep, Type, StopVisible, TaskReplies, WaiterSends, vars

(* Nothing is lost, doubled or overtaken on the way from the terminal to   *)
(* update: each step moves at most one event one place further.            *)
LEMMA Moves ==
  ASSUME InputTypeOK, HeldInv, StopInv, OrderInv, NoEventLost, [Next]_vars
  PROVE  OrderInv' /\ NoEventLost'
<1> DEFINE Taken == {i \in 1..nread : IsMessage(i)}
           AllOrdered == /\ Ordered(channel)
                         /\ \A h \in handled, q \in Events(channel) : h < q
                         /\ \A h \in handled \cup Events(channel), e \in InHand : h < e
<1>1. OrderInv <=> handled \cup Events(channel) \subseteq 1..nread /\ AllOrdered
  BY Order DEF OrderInv
<1>2. OrderInv' <=> (handled \cup Events(channel) \subseteq 1..nread /\ AllOrdered)'
  BY DEF OrderInv, EventsInOrder, Ordered, Queued, Events
<1>3. NoEventLost <=> (~stop => Taken = handled \cup Events(channel) \cup InHand)
  BY QueuedEvents DEF NoEventLost
<1>4. NoEventLost' <=> (~stop => Taken = handled \cup Events(channel) \cup InHand)'
  BY DEF NoEventLost, Queued, Events
<1>5. /\ channel \in Seq(Message) /\ nread \in Nat /\ held \in Nat
      /\ handled \cup Events(channel) \subseteq 1..nread
  BY <1>1 DEF InputTypeOK
<1> HIDE DEF Taken, AllOrdered
<1>6. stop => stop'
  BY Steps DEF Next, Type, ReaderStep, CheckStop, Poll, Read, SendCheckStop, Try, Unparked,
       StopVisible, TaskReplies, WaiterSends, MainStep, Start, Draw, Recv, Shutdown, SetStop,
       Unpark, Join, DropReceiver, Restore, DropTasks, vars
<1>7. ASSUME UNCHANGED <<typed, nread, held, channel, handled>>
      PROVE  OrderInv' /\ NoEventLost'
  <2>1. UNCHANGED <<Taken, AllOrdered, InHand>>
    BY <1>7 DEF Taken, AllOrdered, IsMessage, InHand, Ordered, Events
  <2>2. QED
    BY <1>1, <1>2, <1>3, <1>4, <1>6, <1>7, <2>1
<1>8. CASE Type
  <2>1. /\ UNCHANGED <<nread, held, channel, handled, stop>>
        /\ \A i \in 1..nread : typed'[i] = typed[i]
    BY <1>8 DEF Type, readerVars, InputTypeOK
  <2>2. UNCHANGED <<Taken, AllOrdered, InHand>>
    BY <2>1 DEF Taken, AllOrdered, IsMessage, InHand, Ordered, Events
  <2>3. QED
    BY <1>1, <1>2, <1>3, <1>4, <2>1, <2>2
<1>9. CASE Read
  <2>1. UNCHANGED <<typed, channel, handled, stop>>
    BY <1>9 DEF Read
  <2>2. CASE UNCHANGED <<nread, held>>
    BY <1>7, <2>1, <2>2
  <2>3. ASSUME nread' = nread + 1,
               IF IsMessage(nread') THEN held' = nread' ELSE UNCHANGED held
        PROVE  OrderInv' /\ NoEventLost'
    <3>1. InHand = {}
      BY <1>9 DEF Read, HeldInv, InHand
    <3>2. InHand' = IF IsMessage(nread + 1) THEN {nread + 1} ELSE {}
      <4>1. held = 0 /\ nread' # 0 /\ nread' = nread + 1
        BY <1>5, <1>9, <2>3 DEF Read, HeldInv
      <4>2. QED
        BY <2>3, <4>1 DEF InHand
    <3>3. Taken' = Taken \cup InHand'
      BY <1>5, <2>1, <2>3, <3>2 DEF Taken, IsMessage
    <3>4. \A h \in handled \cup Events(channel) : h < nread + 1 /\ h \in 1..(nread + 1)
      BY <1>5
    <3>5. AllOrdered'
      BY <1>1, <2>1, <3>2, <3>4 DEF AllOrdered
    <3>6. QED
      BY <1>2, <1>3, <1>4, <2>1, <2>3, <3>1, <3>3, <3>4, <3>5
  <2>4. QED
    BY <1>9, <2>2, <2>3 DEF Read
<1>10. CASE SendCheckStop
  <2>1. UNCHANGED <<typed, nread, channel, handled, stop>>
    BY <1>10 DEF SendCheckStop
  <2>2. CASE seen
    <3>1. stop' /\ InHand' = {}
      BY <1>10, <2>1, <2>2 DEF SendCheckStop, StopInv, InHand
    <3>2. AllOrdered'
      BY <1>1, <2>1, <3>1 DEF AllOrdered
    <3>3. QED
      BY <1>1, <1>2, <1>4, <2>1, <3>1, <3>2
  <2>3. CASE ~seen
    BY <1>7, <1>10, <2>1, <2>3 DEF SendCheckStop
  <2>4. QED
    BY <2>2, <2>3
<1>11. CASE Try
  <2>1. UNCHANGED <<typed, nread, handled, stop>>
    BY <1>11 DEF Try
  <2>2. CASE Room
    <3>1. channel' = Append(channel, Event(held)) /\ InHand' = {}
      BY <1>11, <2>2 DEF Try, InHand
    <3>2. InHand = {held} /\ held \in 1..nread /\ held \in 1..MaxTyped
      BY <1>11, MaxTypedAssumption DEF Try, HeldInv, InHand, InputTypeOK
    <3>3. /\ Event(held) \in Message /\ Event(held).kind = "event" /\ Event(held).at = held
      BY <3>2, Messages
    <3>4. \A h \in handled \cup Events(channel) : h < held
      BY <1>1, <3>2 DEF AllOrdered
    <3>5. Events(channel') = Events(channel) \cup {held} /\ Ordered(channel')
      BY <1>1, <1>5, <3>1, <3>3, <3>4, Appended DEF AllOrdered
    <3>6. AllOrdered'
      BY <1>1, <2>1, <3>1, <3>4, <3>5 DEF AllOrdered
    <3>7. Taken' = Taken
      BY <2>1 DEF Taken, IsMessage
    <3>8. QED
      BY <1>2, <1>3, <1>4, <1>5, <2>1, <3>1, <3>2, <3>5, <3>6, <3>7
  <2>3. CASE ~Room
    BY <1>7, <1>11, <2>1, <2>3 DEF Try
  <2>4. QED
    BY <2>2, <2>3
<1>12. ASSUME UNCHANGED <<typed, nread, held, handled, stop>>,
              NEW r \in Reply, channel' = Append(channel, [kind |-> r])
       PROVE  OrderInv' /\ NoEventLost'
  <2>1. Events(channel') = Events(channel) /\ (Ordered(channel) => Ordered(channel'))
    BY <1>5, <1>12, Messages, Appended
  <2>2. UNCHANGED <<Taken, InHand>> /\ (AllOrdered => AllOrdered')
    BY <1>12, <2>1 DEF Taken, AllOrdered, IsMessage, InHand
  <2>3. QED
    BY <1>1, <1>2, <1>3, <1>4, <1>12, <2>1, <2>2
<1>13. ASSUME NEW r \in Reply, TaskReplies(r) PROVE OrderInv' /\ NoEventLost'
  BY <1>7, <1>12, <1>13 DEF TaskReplies, readerVars
<1>14. CASE WaiterSends
  <2>1. Head(waiting) \in Reply
    BY <1>14 DEF WaiterSends, InputTypeOK
  <2>2. QED
    BY <1>12, <1>14, <2>1 DEF WaiterSends, readerVars
<1>15. CASE Recv
  <2>1. /\ UNCHANGED <<typed, nread, held, stop>> /\ channel # <<>> /\ channel' = Tail(channel)
        /\ handled' = handled \cup
             (IF Head(channel).kind = "event" THEN {Head(channel).at} ELSE {})
    BY <1>15 DEF Recv, readerVars
  <2>2. /\ Events(channel) = Events(channel')
             \cup (IF Head(channel).kind = "event" THEN {Head(channel).at} ELSE {})
        /\ Ordered(channel) => Ordered(channel')
        /\ Ordered(channel) /\ Head(channel).kind = "event"
             => \A q \in Events(channel') : Head(channel).at < q
    BY <1>5, <2>1, Received
  <2>3. UNCHANGED <<Taken, InHand>>
    BY <2>1 DEF Taken, IsMessage, InHand
  <2>4. handled' \cup Events(channel') = handled \cup Events(channel)
    BY <2>1, <2>2
  <2>5. AllOrdered'
    BY <1>1, <2>1, <2>2, <2>3, <2>4 DEF AllOrdered
  <2>6. QED
    BY <1>1, <1>2, <1>3, <1>4, <2>1, <2>3, <2>4, <2>5
<1>16. CASE DropReceiver
  <2>1. UNCHANGED <<typed, nread, held, handled, stop>> /\ channel' = <<>> /\ stop
    BY <1>16, Steps DEF DropReceiver, StopInv, readerVars
  <2>2. Events(channel') = {} /\ Ordered(channel')
    BY <2>1 DEF Events, Ordered
  <2>3. InHand' = InHand
    BY <2>1 DEF InHand
  <2>4. AllOrdered'
    BY <1>1, <2>1, <2>2, <2>3 DEF AllOrdered
  <2>5. QED
    BY <1>1, <1>2, <1>4, <2>1, <2>2, <2>4
<1>17. CASE CheckStop \/ Poll \/ Unparked \/ StopVisible \/ Start \/ Draw \/ UNCHANGED vars
  BY <1>7, <1>17 DEF CheckStop, Poll, Unparked, StopVisible, Start, Draw, readerVars, vars
<1>18. CASE SetStop \/ Unpark \/ Join \/ Restore \/ DropTasks
  BY <1>7, <1>18 DEF SetStop, Unpark, Join, Restore, DropTasks, readerVars
<1>19. QED
  BY <1>8, <1>9, <1>10, <1>11, <1>13, <1>14, <1>15, <1>16, <1>17, <1>18
     DEF Next, ReaderStep, MainStep, Shutdown

----------------------------------------------------------------------------
LEMMA InputInit == Init => InputInv
<1> SUFFICES ASSUME Init PROVE InputInv
  OBVIOUS
<1>1. Queued = {} /\ InHand = {} /\ Events(channel) = {} /\ {i \in 1..nread : IsMessage(i)} = {}
  BY DEF Init, Queued, InHand, Events
<1>2. OrderInv /\ NoEventLost
  BY <1>1 DEF Init, OrderInv, EventsInOrder, NoEventLost
<1>3. InputTypeOK
  <2>1. /\ typed = <<>> /\ channel = <<>> /\ waiting = <<>> /\ handled = {}
        /\ calls = [r \in Reply |-> 0] /\ nread = 0 /\ held = 0
    BY DEF Init
  <2>2. typed \in Seq({"press", "resize", "release"}) /\ waiting \in Seq(Reply)
    BY <2>1
  <2>3. channel \in Seq(Message) /\ Len(channel) <= Capacity
    BY <2>1, CapacityAssumption
  <2>4. QED
    <3>1. /\ nread \in 0..Len(typed) /\ held \in 0..Len(typed)
          /\ calls \in [Reply -> Nat] /\ handled \subseteq 1..Len(typed)
      BY <2>1
    <3>2. /\ seen \in BOOLEAN /\ token \in BOOLEAN /\ woken \in BOOLEAN /\ stop \in BOOLEAN
          /\ reader = "none" /\ main = "new" /\ terminal = "shell"
      BY DEF Init
    <3>3. QED
      BY <2>2, <2>3, <3>1, <3>2 DEF InputTypeOK, Phases
<1>4. HeldInv
  BY MaxTypedAssumption DEF Init, HeldInv
<1>5. StopInv /\ PlaceInv
  BY DEF Init, StopInv, PlaceInv
<1>6. QED
  BY <1>2, <1>3, <1>4, <1>5 DEF InputInv

LEMMA InputInvariant == Spec => []InputInv
<1>1. InputInv /\ [Next]_vars => InputInv'
  BY Types, Held, Stops, Places, Moves DEF InputInv
<1>2. QED
  BY <1>1, InputInit, PTL DEF Spec

(* Whatever the capacity of the channel and however many keys are typed:   *)
(* no key is lost or overtaken while Hormos runs, and the terminal is not  *)
(* given back under a thread that reads it.                                *)
THEOREM InputSafe ==
  Spec => [](InputTypeOK /\ EventsInOrder /\ NoEventLost /\ TerminalHeldWhileReading)
<1>1. InputInv => InputTypeOK /\ EventsInOrder /\ NoEventLost /\ TerminalHeldWhileReading
  BY DEF InputInv, OrderInv, PlaceInv, TerminalHeldWhileReading
<1>2. QED
  BY <1>1, InputInvariant, PTL

(* The types; the channel never exceeds its capacity (lib.rs:37-42,        *)
(* event.rs:5-7).                                                          *)
COROLLARY InputTypes == Spec => []InputTypeOK
BY InputSafe, PTL

(* Keys are queued and handled in the order they were typed, none twice. *)
COROLLARY KeysInOrder == Spec => []EventsInOrder
BY InputSafe, PTL

(* However the interface ends, the terminal is given back after the thread *)
(* that reads it has ended (event.rs:23-24, lib.rs:54-55).                 *)
COROLLARY TerminalGivenBackLast == Spec => []TerminalHeldWhileReading
BY InputSafe, PTL

(* The reader that drop has woken never sleeps again on the full channel.  *)
THEOREM WokenStaysAwake == Spec => NeverParksAgain
<1>1. ASSUME InputInv, [Next]_vars PROVE [reader' = "parked" => reader = "parked" \/ ~woken]_vars
  <2>1. CASE ReaderStep
    BY <1>1, <2>1 DEF InputInv, StopInv, ReaderStep, CheckStop, Poll, Read, SendCheckStop, Try,
                      Unparked
  <2>2. CASE Start
    BY <2>2 DEF Start
  <2>3. CASE UNCHANGED reader
    BY <2>3
  <2>4. CASE UNCHANGED vars
    BY <2>4
  <2>5. QED
    BY <1>1, <2>1, <2>2, <2>3, <2>4
       DEF Next, MainStep, Type, StopVisible, TaskReplies, WaiterSends, Draw, Recv, Shutdown,
           SetStop, Unpark, Join, DropReceiver, Restore, DropTasks, readerVars
<1>2. QED
  BY <1>1, InputInvariant, PTL DEF Spec, NeverParksAgain

----------------------------------------------------------------------------
(* A set put in ascending order: a new greatest member comes last, and the *)
(* others follow when the least one is taken away.                         *)
LEMMA SubsetsOfRange ==
  ASSUME NEW n \in Nat, NEW S \in SUBSET (1..n)
  PROVE  IsFiniteSet(S) /\ Cardinality(S) \in Nat /\ \A i \in S : i \in Nat
<1>1. IsFiniteSet(1..n)
  BY FS_Interval
<1>2. IsFiniteSet(S)
  BY <1>1, FS_Subset
<1>3. Cardinality(S) \in Nat
  BY <1>2, FS_CardinalityType
<1>4. \A i \in 1..n : i \in Nat
  OBVIOUS
<1>5. QED
  BY <1>2, <1>3, <1>4

LEMMA AscendingAppend ==
  ASSUME NEW n \in Nat, NEW S \in SUBSET (1..n)
  PROVE  /\ Len(Ascending(S \cup {n + 1})) = Len(Ascending(S)) + 1
         /\ \A k \in 1..Len(Ascending(S)) :
              Ascending(S \cup {n + 1})[k] = Ascending(S)[k]
<1> DEFINE T == S \cup {n + 1}
           c == Cardinality(S)
<1>1. IsFiniteSet(S) /\ c \in Nat /\ \A i \in S : i \in Nat /\ i < n + 1
  <2>1. \A i \in 1..n : i < n + 1
    OBVIOUS
  <2>2. QED
    BY <2>1, SubsetsOfRange
<1>2. Cardinality(T) = c + 1
  <2>1. n + 1 \notin S
    BY <1>1
  <2>2. QED
    BY <1>1, <2>1, FS_AddElement
<1>3. /\ Ascending(S) = [k \in 1..c |-> CHOOSE i \in Ranked(S, k) : TRUE]
      /\ Ascending(T) = [k \in 1..(c + 1) |-> CHOOSE i \in Ranked(T, k) : TRUE]
  BY <1>2 DEF Ascending
<1>4. ASSUME NEW k \in 1..c PROVE Ranked(T, k) = Ranked(S, k)
  <2>1. {j \in T : j < n + 1} = S
    <3>1. ~(n + 1 < n + 1)
      OBVIOUS
    <3>2. QED
      BY <1>1, <3>1
  <2>2. n + 1 \notin Ranked(T, k)
    BY <1>1, <2>1 DEF Ranked
  <2>3. \A i \in S : {j \in T : j < i} = {j \in S : j < i}
    BY <1>1
  <2>4. QED
    BY <2>2, <2>3 DEF Ranked
<1>5. Len(Ascending(S)) = c /\ Len(Ascending(T)) = c + 1
  BY <1>1, <1>3
<1>6. ASSUME NEW k \in 1..c PROVE Ascending(T)[k] = Ascending(S)[k]
  <2>1. k \in 1..(c + 1)
    BY <1>1
  <2>2. QED
    BY <1>3, <1>4, <2>1
<1>7. QED
  BY <1>5, <1>6

LEMMA TailOfFunction ==
  ASSUME NEW c \in Nat, NEW a, DOMAIN a = 1..(c + 1), a = [k \in 1..(c + 1) |-> a[k]]
  PROVE  Len(a) = c + 1 /\ a # <<>> /\ Tail(a) = [k \in 1..c |-> a[k + 1]]
<1> DEFINE V == {a[k] : k \in 1..(c + 1)}
<1>1. a \in [1..(c + 1) -> V]
  OBVIOUS
<1> HIDE DEF V
<1>2. c + 1 \in Nat
  OBVIOUS
<1>3. a \in Seq(V) /\ Len(a) = c + 1
  BY <1>1, <1>2
<1>4. QED
  BY <1>3

LEMMA AscendingTail ==
  ASSUME NEW n \in Nat, NEW S \in SUBSET (1..n), NEW least \in S,
         \A i \in S \ {least} : least < i
  PROVE  /\ Ascending(S) # <<>>
         /\ Ascending(S \ {least}) = Tail(Ascending(S))
<1> DEFINE T == S \ {least}
           c == Cardinality(T)
<1>1. IsFiniteSet(S) /\ Cardinality(S) \in Nat /\ \A i \in S : i \in Nat
  BY SubsetsOfRange
<1>2. IsFiniteSet(T) /\ c \in Nat /\ Cardinality(S) = c + 1
  <2>1. IsFiniteSet(T) /\ c = Cardinality(S) - 1
    BY <1>1, FS_RemoveElement
  <2>2. c \in Nat
    BY <2>1, FS_CardinalityType
  <2>3. QED
    BY <1>1, <2>1, <2>2
<1>3. /\ Ascending(T) = [k \in 1..c |-> CHOOSE i \in Ranked(T, k) : TRUE]
      /\ Ascending(S) = [k \in 1..(c + 1) |-> CHOOSE i \in Ranked(S, k) : TRUE]
  BY <1>2 DEF Ascending
<1>4. ASSUME NEW k \in 1..c PROVE Ranked(T, k) = Ranked(S, k + 1)
  <2>1. least \notin Ranked(S, k + 1)
    <3>1. \A j \in S : ~(j < least)
      BY <1>1
    <3>2. {j \in S : j < least} = {}
      BY <3>1
    <3>3. (k + 1) - 1 # 0
      OBVIOUS
    <3>4. QED
      BY <3>2, <3>3, FS_EmptySet DEF Ranked
  <2>2. ASSUME NEW i \in T
        PROVE  /\ Cardinality({j \in T : j < i}) \in Nat
               /\ Cardinality({j \in S : j < i}) = Cardinality({j \in T : j < i}) + 1
    <3>1. {j \in S : j < i} = {j \in T : j < i} \cup {least}
      BY <1>1, <2>2
    <3>2. IsFiniteSet({j \in T : j < i}) /\ least \notin {j \in T : j < i}
      BY <1>2, FS_Subset
    <3>3. QED
      BY <3>1, <3>2, FS_AddElement, FS_CardinalityType
  <2>3. ASSUME NEW i \in T PROVE i \in Ranked(T, k) <=> i \in Ranked(S, k + 1)
    BY <2>2 DEF Ranked
  <2>4. Ranked(T, k) \subseteq T /\ Ranked(S, k + 1) \subseteq T
    BY <2>1 DEF Ranked
  <2>5. QED
    BY <2>3, <2>4
<1>5. /\ Len(Ascending(S)) = c + 1 /\ Ascending(S) # <<>>
      /\ Tail(Ascending(S)) = [k \in 1..c |-> Ascending(S)[k + 1]]
  <2> DEFINE a == Ascending(S)
  <2>1. DOMAIN a = 1..(c + 1) /\ a = [k \in 1..(c + 1) |-> a[k]]
    BY <1>3
  <2> HIDE DEF a
  <2>2. Len(a) = c + 1 /\ a # <<>> /\ Tail(a) = [k \in 1..c |-> a[k + 1]]
    BY <1>2, <2>1, TailOfFunction
  <2>3. QED
    BY <2>2 DEF a
<1>6. ASSUME NEW k \in 1..c PROVE Ascending(T)[k] = Ascending(S)[k + 1]
  <2>1. k + 1 \in 1..(c + 1)
    BY <1>2
  <2>2. QED
    BY <1>3, <1>4, <2>1
<1>7. QED
  BY <1>3, <1>5, <1>6

----------------------------------------------------------------------------
(* While the loop runs nobody has stopped it, and no event is dropped. *)
RunningInv == Running => ~stop

LEMMA Runs ==
  ASSUME RunningInv, [Next]_vars
  PROVE  RunningInv' /\ (Running' => Running)
<1> USE Steps DEF RunningInv, Running
<1>1. CASE Start \/ Draw
  BY <1>1 DEF Start, Draw
<1>2. CASE Recv
  BY <1>2 DEF Recv
<1>3. CASE Shutdown
  BY <1>3 DEF Shutdown, SetStop, Unpark, Join, DropReceiver, Restore, DropTasks
<1>4. ASSUME UNCHANGED <<main, stop>> PROVE RunningInv' /\ (Running' => Running)
  BY <1>4
<1>5. QED
  BY <1>1, <1>2, <1>3, <1>4
     DEF Next, MainStep, ReaderStep, CheckStop, Poll, Read, SendCheckStop, Try, Unparked,
         Type, StopVisible, TaskReplies, WaiterSends, vars

QueueStep == [Queue!Next]_(Queue!vars)

(* What waits to be handled is queued or in hand, after all that was. *)
LEMMA PendingEvents ==
  ASSUME InputInv
  PROVE  /\ nread \in Nat /\ Pending \subseteq 1..nread
         /\ ~stop => Pending = Events(channel) \cup InHand
<1>1. nread \in Nat
  BY DEF InputInv, InputTypeOK
<1>2. ASSUME ~stop PROVE Pending = Events(channel) \cup InHand
  <2>1. {i \in 1..nread : IsMessage(i)} = handled \cup Events(channel) \cup InHand
    BY <1>2, QueuedEvents DEF InputInv, NoEventLost
  <2>2. \A h \in handled, e \in Events(channel) \cup InHand : h < e
    BY Order DEF InputInv, OrderInv
  <2>3. \A h \in handled : h \in Nat
    BY DEF InputInv, InputTypeOK
  <2>4. \A h \in handled : h \notin Events(channel) \cup InHand
    BY <2>2, <2>3
  <2>5. QED
    BY <2>1, <2>4 DEF Pending
<1>3. QED
  BY <1>1, <1>2 DEF Pending

(* Taking an event is Take, or nothing when it is not a message. *)
LEMMA ReadQueue ==
  ASSUME InputInv, Read
  PROVE  QueueStep
<1>1. /\ nread \in Nat /\ Pending \subseteq 1..nread
      /\ Running' = Running /\ UNCHANGED <<typed, handled>>
  BY PendingEvents DEF Read, Running
<1>2. CASE UNCHANGED nread
  <2>1. Pending' = Pending
    BY <1>1, <1>2 DEF Pending, IsMessage
  <2>2. QED
    BY <1>1, <2>1 DEF QueueStep, Queue!vars
<1>3. CASE nread' = nread + 1 /\ IsMessage(nread + 1)
  <2>1. nread + 1 \notin handled
    BY <1>1 DEF InputInv, OrderInv
  <2>2. Pending' = Pending \cup {nread + 1}
    BY <1>1, <1>3, <2>1 DEF Pending, IsMessage
  <2>3. Queue!Take
    BY <1>1, <2>2, AscendingAppend DEF Queue!Take
  <2>4. QED
    BY <2>3 DEF QueueStep, Queue!Next
<1>4. CASE nread' = nread + 1 /\ ~IsMessage(nread + 1)
  <2>1. Pending' = Pending
    BY <1>1, <1>4 DEF Pending, IsMessage
  <2>2. QED
    BY <1>1, <2>1 DEF QueueStep, Queue!vars
<1>5. QED
  BY <1>2, <1>3, <1>4 DEF Read

(* What update is given is the least of what waits. *)
LEMMA RecvQueue ==
  ASSUME InputInv, RunningInv, Recv
  PROVE  QueueStep
<1>1. /\ nread \in Nat /\ Pending \subseteq 1..nread
      /\ Pending = Events(channel) \cup InHand
      /\ Running
  BY PendingEvents DEF Recv, Running, RunningInv
<1>2. UNCHANGED <<typed, nread>> /\ channel # <<>> /\ channel \in Seq(Message)
  BY DEF Recv, readerVars, InputInv, InputTypeOK
<1>3. CASE Head(channel).kind = "event"
  <2> DEFINE least == Head(channel).at
  <2>1. least \in Events(channel) /\ \A q \in Events(channel) \ {least} : least < q
    BY <1>2, <1>3, Received, Order DEF InputInv, OrderInv
  <2>2. \A e \in InHand : least < e
    BY <2>1, Order DEF InputInv, OrderInv
  <2>3. least \in Pending /\ \A i \in Pending \ {least} : least < i
    BY <1>1, <2>1, <2>2
  <2>4. Pending' = Pending \ {least}
    BY <1>2, <1>3 DEF Recv, Pending, IsMessage
  <2>5. Ascending(Pending) # <<>> /\ Ascending(Pending)' = Tail(Ascending(Pending))
    <3>1. Ascending(Pending') = Tail(Ascending(Pending)) /\ Ascending(Pending) # <<>>
      BY <1>1, <2>3, <2>4, AscendingTail
    <3>2. QED
      BY <3>1
  <2>6. Running' \in BOOLEAN
    BY DEF Running
  <2>7. QED
    BY <1>1, <2>5, <2>6 DEF QueueStep, Queue!Next, Queue!Handle
<1>4. CASE Head(channel).kind # "event"
  <2>1. Pending' = Pending
    BY <1>2, <1>4 DEF Recv, Pending, IsMessage
  <2>2. Running'
    BY <1>4 DEF Recv, Update, Running
  <2>3. QED
    BY <1>1, <2>1, <2>2 DEF QueueStep, Queue!vars, Running
<1>5. QED
  BY <1>3, <1>4

(* Everything else leaves what waits alone, and may end the loop. *)
LEMMA OtherQueue ==
  ASSUME InputInv, UNCHANGED <<nread, handled>>,
         \A i \in 1..nread : typed'[i] = typed[i], Running' => Running
  PROVE  QueueStep
<1>1. Pending' = Pending
  BY DEF Pending, IsMessage
<1>2. Running = TRUE \/ Running = FALSE
  BY DEF Running
<1>3. Running' = TRUE \/ Running' = FALSE
  BY DEF Running
<1>4. CASE Running' = Running
  BY <1>1, <1>4 DEF QueueStep, Queue!vars
<1>5. CASE Running /\ Running' = FALSE
  BY <1>1, <1>5 DEF QueueStep, Queue!Next, Queue!Close
<1>6. QED
  BY <1>2, <1>3, <1>4, <1>5

LEMMA StepQueue ==
  ASSUME InputInv, RunningInv, [Next]_vars
  PROVE  QueueStep
<1>1. Running' => Running
  BY Runs
<1>2. CASE Type
  <2>1. \A i \in 1..nread : typed'[i] = typed[i]
    BY <1>2 DEF Type, InputInv, InputTypeOK
  <2>2. QED
    BY <1>1, <1>2, <2>1, OtherQueue DEF Type, readerVars
<1>3. ASSUME UNCHANGED <<typed, nread, handled>> PROVE QueueStep
  BY <1>1, <1>3, OtherQueue
<1>4. CASE CheckStop \/ Poll \/ SendCheckStop \/ Try \/ Unparked \/ StopVisible
  BY <1>3, <1>4 DEF CheckStop, Poll, SendCheckStop, Try, Unparked, StopVisible, readerVars
<1>5. CASE WaiterSends \/ (\E r \in Reply : TaskReplies(r)) \/ UNCHANGED vars
  BY <1>3, <1>5 DEF WaiterSends, TaskReplies, vars, readerVars
<1>6. CASE Start \/ Draw \/ Shutdown
  BY <1>3, <1>6 DEF Start, Draw, Shutdown, SetStop, Unpark, Join, DropReceiver, Restore,
                    DropTasks, readerVars
<1>7. QED
  BY <1>2, <1>4, <1>5, <1>6, ReadQueue, RecvQueue DEF Next, ReaderStep, MainStep

(* Whatever the capacity of the channel and however many events are typed: *)
(* reader, tasks, channel and loop handle the events taken from the        *)
(* terminal one by one in the order they were typed, as one queue would    *)
(* (event.rs:3-7, lib.rs:73-100).                                          *)
THEOREM QueueSafety == Spec => Queue!Safety
<1>1. Init => Queue!Init
  <2> SUFFICES ASSUME Init PROVE Queue!Init
    OBVIOUS
  <2>1. Pending = {} /\ Running
    BY DEF Init, Pending, Running
  <2>2. Ascending({}) = <<>>
    BY FS_EmptySet DEF Ascending
  <2>3. QED
    BY <2>1, <2>2 DEF Queue!Init, Running
<1>2. Init => RunningInv
  BY DEF Init, RunningInv
<1>3. RunningInv /\ [Next]_vars => RunningInv'
  BY Runs
<1>4. InputInv /\ RunningInv /\ [Next]_vars => QueueStep
  BY StepQueue
<1>5. QED
  BY <1>1, <1>2, <1>3, <1>4, InputInvariant, PTL DEF Spec, Queue!Safety, QueueStep
=============================================================================
