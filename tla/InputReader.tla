---------------------------- MODULE InputReader ----------------------------
(***************************************************************************)
(* The threads under the terminal interface: the system thread that reads  *)
(* the keyboard (crates/hormos-tui/src/event.rs), the bounded channel it   *)
(* shares with the tokio tasks, the main loop that empties it, and the     *)
(* order in which `run` (lib.rs) releases what it holds when it returns.   *)
(*                                                                         *)
(* tokio runs on one thread (cli main.rs): tasks advance only while the    *)
(* loop waits in recv, and none does once the loop is gone - nor does      *)
(* anything empty the channel while `run` joins the reader.                *)
(*                                                                         *)
(* `stop` is a relaxed atomic: the reader sees the store at some later     *)
(* time (`seen`), at the latest when the unpark token wakes it.            *)
(***************************************************************************)
EXTENDS Naturals, Sequences, FiniteSets

CONSTANTS
  Capacity,  \* CHANNEL_CAPACITY
  MaxTyped   \* bound: the events the terminal produces

ASSUME CapacityAssumption == Capacity \in Nat \ {0}
ASSUME MaxTypedAssumption == MaxTyped \in Nat

VARIABLES
  typed,     \* the events of the terminal, oldest first
  nread,     \* how many of them the reader has taken
  reader,    \* where the reader thread is
  held,      \* the event it is publishing, 0 if none
  seen,      \* the reader's view of `stop`
  token,     \* the unpark token
  woken,     \* history: the reader has consumed the token
  channel,   \* the messages not yet received
  calls,     \* calls[r]: the tasks whose call will reply r
  waiting,   \* replies of the tasks that wait for room, in order
  main,      \* where the main thread is
  stop,      \* the flag of InputReader
  terminal,  \* "raw" while Hormos holds the terminal
  handled    \* history: the events given to App::update

readerVars == <<nread, reader, held, woken>>
taskVars == <<calls, waiting>>
vars == <<typed, readerVars, seen, token, channel, taskVars, main, stop,
          terminal, handled>>

(* "acted" is the reply that makes `update` ask for a refresh. *)
Reply == {"acted", "answer"}
Event(i) == [kind |-> "event", at |-> i]
Message == {Event(i) : i \in 1..MaxTyped} \cup [kind : Reply]

(* A release or a repeat is not a message: only presses and resizes are. *)
IsMessage(i) == typed[i] # "release"

(* Room for try_send: a task already waiting has the next free place. *)
Room == Len(channel) + Len(waiting) < Capacity

(* Faulty variants: the reader is woken before `stop` is set; the terminal *)
(* is declared after the reader, so dropped before it.                     *)
ShutdownUnparkFirst == <<"unpark", "stop", "join", "receiver", "terminal", "tasks", "ended">>
ShutdownTerminalFirst == <<"terminal", "stop", "unpark", "join", "receiver", "tasks", "ended">>

(* What run releases, in order, once the loop is left: InputReader::drop   *)
(* (stop, unpark, join), then the receiver, then the terminal; the runtime *)
(* drops the tasks afterwards.                                             *)
ShutdownOrder == <<"stop", "unpark", "join", "receiver", "terminal", "tasks", "ended">>

Leave == main' = ShutdownOrder[1]
Released(step) ==
  \E i \in 1..(Len(ShutdownOrder) - 1) :
    /\ main = step
    /\ ShutdownOrder[i] = step
    /\ main' = ShutdownOrder[i + 1]

Init ==
  /\ typed = <<>>
  /\ nread = 0
  /\ reader = "none"
  /\ held = 0
  /\ seen = FALSE
  /\ token = FALSE
  /\ woken = FALSE
  /\ channel = <<>>
  /\ calls = [r \in Reply |-> 0]
  /\ waiting = <<>>
  /\ main = "new"
  /\ stop = FALSE
  /\ terminal = "shell"
  /\ handled = {}

(* The terminal produces an event.  It cannot be typed before raw mode. *)
Type ==
  /\ terminal = "raw"
  /\ Len(typed) < MaxTyped
  /\ \E kind \in {"press", "resize", "release"} : typed' = Append(typed, kind)
  /\ UNCHANGED <<readerVars, seen, token, channel, taskVars, main, stop,
                 terminal, handled>>

----------------------------------------------------------------------------
(* read_loop: `while !stop`, poll, read, publish. *)
CheckStop ==
  /\ reader = "check"
  /\ reader' = IF seen THEN "done" ELSE "poll"
  /\ UNCHANGED <<typed, nread, held, seen, token, woken, channel, taskVars,
                 main, stop, terminal, handled>>

(* The poll finds an event, reaches POLL_INTERVAL, or fails. *)
Poll ==
  /\ reader = "poll"
  /\ \/ reader' = IF nread < Len(typed) THEN "read" ELSE "check"
     \/ reader' = "done"
  /\ UNCHANGED <<typed, nread, held, seen, token, woken, channel, taskVars,
                 main, stop, terminal, handled>>

Read ==
  /\ reader = "read"
  /\ \/ /\ nread' = nread + 1
        /\ IF IsMessage(nread')
             THEN reader' = "send" /\ held' = nread'
             ELSE reader' = "check" /\ UNCHANGED held
     \/ reader' = "done" /\ UNCHANGED <<nread, held>>
  /\ UNCHANGED <<typed, seen, token, woken, channel, taskVars, main, stop,
                 terminal, handled>>

(* Faulty variant: a send that blocks without looking at `stop`. *)
SendBlocks ==
  /\ reader = "send"
  /\ reader' = "try"
  /\ UNCHANGED <<typed, nread, held, seen, token, woken, channel, taskVars,
                 main, stop, terminal, handled>>

(* send_cancellable: `stop` is looked at before every attempt. *)
SendCheckStop ==
  /\ reader = "send"
  /\ reader' = IF seen THEN "done" ELSE "try"
  /\ held' = IF seen THEN 0 ELSE held
  /\ UNCHANGED <<typed, nread, seen, token, woken, channel, taskVars, main,
                 stop, terminal, handled>>

(* Faulty variants: the channel has no bound; a full channel loses the     *)
(* message; a sent message is not taken off the retry loop.                *)
TryUnbounded ==
  /\ reader = "try"
  /\ channel' = Append(channel, Event(held))
  /\ reader' = "check"
  /\ held' = 0
  /\ UNCHANGED <<typed, nread, seen, token, woken, taskVars, main, stop,
                 terminal, handled>>

TryLosing ==
  /\ reader = "try"
  /\ channel' = IF Room THEN Append(channel, Event(held)) ELSE channel
  /\ reader' = "check"
  /\ held' = 0
  /\ UNCHANGED <<typed, nread, seen, token, woken, taskVars, main, stop,
                 terminal, handled>>

TryTwice ==
  /\ reader = "try"
  /\ IF Room
       THEN channel' = Append(channel, Event(held)) /\ reader' = "send"
       ELSE reader' = "parked" /\ UNCHANGED channel
  /\ UNCHANGED <<typed, nread, held, seen, token, woken, taskVars, main,
                 stop, terminal, handled>>

(* try_send: closed, full, or sent.  The receiver closes only after the    *)
(* join, so the reader never meets a closed channel.                       *)
Try ==
  /\ reader = "try"
  /\ IF Room
       THEN /\ channel' = Append(channel, Event(held))
            /\ reader' = "check"
            /\ held' = 0
       ELSE reader' = "parked" /\ UNCHANGED <<channel, held>>
  /\ UNCHANGED <<typed, nread, seen, token, woken, taskVars, main, stop,
                 terminal, handled>>

(* park_timeout returns on its deadline, or on the token - with everything *)
(* the other thread had stored before it called unpark.                    *)
Unparked ==
  /\ reader = "parked"
  /\ reader' = "send"
  /\ \/ UNCHANGED <<seen, token, woken>>
     \/ token /\ token' = FALSE /\ woken' = TRUE /\ seen' = stop
  /\ UNCHANGED <<typed, nread, held, channel, taskVars, main, stop, terminal,
                 handled>>

(* The relaxed store reaches the reader. *)
StopVisible ==
  /\ stop /\ ~seen
  /\ seen' = TRUE
  /\ UNCHANGED <<typed, readerVars, token, channel, taskVars, main, stop,
                 terminal, handled>>

----------------------------------------------------------------------------
(* A task ends its call and sends its reply, or waits for room to send it. *)
TaskReplies(r) ==
  /\ main = "recv"
  /\ calls[r] > 0
  /\ calls' = [calls EXCEPT ![r] = @ - 1]
  /\ IF Room
       THEN channel' = Append(channel, [kind |-> r]) /\ UNCHANGED waiting
       ELSE waiting' = Append(waiting, r) /\ UNCHANGED channel
  /\ UNCHANGED <<typed, readerVars, seen, token, main, stop, terminal, handled>>

WaiterSends ==
  /\ main = "recv"
  /\ waiting # <<>>
  /\ Len(channel) < Capacity
  /\ channel' = Append(channel, [kind |-> Head(waiting)])
  /\ waiting' = Tail(waiting)
  /\ UNCHANGED <<typed, readerVars, seen, token, calls, main, stop, terminal,
                 handled>>

----------------------------------------------------------------------------
(* run: take the terminal, start the reader, ask for the list, draw. *)
Start ==
  /\ main = "new"
  /\ \/ /\ terminal' = "raw"
        /\ reader' = "check"
        /\ calls' = [calls EXCEPT !["answer"] = 1]
        /\ main' = "draw"
     \/ /\ main' = "ended"  \* try_init failed and has restored the terminal
        /\ UNCHANGED <<terminal, reader, calls>>
  /\ UNCHANGED <<typed, nread, held, seen, token, woken, channel, waiting,
                 stop, handled>>

Draw ==
  /\ main = "draw"
  /\ main' = "recv" \/ Leave
  /\ UNCHANGED <<typed, readerVars, seen, token, channel, taskVars, stop,
                 terminal, handled>>

(* What update may do with a message: quit on a press, dispatch a call on  *)
(* a press, and a refresh after an action.                                 *)
Dispatched(r) == calls' = [calls EXCEPT ![r] = @ + 1]

Update(message) ==
  \/ /\ message.kind = "event" /\ typed[message.at] = "press"
     /\ \/ Leave /\ UNCHANGED calls
        \/ main' = "draw" /\ (UNCHANGED calls \/ \E r \in Reply : Dispatched(r))
  \/ /\ message.kind = "event" /\ typed[message.at] # "press"
     /\ main' = "draw" /\ UNCHANGED calls
  \/ message.kind = "acted" /\ main' = "draw" /\ Dispatched("answer")
  \/ message.kind = "answer" /\ main' = "draw" /\ UNCHANGED calls

(* recv never answers None: run itself keeps a sender. *)
Recv ==
  /\ main = "recv"
  /\ channel # <<>>
  /\ Update(Head(channel))
  /\ channel' = Tail(channel)
  /\ handled' = IF Head(channel).kind = "event"
                  THEN handled \cup {Head(channel).at} ELSE handled
  /\ UNCHANGED <<typed, readerVars, seen, token, waiting, stop, terminal>>

----------------------------------------------------------------------------
SetStop ==
  /\ Released("stop")
  /\ stop' = TRUE
  /\ UNCHANGED <<typed, readerVars, seen, token, channel, taskVars, terminal,
                 handled>>

Unpark ==
  /\ Released("unpark")
  /\ token' = TRUE
  /\ UNCHANGED <<typed, readerVars, seen, channel, taskVars, stop, terminal,
                 handled>>

Join ==
  /\ Released("join")
  /\ reader = "done"
  /\ UNCHANGED <<typed, readerVars, seen, token, channel, taskVars, stop,
                 terminal, handled>>

DropReceiver ==
  /\ Released("receiver")
  /\ channel' = <<>>
  /\ UNCHANGED <<typed, readerVars, seen, token, taskVars, stop, terminal,
                 handled>>

Restore ==
  /\ Released("terminal")
  /\ terminal' = "shell"
  /\ UNCHANGED <<typed, readerVars, seen, token, channel, taskVars, stop,
                 handled>>

DropTasks ==
  /\ Released("tasks")
  /\ calls' = [r \in Reply |-> 0]
  /\ waiting' = <<>>
  /\ UNCHANGED <<typed, readerVars, seen, token, channel, stop, terminal,
                 handled>>

ReaderStep == CheckStop \/ Poll \/ Read \/ SendCheckStop \/ Try \/ Unparked
Shutdown == SetStop \/ Unpark \/ Join \/ DropReceiver \/ Restore \/ DropTasks
MainStep == Start \/ Draw \/ Recv \/ Shutdown

Next ==
  \/ Type
  \/ ReaderStep
  \/ StopVisible
  \/ \E r \in Reply : TaskReplies(r)
  \/ WaiterSends
  \/ MainStep

Spec == Init /\ [][Next]_vars

(* Both threads run, a poll and a park end at their deadlines, every call  *)
(* ends (docker/timeouts.rs), and a relaxed store reaches the other thread *)
(* in finite time.  Nobody has to type.                                    *)
FairSpec ==
  /\ Spec
  /\ WF_vars(ReaderStep) /\ WF_vars(StopVisible) /\ WF_vars(MainStep)
  /\ WF_vars(WaiterSends) /\ \A r \in Reply : WF_vars(TaskReplies(r))

----------------------------------------------------------------------------
Phases == {"new", "draw", "recv", "stop", "unpark", "join", "receiver",
           "terminal", "tasks", "ended"}

(* Every variable keeps its type; the channel never exceeds its capacity. *)
InputTypeOK ==
  /\ typed \in Seq({"press", "resize", "release"})
  /\ nread \in 0..Len(typed)
  /\ reader \in {"none", "check", "poll", "read", "send", "try", "parked", "done"}
  /\ held \in 0..Len(typed)
  /\ seen \in BOOLEAN /\ token \in BOOLEAN /\ woken \in BOOLEAN
  /\ stop \in BOOLEAN
  /\ channel \in Seq(Message) /\ Len(channel) <= Capacity
  /\ calls \in [Reply -> Nat]
  /\ waiting \in Seq(Reply)
  /\ main \in Phases
  /\ terminal \in {"raw", "shell"}
  /\ handled \subseteq 1..Len(typed)

Queued == {channel[i].at : i \in {j \in DOMAIN channel : channel[j].kind = "event"}}
InHand == IF held = 0 THEN {} ELSE {held}

(* Keys are handled in the order they were typed and none twice, whatever  *)
(* replies are mixed with them: what is handled precedes what is queued,   *)
(* in order, which precedes what the reader is publishing.                 *)
EventsInOrder ==
  /\ \A i, j \in DOMAIN channel :
       /\ i < j
       /\ channel[i].kind = "event"
       /\ channel[j].kind = "event"
       => channel[i].at < channel[j].at
  /\ \A h \in handled, q \in Queued : h < q
  /\ \A h \in handled \cup Queued, e \in InHand : h < e

(* A full channel slows the reader and loses nothing (event.rs:3-7): until *)
(* the loop is left, every press and resize taken from the terminal is     *)
(* handled, queued or being published - even if the reader has died.       *)
NoEventLost ==
  ~stop => {i \in 1..nread : IsMessage(i)} = handled \cup Queued \cup InHand

(* The terminal is never given back while a thread still reads it          *)
(* (event.rs:23-24, lib.rs:54-55).                                         *)
TerminalHeldWhileReading == terminal = "shell" => reader \in {"none", "done"}

(* Once woken by drop the reader never goes back to sleep on the full      *)
(* channel: the stop is visible before the wake-up (event.rs:120-121).     *)
NeverParksAgain == [][reader' = "parked" => reader = "parked" \/ ~woken]_vars

(* However the loop is left - with the channel full and nobody to empty it *)
(* - run returns.                                                          *)
Leaving == main \notin {"new", "draw", "recv", "ended"}
ShutdownEnds == Leaving ~> main = "ended"

(* The promise of KeyQueue, read off what was taken and what was handled.  *)
(* Reader, channel, tasks and loop keep it: no event waits for ever behind *)
(* replies, in a full channel or in a reader that sleeps.                  *)
Pending == {i \in 1..nread : IsMessage(i) /\ i \notin handled}

\* The members of S in order: the n-th is the one with n - 1 below it.
Ranked(S, n) == {i \in S : Cardinality({j \in S : j < i}) = n - 1}
Ascending(S) == [n \in 1..Cardinality(S) |-> CHOOSE i \in Ranked(S, n) : TRUE]

Running == main \in {"new", "draw", "recv"}

Queue ==
  INSTANCE KeyQueue WITH pending <- Ascending(Pending), open <- Running
ImplementsKeyQueue == Queue!Spec

(* lib.rs:56-58 lists the end of the channel among the ways out of the     *)
(* loop.  The reader is the only source of keys: were the loop to end with *)
(* it, a reader that dies would end the program.                           *)
ReaderDeathEndsLoop == reader = "done" ~> main = "ended"
=============================================================================
