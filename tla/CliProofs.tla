----------------------------- MODULE CliProofs -----------------------------
(***************************************************************************)
(* The promises of the command line, for every set of environments and     *)
(* commands and every grain of time.  The invariant adds to them what is   *)
(* known at each phase: whether the arguments were accepted, how much time *)
(* the requests before this one took, and that whatever the engine may     *)
(* still do late is one of the verbs the user has asked for.               *)
(***************************************************************************)
EXTENDS Cli, TLAPS

Bad == command.reference = "invalid" \/ (command.name = "tui" /\ ~env.tty)

(* What a phase says of the arguments and of the exit code. *)
PhaseInv ==
  /\ phase \notin {"idle", "validate", "exited"} => ~Bad
  /\ phase \in {"idle", "validate", "resolve"} => contacted = "none"
  /\ phase # "exited" => exit = NoExit
  /\ phase \in {"delegate", "operate", "emit"} => command.name # "tui"
  /\ phase # "idle" /\ command.name \in Verb => command.name \in tried

(* The time spent before the current request, at most. *)
Before ==
  CASE phase = "ping" -> Seconds["negotiate"]
    [] phase \in {"delegate", "operate", "tui"} -> Seconds["negotiate"] + Seconds["ping"]
    [] OTHER -> 0

Budget ==
  Seconds["negotiate"] + Seconds["ping"]
    + IF command.name = "tui" THEN 0 ELSE Seconds[command.name]

TimeInv ==
  /\ \E n \in Nat : elapsed = n * Tick
  /\ Requesting => elapsed <= Seconds[Request]
  /\ phase \notin {"emit", "exited"} => total <= Before + elapsed
  /\ phase \notin {"negotiate", "ping", "operate", "exited"} => elapsed = 0
  /\ total <= Budget

EffectInv ==
  /\ late \subseteq tried
  /\ (phase = "emit" \/ exit = 0) /\ command.name \in Verb
       /\ tried = {command.name} /\ ~meddled => engine = After(command.name)

CliInv ==
  /\ CliTypeOK /\ PhaseInv /\ TimeInv /\ EffectInv
  /\ InvalidOpensNoSocket /\ DesignatedSocketOnly

----------------------------------------------------------------------------
LEMMA Kinds == \A failure \in Failure : Kind(failure) \in ErrorKind
BY DEF Failure, Status, Transport, Bollard, Kind, ErrorKind

LEMMA ExitCodes == \A kind \in ErrorKind : ExitCode(kind) \in 1..8
BY DEF ErrorKind, ExitCode

LEMMA Names == \A c \in Command :
  /\ c.name \in Operation \cup {"tui"}
  /\ c.name \notin {"negotiate", "ping"}
  /\ c.name \in Verb <=> c.name \in {"start", "stop", "restart"}
BY DEF Command, Operation, OnContainer, Verb

LEMMA Deadlines ==
  /\ \A op \in Operation : Seconds[op] \in 5..90
  /\ Seconds["negotiate"] = 5 /\ Seconds["ping"] = 5
  /\ ClientSeconds = 120
BY DEF Operation, OnContainer, Verb, Seconds, ClientSeconds

(* Time that is not at a deadline is at least one step before it. *)
LEMMA OneStep ==
  ASSUME NEW m \in Nat, NEW n \in Nat, m * Tick < n * Tick
  PROVE  m * Tick + Tick <= n * Tick /\ m * Tick + Tick = (m + 1) * Tick
<1>1. Tick \in Nat /\ Tick > 0
  BY TickAssumption
<1>2. m < n
  BY <1>1
<1>3. (m + 1) * Tick <= n * Tick
  BY <1>1, <1>2
<1>4. QED
  BY <1>1, <1>3

(* The resolution gives a socket of the designated engine, or an error.    *)
LEMMA Endpoints ==
  ASSUME NEW e \in Setting, NEW exists
  PROVE  LET endpoint == ResolveOs(e, exists)
         IN \/ /\ endpoint.ok
               /\ endpoint.socket \in Socket
               /\ e.host \in {"unix", "unset", "blank"} /\ e.runtimeDir # "unreadable"
               /\ endpoint.socket = "host" <=> e.host = "unix"
               /\ endpoint.socket = "rootless" => e.runtimeDir = "dir"
            \/ ~endpoint.ok /\ endpoint.kind \in ErrorKind
<1> DEFINE endpoint == ResolveOs(e, exists)
<1>1. e.host \in Host /\ e.runtimeDir \in RuntimeDir
  BY DEF Setting
<1>2. "InvalidInput" \in ErrorKind /\ "UnsupportedRuntime" \in ErrorKind
  BY DEF ErrorKind
<1>3. CASE ~(Readable(e.host) /\ Readable(e.runtimeDir))
  <2>1. endpoint = [ok |-> FALSE, kind |-> "InvalidInput"]
    BY <1>3, Zenon DEF ResolveOs, Refused
  <2>2. QED
    BY <1>2, <2>1
<1>4. CASE Readable(e.host) /\ Readable(e.runtimeDir)
  <2>1. endpoint = Resolve(e, exists)
    BY <1>4, Zenon DEF ResolveOs
  <2>2. CASE ~Blank(e.host)
    <3>1. endpoint = FromDockerHost(e.host)
      BY <2>1, <2>2, Zenon DEF Resolve
    <3>2. CASE e.host = "unix"
      <4>1. endpoint = [ok |-> TRUE, socket |-> "host"]
        BY <3>1, <3>2 DEF FromDockerHost, Path
      <4>2. QED
        BY <1>4, <3>2, <4>1 DEF Socket, Readable
    <3>3. CASE e.host \in {"unixNoPath", "unixNul"}
      <4>1. endpoint = [ok |-> FALSE, kind |-> "InvalidInput"]
        BY <3>1, <3>3 DEF FromDockerHost, Refused
      <4>2. QED
        BY <1>2, <4>1
    <3>4. CASE e.host = "remote"
      <4>1. endpoint = [ok |-> FALSE, kind |-> "UnsupportedRuntime"]
        BY <3>1, <3>4 DEF FromDockerHost, Refused
      <4>2. QED
        BY <1>2, <4>1
    <3>5. QED
      BY <1>1, <1>4, <2>2, <3>2, <3>3, <3>4 DEF Host, Blank, Readable
  <2>3. CASE Blank(e.host) /\ ~Blank(e.runtimeDir) /\ exists
    <3>1. endpoint = [ok |-> TRUE, socket |-> "rootless"]
      BY <2>1, <2>3, Zenon DEF Resolve, Path
    <3>2. e.runtimeDir = "dir" /\ e.host \in {"unset", "blank"}
      BY <1>1, <1>4, <2>3 DEF Readable, Blank, RuntimeDir
    <3>3. QED
      BY <3>1, <3>2 DEF Socket
  <2>4. CASE Blank(e.host) /\ ~(~Blank(e.runtimeDir) /\ exists)
    <3>1. endpoint = [ok |-> TRUE, socket |-> "default"]
      BY <2>1, <2>4, Zenon DEF Resolve, Path
    <3>2. QED
      BY <1>4, <2>4, <3>1 DEF Socket, Readable, Blank
  <2>5. QED
    BY <2>2, <2>3, <2>4
<1>5. QED
  BY <1>3, <1>4

(* A failure ends the invocation with one of the codes 1 to 8, or aborts   *)
(* it.                                                                     *)
Failed == phase' = "exited" /\ exit' \in 1..8 \cup {Aborted}

LEMMA Failing ==
  ASSUME NEW kind \in ErrorKind, Fail(kind)
  PROVE  Failed
<1>1. phase' = "exited" /\ exit' \in {ExitCode(kind), Aborted}
  BY DEF Fail, Exit
<1>2. ExitCode(kind) \in 1..8
  BY ExitCodes
<1>3. QED
  BY <1>1, <1>2 DEF Failed

(* What each action does to the phase and the exit code. *)
LEMMA Ends ==
  /\ Validate => \/ Bad /\ Failed
                 \/ ~Bad /\ phase' = "resolve" /\ UNCHANGED exit
  /\ env \in Setting /\ Connect => \/ phase' = "negotiate" /\ UNCHANGED exit
                                   \/ Failed
  /\ Delegate => \/ phase' = "operate" /\ UNCHANGED exit
                 \/ Failed
  /\ EngineFails => Failed
  /\ Deadline => Failed
  /\ Emit => phase' = "exited" /\ exit' \in {0, Aborted}
<1>1. "InvalidInput" \in ErrorKind /\ "UnsupportedRuntime" \in ErrorKind
      /\ "Timeout" \in ErrorKind
  BY DEF ErrorKind
<1>2. Kind("socketNotFound") \in ErrorKind
  BY Kinds DEF Failure, Bollard
<1>3. Validate => \/ Bad /\ Failed
                  \/ ~Bad /\ phase' = "resolve" /\ UNCHANGED exit
  BY <1>1, Failing DEF Validate, Bad
<1>4. env \in Setting /\ Connect => \/ phase' = "negotiate" /\ UNCHANGED exit
                                    \/ Failed
  BY <1>2, Endpoints, Failing DEF Connect
<1>5. Delegate => \/ phase' = "operate" /\ UNCHANGED exit
                  \/ Failed
  BY <1>1, Failing DEF Delegate
<1>6. EngineFails => Failed
  BY Kinds, Failing DEF EngineFails
<1>7. Deadline => Failed
  BY <1>1, Failing DEF Deadline
<1>8. Emit => phase' = "exited" /\ exit' \in {0, Aborted}
  BY DEF Emit, Exit
<1>9. QED
  BY <1>3, <1>4, <1>5, <1>6, <1>7, <1>8

LEMMA Successes ==
  Succeed =>
    /\ UNCHANGED exit /\ elapsed' = 0
    /\ \/ phase = "negotiate" /\ phase' = "ping"
       \/ phase = "ping" /\ command.name = "tui" /\ phase' = "tui"
       \/ phase = "ping" /\ command.name # "tui" /\ phase' = "delegate"
       \/ phase = "operate" /\ phase' = "emit"
BY DEF Succeed

LEMMA Requests ==
  ASSUME CliTypeOK, PhaseInv, Requesting
  PROVE  /\ phase \in {"negotiate", "ping", "operate"}
         /\ Request = IF phase = "operate" THEN command.name ELSE phase
         /\ Request \in Operation
         /\ Request \in Verb <=> phase = "operate" /\ command.name \in Verb
<1>1. phase \in {"negotiate", "ping", "operate"}
  BY DEF Requesting
<1>2. Request = IF phase = "operate" THEN command.name ELSE phase
  BY <1>1 DEF Request
<1>3. phase = "operate" => command.name \in Operation
  BY Names DEF CliTypeOK, PhaseInv
<1>4. QED
  BY <1>1, <1>2, <1>3 DEF Operation, Verb

LEMMA Types ==
  ASSUME CliTypeOK, PhaseInv, [Next]_vars
  PROVE  CliTypeOK'
<1> USE DEF CliTypeOK
<1>1. CASE Invoke
  BY <1>1, BoundAssumption DEF Invoke, engineVars
<1>2. CASE Validate
  BY <1>2, Ends DEF Failed, Validate, invocationVars, clock, engineVars
<1>3. CASE Connect
  <2>1. contacted' \in Socket \cup {"none"}
    BY <1>3, Endpoints DEF Connect
  <2>2. phase' \in {"negotiate", "exited"} /\ exit' \in 0..8 \cup {Aborted, NoExit}
    BY <1>3, Ends DEF Failed
  <2>3. QED
    BY <1>3, <2>1, <2>2 DEF Connect, invocationVars, clock, engineVars
<1>4. CASE Delegate
  BY <1>4, Ends DEF Failed, Delegate, invocationVars, clock, engineVars
<1>5. CASE Emit
  BY <1>5, Ends DEF Failed, Emit, invocationVars, clock, engineVars
<1>6. CASE EngineServes
  BY <1>6, Successes DEF EngineServes, invocationVars, After
<1>7. CASE EngineFails
  BY <1>7, Ends DEF Failed, EngineFails, Abandoned, invocationVars, clock
<1>8. CASE Deadline
  BY <1>8, Ends DEF Failed, Deadline, Abandoned, invocationVars, clock
<1>9. CASE Pass
  BY <1>9, TickAssumption DEF Pass, invocationVars, engineVars
<1>10. CASE LateEffect
  BY <1>10 DEF LateEffect, invocationVars, clock, After
<1>11. CASE Meddle
  BY <1>11 DEF Meddle, invocationVars, clock
<1>12. CASE RootlessMoves
  BY <1>12 DEF RootlessMoves, invocationVars, clock, engineVars
<1>13. CASE UNCHANGED vars
  BY <1>13 DEF vars, invocationVars, clock, engineVars
<1>14. QED
  BY <1>1, <1>2, <1>3, <1>4, <1>5, <1>6, <1>7, <1>8, <1>9, <1>10, <1>11, <1>12, <1>13
     DEF Next

LEMMA Phased ==
  ASSUME CliTypeOK, PhaseInv, [Next]_vars
  PROVE  PhaseInv'
<1> USE DEF PhaseInv, Bad
<1>1. CASE Invoke
  BY <1>1 DEF Invoke
<1>2. CASE Validate
  BY <1>2, Ends DEF Failed, Validate, invocationVars
<1>3. CASE Connect
  BY <1>3, Ends DEF Failed, Connect, invocationVars, CliTypeOK
<1>4. CASE Delegate
  BY <1>4, Ends DEF Failed, Delegate, invocationVars
<1>5. CASE Emit
  BY <1>5, Ends DEF Failed, Emit, invocationVars
<1>6. CASE EngineServes
  BY <1>6, Successes DEF EngineServes, Requesting, invocationVars
<1>7. CASE EngineFails
  BY <1>7, Ends DEF Failed, EngineFails, Requesting, invocationVars
<1>8. CASE Deadline
  BY <1>8, Ends DEF Failed, Deadline, Requesting, invocationVars
<1>9. CASE Pass
  BY <1>9 DEF Pass, invocationVars
<1>10. CASE LateEffect
  BY <1>10 DEF LateEffect, invocationVars
<1>11. CASE Meddle
  BY <1>11 DEF Meddle, invocationVars
<1>12. CASE RootlessMoves
  BY <1>12 DEF RootlessMoves, invocationVars
<1>13. CASE UNCHANGED vars
  BY <1>13 DEF vars, invocationVars
<1>14. QED
  BY <1>1, <1>2, <1>3, <1>4, <1>5, <1>6, <1>7, <1>8, <1>9, <1>10, <1>11, <1>12, <1>13
     DEF Next

LEMMA Timed ==
  ASSUME CliTypeOK, PhaseInv, TimeInv, [Next]_vars
  PROVE  TimeInv'
<1> USE Deadlines
<1>1. /\ elapsed \in Nat /\ total \in Nat /\ Tick \in Nat \ {0} /\ Budget \in Nat
      /\ command \in Command
      /\ command.name # "tui" => Seconds[command.name] \in 5..90
  BY TickAssumption, Names DEF CliTypeOK, Budget
<1>2. CASE Invoke
  <2>1. command' \in Command
    BY <1>2, BoundAssumption DEF Invoke
  <2>2. Budget' \in Nat
    BY <2>1, Names DEF Budget
  <2>3. elapsed' = 0 * Tick /\ total' = 0 /\ phase' = "validate"
    BY <1>1, <1>2 DEF Invoke
  <2>4. QED
    BY <1>1, <2>2, <2>3 DEF TimeInv, Requesting, Before
<1>3. CASE Validate
  BY <1>1, <1>3, Ends DEF Failed, Validate, TimeInv, Requesting, Before, Budget, invocationVars, clock
<1>4. CASE Connect
  <2>1. elapsed = 0 /\ total = 0 /\ UNCHANGED <<elapsed, total, command>>
    BY <1>1, <1>4 DEF Connect, TimeInv, Before, invocationVars, clock
  <2>2. phase' \in {"negotiate", "exited"}
    BY <1>4, Ends DEF Failed, CliTypeOK
  <2>3. QED
    BY <1>1, <2>1, <2>2 DEF TimeInv, Requesting, Request, Before, Budget
<1>5. CASE Delegate
  <2>1. /\ elapsed = 0 /\ UNCHANGED <<elapsed, total, command>>
        /\ total <= Seconds["negotiate"] + Seconds["ping"]
        /\ phase' \in {"operate", "exited"} /\ command.name # "tui"
    BY <1>5, Ends DEF Failed, Delegate, TimeInv, PhaseInv, Before, invocationVars, clock
  <2>2. QED
    BY <1>1, <2>1 DEF TimeInv, Requesting, Request, Before, Budget
<1>6. CASE Emit
  BY <1>1, <1>6, Ends DEF Failed, Emit, TimeInv, Requesting, Before, Budget, invocationVars, clock
<1>7. CASE EngineServes
  <2>1. /\ elapsed' = 0 * Tick /\ total' = total /\ command' = command
        /\ total <= Before + elapsed /\ elapsed <= Seconds[Request]
        /\ Request = IF phase = "operate" THEN command.name ELSE phase
    BY <1>1, <1>7, Successes, Requests DEF EngineServes, TimeInv, invocationVars, Requesting
  <2>2. CASE phase = "negotiate" /\ phase' = "ping"
    BY <1>1, <2>1, <2>2 DEF TimeInv, Requesting, Request, Before, Budget
  <2>3. CASE phase = "ping" /\ phase' \in {"tui", "delegate"}
    BY <1>1, <2>1, <2>3 DEF TimeInv, Requesting, Request, Before, Budget
  <2>4. CASE phase = "operate" /\ phase' = "emit"
    BY <1>1, <2>1, <2>4 DEF TimeInv, Requesting, Request, Before, Budget
  <2>5. QED
    BY <1>7, <2>2, <2>3, <2>4, Successes DEF EngineServes
<1>8. CASE EngineFails
  BY <1>1, <1>8, Ends DEF Failed, EngineFails, TimeInv, Requesting, Budget, invocationVars, clock
<1>9. CASE Deadline
  BY <1>1, <1>9, Ends DEF Failed, Deadline, TimeInv, Requesting, Budget, invocationVars, clock
<1>10. CASE Pass
  <2>1. /\ phase \in {"negotiate", "ping", "operate"}
        /\ Request = IF phase = "operate" THEN command.name ELSE phase
        /\ Request \in Operation /\ Request' = Request /\ phase' = phase /\ command' = command
        /\ elapsed' = elapsed + Tick /\ total' = total + Tick
        /\ elapsed < Seconds[Request]
    BY <1>10, Requests DEF Pass, Request, invocationVars
  <2>2. PICK m \in Nat : elapsed = m * Tick
    BY DEF TimeInv
  <2>3. PICK n \in 1..Seconds[Request] : Seconds[Request] = n * Tick
    BY <2>1, TickAssumption
  <2>4. elapsed' <= Seconds[Request] /\ elapsed' = (m + 1) * Tick
    BY <2>1, <2>2, <2>3, OneStep
  <2>5. total' <= Before + elapsed' /\ Before' = Before
    BY <1>1, <2>1 DEF TimeInv, Before
  <2>6. total' <= Budget
    <3>1. CASE phase = "negotiate"
      BY <1>1, <2>1, <2>4, <2>5, <3>1 DEF Before, Budget
    <3>2. CASE phase = "ping"
      BY <1>1, <2>1, <2>4, <2>5, <3>2 DEF Before, Budget
    <3>3. CASE phase = "operate"
      BY <1>1, <2>1, <2>4, <2>5, <3>3 DEF Before, Budget, PhaseInv
    <3>4. QED
      BY <2>1, <3>1, <3>2, <3>3
  <2>7. QED
    BY <2>1, <2>4, <2>5, <2>6 DEF TimeInv, Requesting, Budget
<1>11. CASE LateEffect \/ Meddle \/ RootlessMoves \/ UNCHANGED vars
  <2>1. UNCHANGED <<phase, command, elapsed, total>>
    BY <1>11 DEF LateEffect, Meddle, RootlessMoves, vars, invocationVars, clock
  <2>2. QED
    BY <2>1 DEF TimeInv, Requesting, Request, Before, Budget
<1>12. QED
  BY <1>2, <1>3, <1>4, <1>5, <1>6, <1>7, <1>8, <1>9, <1>10, <1>11 DEF Next

LEMMA Effects ==
  ASSUME CliTypeOK, PhaseInv, EffectInv, [Next]_vars
  PROVE  EffectInv'
<1> USE DEF EffectInv
<1>1. CASE Invoke
  BY <1>1 DEF Invoke, NoExit, Aborted, engineVars
<1>2. CASE Validate
  BY <1>2, Ends DEF Failed, Validate, PhaseInv, NoExit, Aborted, invocationVars, engineVars
<1>3. CASE Connect
  BY <1>3, Ends DEF Failed, Connect, PhaseInv, CliTypeOK, NoExit, Aborted, invocationVars, engineVars
<1>4. CASE Delegate
  BY <1>4, Ends DEF Failed, Delegate, PhaseInv, NoExit, Aborted, invocationVars, engineVars
<1>5. CASE Emit
  BY <1>5 DEF Emit, invocationVars, engineVars
<1>6. CASE EngineServes
  <2>1. /\ engine' = IF Request \in Verb THEN After(Request) ELSE engine
        /\ UNCHANGED <<command, late, meddled, tried>> /\ UNCHANGED exit
        /\ exit = NoExit /\ Requesting
    BY <1>6, Successes DEF EngineServes, PhaseInv, Requesting, invocationVars
  <2>2. phase' = "emit" => phase = "operate" /\ Request = command.name
    BY <1>6, <2>1, Successes, Requests DEF EngineServes
  <2>3. QED
    BY <2>1, <2>2 DEF NoExit, Aborted, CliTypeOK
<1>7. CASE EngineFails
  <2>1. late' \subseteq tried
    BY <1>7, Requests DEF EngineFails, Abandoned, PhaseInv
  <2>2. QED
    BY <1>7, <2>1, Ends DEF Failed, EngineFails, Aborted
<1>8. CASE Deadline
  <2>1. late' \subseteq tried
    BY <1>8, Requests DEF Deadline, Abandoned, PhaseInv
  <2>2. QED
    BY <1>8, <2>1, Ends DEF Failed, Deadline, Aborted
<1>9. CASE Pass
  BY <1>9 DEF Pass, invocationVars, engineVars
<1>10. CASE LateEffect
  BY <1>10 DEF LateEffect, invocationVars
<1>11. CASE Meddle
  BY <1>11 DEF Meddle, invocationVars
<1>12. CASE RootlessMoves
  BY <1>12 DEF RootlessMoves, invocationVars, engineVars
<1>13. CASE UNCHANGED vars
  BY <1>13 DEF vars, invocationVars, engineVars
<1>14. QED
  BY <1>1, <1>2, <1>3, <1>4, <1>5, <1>6, <1>7, <1>8, <1>9, <1>10, <1>11, <1>12, <1>13
     DEF Next

LEMMA Sockets ==
  ASSUME CliTypeOK, PhaseInv, InvalidOpensNoSocket, DesignatedSocketOnly, [Next]_vars
  PROVE  InvalidOpensNoSocket' /\ DesignatedSocketOnly'
<1> USE DEF InvalidOpensNoSocket, DesignatedSocketOnly
<1>1. CASE Connect
  <2>1. ~Bad /\ ~Bad' /\ UNCHANGED <<env, command>>
    BY <1>1 DEF Connect, PhaseInv, Bad, invocationVars
  <2>2. CASE contacted' = "none"
    BY <2>2
  <2>3. CASE contacted' # "none"
    <3>1. ResolveOs(env, rootless).ok /\ contacted' = ResolveOs(env, rootless).socket
      BY <1>1, <2>3 DEF Connect, PhaseInv
    <3>2. QED
      BY <2>1, <3>1, Endpoints DEF Bad, CliTypeOK
  <2>4. QED
    BY <2>2, <2>3
<1>2. CASE Invoke
  BY <1>2 DEF Invoke
<1>3. CASE Validate \/ Delegate \/ Emit \/ EngineServes \/ EngineFails \/ Deadline \/ Pass
             \/ LateEffect \/ Meddle \/ RootlessMoves \/ UNCHANGED vars
  <2>1. UNCHANGED <<contacted, env, command>>
    BY <1>3 DEF Validate, Delegate, Emit, EngineServes, EngineFails, Deadline, Pass,
       LateEffect, Meddle, RootlessMoves, vars, invocationVars
  <2>2. QED
    BY <2>1
<1>4. QED
  BY <1>1, <1>2, <1>3 DEF Next

LEMMA Beginning == Init => CliInv
<1> SUFFICES ASSUME Init PROVE CliInv
  OBVIOUS
<1>1. env \in Setting /\ command \in Command
  BY BoundAssumption DEF Init
<1>2. CliTypeOK
  BY <1>1 DEF Init, CliTypeOK
<1>3. PhaseInv /\ EffectInv /\ InvalidOpensNoSocket /\ DesignatedSocketOnly
  BY DEF Init, PhaseInv, EffectInv, InvalidOpensNoSocket, DesignatedSocketOnly, NoExit,
         Aborted
<1>4. Budget \in Nat /\ elapsed = 0 * Tick
  BY <1>1, Names, Deadlines, TickAssumption DEF Budget, Init
<1>5. TimeInv
  BY <1>4, TickAssumption DEF TimeInv, Init, Requesting, Before
<1>6. QED
  BY <1>2, <1>3, <1>5 DEF CliInv

(* Whatever the environment and the commands, and however slow or broken   *)
(* the engine: the socket opened is the designated one and never opened    *)
(* for invalid arguments, an invocation ends within its deadlines, and the *)
(* success of a verb, retried or not, holds (main.rs:75-141,               *)
(* endpoint.rs:57-135, runtime.rs:55-173).                                 *)
THEOREM CliSafe ==
  Spec => [](/\ CliTypeOK /\ InvalidOpensNoSocket /\ DesignatedSocketOnly
             /\ WithinDeadlines /\ SuccessHolds)
<1>1. CliInv /\ [Next]_vars => CliInv'
  BY Types, Phased, Timed, Effects, Sockets DEF CliInv
<1>2. CliInv => /\ CliTypeOK /\ InvalidOpensNoSocket /\ DesignatedSocketOnly
                /\ WithinDeadlines /\ SuccessHolds
  <2> SUFFICES ASSUME CliInv
               PROVE  WithinDeadlines /\ SuccessHolds
    BY DEF CliInv
  <2>1. Requesting => elapsed < ClientSeconds
    BY Requests, Deadlines DEF CliInv, TimeInv, CliTypeOK
  <2>2. WithinDeadlines
    BY <2>1 DEF WithinDeadlines, CliInv, TimeInv, Budget
  <2>3. SuccessHolds
    BY DEF SuccessHolds, CliInv, EffectInv
  <2>4. QED
    BY <2>2, <2>3
<1>3. QED
  BY Beginning, <1>1, <1>2, PTL DEF Spec

(* Every variable of an invocation keeps its type. *)
COROLLARY CliTypes == Spec => []CliTypeOK
BY CliSafe, PTL

(* Invalid arguments are refused before anything is opened                 *)
(* (main.rs:79-86).                                                        *)
COROLLARY RefusedInputOpensNothing == Spec => []InvalidOpensNoSocket
BY CliSafe, PTL

(* The engine contacted is the one designated (endpoint.rs:57-135). *)
COROLLARY OneSocket == Spec => []DesignatedSocketOnly
BY CliSafe, PTL

(* However slow the engine, an invocation ends at its own deadlines        *)
(* (timeouts.rs:3-10, runtime.rs:55-173).                                  *)
COROLLARY EndsInTime == Spec => []WithinDeadlines
BY CliSafe, PTL
=============================================================================
