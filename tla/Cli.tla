-------------------------------- MODULE Cli --------------------------------
(***************************************************************************)
(* The command line (crates/hormos-cli) from its arguments to its exit     *)
(* code, with the connection and the calls of DockerRuntime.  The user     *)
(* runs one command after another: a retry after a failure is a second     *)
(* invocation.  `hormos tui` is followed up to the connection; module Tui  *)
(* goes on from there.                                                     *)
(*                                                                         *)
(* The engine is external: one container, named by every valid reference,  *)
(* whose state the requests and other clients change.  Time advances in    *)
(* steps of Tick seconds, never beyond a deadline that is due: timeout()   *)
(* ends the request then, or takes a reply that is there.                  *)
(***************************************************************************)
EXTENDS Endpoint, DockerRuntime, FiniteSets

CONSTANTS
  Tick,      \* bound: the grain of time, a divisor of every deadline
  Trials     \* bound: the environments, and the commands run in each

ASSUME TickAssumption ==
  /\ Tick \in Nat \ {0}
  /\ \A op \in Operation : \E n \in 1..Seconds[op] : Seconds[op] = n * Tick

VARIABLES
  phase,      \* where the invocation is
  command,    \* its subcommand and, if it takes one, its reference
  env,        \* the environment and whether stdout is a terminal
  rootless,   \* the rootless socket exists
  contacted,  \* the socket this invocation has opened, "none" before
  elapsed,    \* seconds since the current request was sent
  total,      \* seconds since the invocation began
  exit,       \* the exit code, NoExit before
  engine,     \* the state of the container
  late,       \* requests Hormos gave up on and the engine has not finished
  tried,      \* history: the verbs invoked so far
  meddled     \* history: another client changed the container

invocationVars == <<command, env>>
clock == <<elapsed, total>>
engineVars == <<engine, late, meddled>>
vars == <<phase, invocationVars, rootless, contacted, clock, exit, engineVars, tried>>

NoExit == 99
Aborted == 134   \* SIGABRT, as a shell reports it
Reference == {"none", "valid", "invalid"}
Command ==
  [name : {"tui", "info", "list"}, reference : {"none"}]
    \cup [name : OnContainer, reference : {"valid", "invalid"}]
Setting == [host : Host, runtimeDir : RuntimeDir, tty : BOOLEAN]

ASSUME BoundAssumption == Trials \subseteq [env : Setting, command : Command]

(* The request an invocation is waiting for. *)
Request ==
  CASE phase \in {"negotiate", "ping"} -> phase
    [] phase = "operate" -> command.name
Requesting == phase \in {"negotiate", "ping", "operate"}

After(verb) == IF verb = "stop" THEN "stopped" ELSE "running"

(* Faulty variants: a deadline is taken for a success; an unclassified     *)
(* error has no code of its own.                                           *)
ExitCodeTimeoutOk(kind) ==
  CASE kind = "InvalidInput" -> 2       [] kind = "DaemonUnavailable" -> 3
    [] kind = "PermissionDenied" -> 4   [] kind = "ContainerNotFound" -> 5
    [] kind = "Conflict" -> 6           [] kind = "Timeout" -> 0
    [] kind = "UnsupportedRuntime" -> 8 [] kind = "RuntimeError" -> 1

ExitCodeUnclassified(kind) ==
  CASE kind = "InvalidInput" -> 2       [] kind = "DaemonUnavailable" -> 3
    [] kind = "PermissionDenied" -> 4   [] kind = "ContainerNotFound" -> 5
    [] kind = "Conflict" -> 6           [] kind = "Timeout" -> 7
    [] kind = "UnsupportedRuntime" -> 8 [] OTHER -> 255

(* exit_code *)
ExitCode(kind) ==
  CASE kind = "InvalidInput" -> 2       [] kind = "DaemonUnavailable" -> 3
    [] kind = "PermissionDenied" -> 4   [] kind = "ContainerNotFound" -> 5
    [] kind = "Conflict" -> 6           [] kind = "Timeout" -> 7
    [] kind = "UnsupportedRuntime" -> 8 [] kind = "RuntimeError" -> 1

Exit(code) == phase' = "exited" /\ exit' = code

(* main: the error is printed, and its category gives the exit code.  When *)
(* stderr goes to a pipe its reader has closed, which no other step        *)
(* depends on, eprintln! panics, and a panic aborts.                       *)
Fail(kind) == Exit(ExitCode(kind)) \/ Exit(Aborted)

Init ==
  /\ phase = "idle"
  /\ \E trial \in Trials : env = trial.env /\ command = trial.command
  /\ rootless \in BOOLEAN
  /\ contacted = "none"
  /\ elapsed = 0 /\ total = 0
  /\ exit = NoExit
  /\ engine \in {"absent", "stopped", "running"}
  /\ late = {}
  /\ tried = {}
  /\ meddled = FALSE

(* The user runs hormos, or runs it again. *)
Invoke ==
  /\ phase \in {"idle", "exited", "tui"}
  /\ \E trial \in Trials : trial.env = env /\ command' = trial.command
  /\ phase' = "validate"
  /\ contacted' = "none"
  /\ elapsed' = 0 /\ total' = 0
  /\ exit' = NoExit
  /\ tried' = IF command'.name \in Verb THEN tried \cup {command'.name} ELSE tried
  /\ UNCHANGED <<env, rootless, engineVars>>

----------------------------------------------------------------------------
(* Faulty variant: arguments are validated by the service, once connected. *)
ValidateLater ==
  /\ phase = "validate"
  /\ phase' = "resolve" /\ UNCHANGED exit
  /\ UNCHANGED <<invocationVars, rootless, contacted, clock, engineVars, tried>>

(* run: the reference, then the terminal, before any connection. *)
Validate ==
  /\ phase = "validate"
  /\ IF command.reference = "invalid" \/ (command.name = "tui" /\ ~env.tty)
       THEN Fail("InvalidInput")
       ELSE phase' = "resolve" /\ UNCHANGED exit
  /\ UNCHANGED <<invocationVars, rootless, contacted, clock, engineVars, tried>>

(* connect: resolve the socket, then open it; nothing else is tried when   *)
(* it is missing.                                                          *)
Connect ==
  /\ phase = "resolve"
  /\ LET endpoint == ResolveOs(env, rootless)
     IN IF endpoint.ok
          THEN /\ contacted' = endpoint.socket
               /\ \/ phase' = "negotiate" /\ UNCHANGED exit
                  \/ Fail(Kind("socketNotFound"))
          ELSE Fail(endpoint.kind) /\ UNCHANGED contacted
  /\ UNCHANGED <<invocationVars, rootless, clock, engineVars, tried>>

(* What follows a successful request. *)
Succeed ==
  /\ \/ phase = "negotiate" /\ phase' = "ping" /\ UNCHANGED exit
     \/ /\ phase = "ping"
        /\ phase' = IF command.name = "tui" THEN "tui" ELSE "delegate"
        /\ UNCHANGED exit
     \/ phase = "operate" /\ phase' = "emit" /\ UNCHANGED exit
  /\ elapsed' = 0

(* ContainerService: each operation on a container validates its reference *)
(* again, then is handed to the runtime as it is.                          *)
Delegate ==
  /\ phase = "delegate"
  /\ IF command.reference = "invalid" THEN Fail("InvalidInput")
     ELSE phase' = "operate" /\ UNCHANGED exit
  /\ UNCHANGED <<invocationVars, rootless, contacted, clock, engineVars, tried>>

(* run and emit: the result is printed.  When it goes to a pipe its reader *)
(* has closed, println! panics too.                                        *)
Emit ==
  /\ phase = "emit"
  /\ Exit(0) \/ (~env.tty /\ Exit(Aborted))
  /\ UNCHANGED <<invocationVars, rootless, contacted, clock, engineVars, tried>>

(* A start of a running container, or a stop of a stopped one, is a        *)
(* success (304) that changes nothing.                                     *)
EngineServes ==
  /\ Requesting
  /\ Request \in OnContainer => engine # "absent"
  /\ Succeed
  /\ engine' = IF Request \in Verb THEN After(Request) ELSE engine
  /\ UNCHANGED <<invocationVars, rootless, contacted, total, late, meddled, tried>>

(* call, call_on: a failed request ends the invocation.  The engine may    *)
(* have received it before the connection broke.                           *)
Abandoned(failure) ==
  \/ UNCHANGED late
  \/ /\ failure \in Interrupted /\ Request \in Verb
     /\ late' = late \cup {Request}

EngineFails ==
  /\ Requesting
  /\ \E failure \in Failure \ {"socketNotFound", "requestTimeout"} :
       /\ (failure = "404" /\ Request \in OnContainer) => engine = "absent"
       /\ Fail(Kind(failure))
       /\ Abandoned(failure)
  /\ UNCHANGED <<invocationVars, rootless, contacted, clock, engine, meddled, tried>>

(* guard: the deadline of the operation is reached. *)
Deadline ==
  /\ Requesting
  /\ elapsed = Seconds[Request]
  /\ Fail("Timeout")
  /\ Abandoned("requestTimeout")
  /\ UNCHANGED <<invocationVars, rootless, contacted, clock, engine, meddled, tried>>

(* Faulty variant: the ping has no deadline of its own. *)
PassPingUnguarded ==
  /\ Requesting
  /\ elapsed < IF phase = "ping" THEN ClientSeconds ELSE Seconds[Request]
  /\ elapsed' = elapsed + Tick
  /\ total' = total + Tick
  /\ UNCHANGED <<phase, invocationVars, rootless, contacted, exit, engineVars, tried>>

(* Time passes while a request is pending and no deadline is due. *)
Pass ==
  /\ Requesting
  /\ elapsed < Seconds[Request]
  /\ elapsed' = elapsed + Tick
  /\ total' = total + Tick
  /\ UNCHANGED <<phase, invocationVars, rootless, contacted, exit, engineVars, tried>>

----------------------------------------------------------------------------
(* Around Hormos: the engine ends or drops a request nobody waits for,     *)
(* another client acts, the rootless socket comes and goes.                *)
LateEffect ==
  /\ \E verb \in late :
       /\ late' = late \ {verb}
       /\ \/ engine # "absent" /\ engine' = After(verb)
          \/ UNCHANGED engine
  /\ UNCHANGED <<phase, invocationVars, rootless, contacted, clock, exit,
                 meddled, tried>>

Meddle ==
  /\ engine' \in {"absent", "stopped", "running"} \ {engine}
  /\ meddled' = TRUE
  /\ UNCHANGED <<phase, invocationVars, rootless, contacted, clock, exit, late, tried>>

RootlessMoves ==
  /\ rootless' = ~rootless
  /\ UNCHANGED <<phase, invocationVars, contacted, clock, exit, engineVars, tried>>

Next ==
  \/ Invoke \/ Validate \/ Connect
  \/ Delegate \/ Emit \/ EngineServes \/ EngineFails \/ Deadline \/ Pass
  \/ LateEffect \/ Meddle \/ RootlessMoves

Spec == Init /\ [][Next]_vars

----------------------------------------------------------------------------
(* Every variable keeps its type. *)
CliTypeOK ==
  /\ phase \in {"idle", "validate", "resolve", "negotiate", "ping", "delegate",
                "operate", "emit", "tui", "exited"}
  /\ command \in Command
  /\ env \in Setting
  /\ rootless \in BOOLEAN
  /\ contacted \in Socket \cup {"none"}
  /\ elapsed \in Nat /\ total \in Nat
  /\ exit \in 0..8 \cup {Aborted, NoExit}
  /\ engine \in {"absent", "stopped", "running"}
  /\ late \subseteq Verb /\ tried \subseteq Verb
  /\ meddled \in BOOLEAN

(* An invalid reference, or an interface without a terminal, never opens   *)
(* a socket (main.rs:79-86, docs/architecture.md, docs/tui.md).            *)
InvalidOpensNoSocket ==
  command.reference = "invalid" \/ (command.name = "tui" /\ ~env.tty) =>
    contacted = "none"

(* The socket opened is the one the operator designated: DOCKER_HOST when  *)
(* it is set, and no other engine when it cannot be used; no fallback when *)
(* a variable cannot be read (endpoint.rs:57-63, docs/security-model.md).  *)
DesignatedSocketOnly ==
  contacted # "none" =>
    /\ env.host \in {"unix", "unset", "blank"}
    /\ env.runtimeDir # "unreadable"
    /\ contacted = "host" <=> env.host = "unix"
    /\ contacted = "rootless" => env.runtimeDir = "dir"

(* No command can block: however slow the engine, an invocation ends       *)
(* within the deadlines of its three requests, and it is Hormos that cuts, *)
(* never the HTTP client (timeouts.rs:3-10).                               *)
WithinDeadlines ==
  /\ Requesting => elapsed < ClientSeconds
  /\ total <= Seconds["negotiate"] + Seconds["ping"]
                + IF command.name = "tui" THEN 0 ELSE Seconds[command.name]

(* A success means it: as long as the user retries one and the same verb   *)
(* and nobody else acts, exit code 0 leaves the container in the state the *)
(* verb asks for - although earlier attempts were cut and their effects    *)
(* may still come.  An abort says nothing: a confirmation or an error that *)
(* could not be printed causes it (main.rs:52-57, 107-121).                *)
SuccessHolds ==
  \A verb \in Verb :
    tried = {verb} /\ ~meddled /\ command.name = verb /\ exit = 0 =>
      engine = After(verb)
=============================================================================
