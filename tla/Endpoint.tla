------------------------------ MODULE Endpoint ------------------------------
(***************************************************************************)
(* Which socket Hormos connects to (crates/hormos-docker/src/endpoint.rs). *)
(* A variable of the environment is reduced to what the resolution can     *)
(* tell apart: absent, not UTF-8, blank, or the form of its value.         *)
(***************************************************************************)

Host == {"unset", "unreadable", "blank", "unix", "unixNoPath", "unixNul", "remote"}
RuntimeDir == {"unset", "unreadable", "blank", "dir"}
Environment == [host : Host, runtimeDir : RuntimeDir]

Socket == {"host", "rootless", "default"}
Path(socket) == [ok |-> TRUE, socket |-> socket]
Refused(kind) == [ok |-> FALSE, kind |-> kind]

Blank(value) == value \in {"unset", "blank"}

(* from_docker_host *)
FromDockerHost(host) ==
  CASE host = "remote" -> Refused("UnsupportedRuntime")
    [] host \in {"unixNoPath", "unixNul"} -> Refused("InvalidInput")
    [] host = "unix" -> Path("host")

(* resolve: DOCKER_HOST, then the rootless socket if it exists, then the   *)
(* standard one.                                                           *)
Resolve(env, rootlessExists) ==
  IF ~Blank(env.host) THEN FromDockerHost(env.host)
  ELSE IF ~Blank(env.runtimeDir) /\ rootlessExists THEN Path("rootless")
  ELSE Path("default")

(* Faulty variant: an unreadable variable is taken for an absent one. *)
Lenient(value) == IF value = "unreadable" THEN "unset" ELSE value
ResolveLeniently(env, rootlessExists) ==
  Resolve([host |-> Lenient(env.host), runtimeDir |-> Lenient(env.runtimeDir)],
          rootlessExists)

(* readable *)
Readable(value) == value # "unreadable"

(* resolve_os: both variables are read, and either refused, before any     *)
(* fallback is considered.                                                 *)
ResolveOs(env, rootlessExists) ==
  IF Readable(env.host) /\ Readable(env.runtimeDir) THEN Resolve(env, rootlessExists)
  ELSE Refused("InvalidInput")

=============================================================================
