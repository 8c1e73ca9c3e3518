--------------------------- MODULE DockerRuntime ---------------------------
(***************************************************************************)
(* What the adapter of the Docker engine adds to each request              *)
(* (crates/hormos-docker): its deadline (timeouts.rs) and the category of  *)
(* its error (error.rs).  Messages are left out.                           *)
(***************************************************************************)
EXTENDS Naturals

Verb == {"start", "stop", "restart"}
OnContainer == Verb \cup {"inspect"}
Operation == OnContainer \cup {"negotiate", "ping", "info", "list"}

(* Deadlines in seconds. *)
Seconds == [negotiate |-> 5, ping |-> 5, info |-> 10, list |-> 15,
            inspect |-> 10, start |-> 30, stop |-> 60, restart |-> 90]

ClientSeconds == 120

(* How a request can fail: a status of the engine, an error of the         *)
(* transport, or an error Bollard raises itself.                           *)
Status == {"400", "401", "403", "404", "409", "422", "500", "503"}
Transport == {"denied", "missing", "refused", "reset", "aborted", "brokenPipe",
              "notConnected", "timedOut", "other"}
Bollard == {"socketNotFound", "requestTimeout", "unsupportedScheme"}
Failure == Status \cup Transport \cup Bollard

(* Failures that can follow a request the engine has received. *)
Interrupted == {"reset", "aborted", "brokenPipe", "timedOut", "other", "requestTimeout"}

ErrorKind == {"InvalidInput", "DaemonUnavailable", "PermissionDenied",
              "ContainerNotFound", "Conflict", "Timeout", "UnsupportedRuntime",
              "RuntimeError"}

(* map_error, from_status, from_transport *)
Kind(failure) ==
  CASE failure \in {"400", "422"} -> "InvalidInput"
    [] failure \in {"401", "403", "denied"} -> "PermissionDenied"
    [] failure = "404" -> "ContainerNotFound"
    [] failure = "409" -> "Conflict"
    [] failure \in {"503", "socketNotFound", "missing", "refused", "reset",
                    "aborted", "brokenPipe", "notConnected"} -> "DaemonUnavailable"
    [] failure \in {"timedOut", "requestTimeout"} -> "Timeout"
    [] failure = "unsupportedScheme" -> "UnsupportedRuntime"
    [] OTHER -> "RuntimeError"
=============================================================================
