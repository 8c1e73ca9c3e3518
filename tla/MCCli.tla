------------------------------- MODULE MCCli -------------------------------
(* Two ways to run the command line: every command in one environment, in  *)
(* a terminal or a pipe, and a few commands in every environment.          *)
EXTENDS Cli

MCPlain == [host : {"unset"}, runtimeDir : {"dir"}, tty : BOOLEAN]
MCFewCommands ==
  {[name |-> "tui", reference |-> "none"], [name |-> "inspect", reference |-> "valid"],
   [name |-> "inspect", reference |-> "invalid"]}
MCTrials == [env : MCPlain, command : Command]
              \cup [env : Setting, command : MCFewCommands]
=============================================================================
