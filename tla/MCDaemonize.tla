---------------------------- MODULE MCDaemonize ----------------------------
(* Instances of Daemonize for TLC. *)
EXTENDS Daemonize

AllCommands == Programs
StartStop   == {"daemon", "stop"}

BothModes   == BOOLEAN
MasterOnly  == {TRUE}
=============================================================================
