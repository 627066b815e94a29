----------------------------- MODULE MCKlogger -----------------------------
(* An instance of Klogger for TLC. *)
EXTENDS Klogger

CONSTANTS t1, t2

TwoThreads == {t1, t2}
=============================================================================
