---------------------------- MODULE MCObdLogger -----------------------------
(* Instances of ObdLogger for TLC.  Names of files are numbers.            *)
EXTENDS ObdLogger

CONSTANT a
=============================================================================
