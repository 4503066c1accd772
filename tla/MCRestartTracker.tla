--------------------------- MODULE MCRestartTracker ---------------------------
(* Model checking of RestartTracker on a ring of three records.             *)
EXTENDS RestartTracker

MCResetReasons == {"sw", "panic"}
MCExpected == {"sw"}
=============================================================================
