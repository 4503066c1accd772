----------------------------- MODULE MCPowerDown -----------------------------
(* Model checking of PowerDown.                                             *)
EXTENDS PowerDown
=============================================================================
