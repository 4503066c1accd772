--------------------------- MODULE MCSleepHistory ---------------------------
(* Model checking of SleepHistory, with seconds for minutes.                *)
EXTENDS SleepHistory

MCRequests == {"POWER_WAKE", "INTERNAL_RECOVERY"}
MCReasons == {"sw", "poweron", "panic"}
MCExpected == {"sw", "poweron"}

(* Flat; weak enough for the guard; between the sleep threshold and the     *)
(* wake-up threshold; above both.                                           *)
MCReadings == {118, 120, 132, 133}
MCDelays == {2}
MCModes == 0..2
MCWakeups == {"off", "periodic", "scheduled"}
=============================================================================
