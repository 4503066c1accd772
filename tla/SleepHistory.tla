----------------------------- MODULE SleepHistory -----------------------------
(***************************************************************************)
(* SleepMode with history variables, for the properties that compare a     *)
(* decision of light_sleep_task with what happened before it: how long the *)
(* countdown has run and what was sampled meanwhile, how long the device   *)
(* has slept, how many samples a wake-up rests on.  The history never      *)
(* influences a step of SleepMode.                                         *)
(***************************************************************************)
EXTENDS SleepMode

VARIABLES
    countdown,   \* seconds since StartCountdown, at most SleepTime
    wakeable,    \* a good sample above the wake-up threshold since then
    asleep,      \* seconds since ArmTimedWake, at most WakeInterval
    goodSamples, \* consecutive samples above the threshold, at most 2
    awakeDozes   \* consecutive dozes that found the OBD chip awake

history == <<countdown, wakeable, asleep, goodSamples, awakeDozes>>
historyVars == <<vars, history>>

HInit ==
    /\ Init
    /\ countdown = 0 /\ wakeable = FALSE
    /\ asleep = 0 /\ goodSamples = 0 /\ awakeDozes = 0

Ticked == Tick
Started == pc = "decide" /\ state = "NORMAL" /\ state' = "LOW_VOLTAGE"
Armed == pc = "arm" /\ pc' = "guard"
Sampled == pc = "sample" /\ pc' = "decide" /\ adcOk' /\ timers["voltage"] = 0

Step(n, bound) == CappedAt(n + 1, bound)

HStep ==
    IF ~up'
      THEN /\ countdown' = 0 /\ wakeable' = FALSE
           /\ asleep' = 0 /\ goodSamples' = 0 /\ awakeDozes' = 0
      ELSE
        /\ countdown' = IF Started THEN 0
                        ELSE IF Ticked /\ state = "LOW_VOLTAGE"
                               THEN Step(countdown, SleepTime)
                        ELSE countdown
        /\ wakeable' = IF Started THEN FALSE
                        ELSE wakeable \/ (Sampled /\ Float(voltage') >= WakeupVoltage)
        /\ asleep' = IF Armed THEN 0
                     ELSE IF Ticked THEN Step(asleep, WakeInterval)
                     ELSE asleep
        /\ goodSamples' = IF ~Sampled THEN goodSamples
                          ELSE IF Float(voltage') >= WakeupVoltage THEN Step(goodSamples, 2)
                          ELSE 0
        /\ awakeDozes' = IF pc # "doze" \/ pc' = "doze" THEN awakeDozes
                         ELSE IF elmRetries' > elmRetries \/ pc' = "restart"
                                THEN Step(awakeDozes, ElmSleepRetries + 1)
                         ELSE 0

HNext == Next /\ HStep

HSpec == HInit /\ [][HNext]_historyVars
HFairSpec == HSpec /\ Fairness

-----------------------------------------------------------------------------
(* The decision to sleep honours the countdown: sleep_time has passed      *)
(* since it began, and in voltage mode no sample taken meanwhile was above *)
(* the wake-up threshold (light_sleep_task, STATE_LOW_VOLTAGE).            *)
CountdownHonoured ==
    [][pc' = "shutdown" /\ pc # "shutdown" =>
         /\ countdown >= SleepTime
         /\ config.mode = 1 => ~wakeable]_historyVars

Waking == requested' = "POWER_WAKE" /\ pc' = "restart" /\ pc # "restart"

(* A wake-up has a reason: a sample above the threshold, or, in periodic   *)
(* mode, a whole wakeup_interval asleep on a battery that is not flat.     *)
(* Nothing else - a stale timer of the boot before, a countdown, the guard *)
(* - wakes the device.                                                     *)
WakeHasReason ==
    [][Waking =>
         \/ goodSamples > 0
         \/ /\ voltage > CriticalVoltage
            /\ config.wakeup = "periodic" => asleep >= WakeInterval]_historyVars

(* An internal-recovery restart is the last resort: ElmSleepRetries hard   *)
(* resets in a row were tried before it, and each doze found the OBD chip  *)
(* awake (elm327_sleep_retries).                                           *)
RecoveryIsLastResort ==
    [][pc = "doze" /\ pc' = "restart" => awakeDozes' = ElmSleepRetries + 1]_historyVars
=============================================================================
