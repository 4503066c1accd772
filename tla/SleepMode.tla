------------------------------ MODULE SleepMode ------------------------------
(***************************************************************************)
(* main/sleep_mode.c (WiCAN Pro): light_sleep_task, the loop that samples  *)
(* the 12 V supply, decides when the device goes to sleep and restarts it  *)
(* to wake up, and the boot-loop guard at the end of every iteration.      *)
(*                                                                         *)
(* One iteration is the steps sample, decide, (shutdown, arm,) guard,      *)
(* (nap,) doze or rest.  Voltages are in tenths of a volt, what            *)
(* read_ss_adc_voltage rounds to; time is in seconds; a timer counts down  *)
(* to 0, where wc_timer_is_expired holds.  Time may pass between any two   *)
(* steps, so the task may be arbitrarily late.                             *)
(***************************************************************************)
EXTENDS RestartLedger, Integers

CONSTANTS
    Readings,        \* what the ADC can return
    SleepVoltage,    \* sleep_voltage
    SleepTime,       \* sleep_time
    WakeInterval,    \* wakeup_interval
    ScheduleDelays,  \* seconds from falling asleep to the next scheduled time
    ElmSleepRetries, \* 6: hard resets of an OBD chip that will not sleep
    SleepModes,      \* sleep_mode values considered: 0 off, 1 voltage, 2 PID
    Wakeups,         \* wakeup_mode values considered
    SwReset, PowerOn \* reset reasons

ASSUME SleepAssumption ==
    /\ Readings \subseteq Nat
    /\ SleepVoltage \in 120..150   \* config_server_get_sleep_volt
    /\ SleepTime \in Nat \ {0}
    /\ WakeInterval \in Nat \ {0}
    /\ ScheduleDelays \subseteq Nat
    /\ ElmSleepRetries \in Nat
    /\ SleepModes \subseteq 0..2
    /\ Wakeups \subseteq {"off", "periodic", "scheduled"}
    /\ {"POWER_WAKE", "INTERNAL_RECOVERY"} \subseteq Requests
    /\ {SwReset, PowerOn} \subseteq ResetReasons

VARIABLES
    pc,             \* where light_sleep_task is
    config,         \* settings read when the task starts; they change by reboot
    state,          \* current_state
    published,      \* sleep_state_queue; "NONE" while it is empty
    bits,           \* the dev_status bits this task writes
    online,         \* CAN, VPN, mDNS, Wi-Fi and BLE not yet taken down
    voltage,        \* battery_voltage, last good sample, 0 before the first
    adcOk,          \* ret == ESP_OK
    timers,         \* seconds left on each timer of the task
    timerWakeup,    \* esp_sleep_enable_timer_wakeup called since boot
    elmRetries      \* elm327_sleep_retries

taskVars == <<pc, config, state, published, bits, online, voltage, adcOk,
              timers, timerWakeup, elmRetries>>
vars == <<ledgerVars, taskVars>>

States == {"NORMAL", "LOW_VOLTAGE", "SLEEPING", "WAKE_PENDING"}
Timers == {"voltage", "sleep", "wakeup", "periodic", "schedule", "delay"}
Steps == {"off", "sample", "decide", "shutdown", "arm", "guard", "nap",
          "doze", "rest", "restart"}

CriticalVoltage == 119  \* CRITICAL_VOLTAGE
ErrorVoltage    == 121  \* ERROR_VOLTAGE
VoltagePeriod   == 3    \* between two ADC reads
WakeupDelay     == 1    \* wakeup_timer
DozeTime        == 2    \* one light sleep
LoopDelay       == 1    \* one awake iteration

(* A voltage as a float, in units of 2^-20 V: exact between 8 and 16 V.    *)
Float(tenths) == (tenths * 2097152 + 10) \div 20
(* wakeup_voltage = sleep_voltage + 0.1f in single precision               *)
WakeupVoltage == Float(SleepVoltage) + 104858

TypeOK ==
    /\ LedgerTypeOK
    /\ pc \in Steps
    /\ config \in [mode : SleepModes, wakeup : Wakeups]
    /\ state \in States
    /\ published \in States \cup {"NONE"}
    /\ bits \subseteq {"AWAKE", "SLEEP", "WAKE_VOLTAGE_OK"}
    /\ online \in BOOLEAN
    /\ voltage \in Readings \cup {0}
    /\ adcOk \in BOOLEAN
    /\ timers \in [Timers -> Nat]
    /\ timerWakeup \in BOOLEAN
    /\ elmRetries \in 0..ElmSleepRetries

-----------------------------------------------------------------------------
Init ==
    /\ LedgerInit /\ resetReason = PowerOn
    /\ pc = "off"
    /\ config \in [mode : SleepModes, wakeup : Wakeups]
    /\ state = "NORMAL" /\ published = "NONE"
    /\ bits = {} /\ online = TRUE
    /\ voltage = 0 /\ adcOk = FALSE
    /\ timers = [t \in Timers |-> 0]
    /\ timerWakeup = FALSE /\ elmRetries = 0

(* app_main up to sleep_mode_init: DEV_AWAKE set, the reset attributed.    *)
Boot ==
    /\ LedgerBoot
    /\ pc' = "sample"
    /\ bits' = {"AWAKE"}
    /\ UNCHANGED <<config, state, published, online, voltage, adcOk, timers,
                   timerWakeup, elmRetries>>

(* The chip resets; nothing in ordinary RAM survives.                      *)
Down(reason) ==
    /\ LedgerReset(reason)
    /\ pc' = "off"
    /\ state' = "NORMAL" /\ published' = "NONE"
    /\ bits' = {} /\ online' = TRUE
    /\ voltage' = 0 /\ adcOk' = FALSE
    /\ timers' = [t \in Timers |-> 0]
    /\ timerWakeup' = FALSE /\ elmRetries' = 0
    /\ UNCHANGED config

(* A crash, a power cycle, the reset button, or a restart that another     *)
(* task asked for, at any moment.                                          *)
EnvReset == \E reason \in ResetReasons : Down(reason)

OtherTaskAsksRestart ==
    /\ pc # "off"
    /\ \E r \in Requests : LedgerMark(r)
    /\ UNCHANGED taskVars

-----------------------------------------------------------------------------
Expired(t) == timers[t] = 0
SetTimer(t, seconds) == timers' = [timers EXCEPT ![t] = seconds]

(* A second passes.                                                        *)
Tick ==
    /\ up
    /\ \E t \in Timers : timers[t] > 0
    /\ timers' = [t \in Timers |-> IF timers[t] > 0 THEN timers[t] - 1 ELSE 0]
    /\ UNCHANGED <<ledgerVars, pc, config, state, published, bits, online,
                   voltage, adcOk, timerWakeup, elmRetries>>

(* read_ss_adc_voltage every 3 s; the wake-voltage bit follows the sample. *)
SampleTaken(v) ==
    /\ pc = "sample" /\ Expired("voltage")
    /\ pc' = "decide"
    /\ SetTimer("voltage", VoltagePeriod)
    /\ adcOk' = TRUE
    /\ voltage' = v
    /\ bits' = IF v < SleepVoltage THEN bits \ {"WAKE_VOLTAGE_OK"}
                                   ELSE bits \cup {"WAKE_VOLTAGE_OK"}
    /\ UNCHANGED <<ledgerVars, config, state, published, online, timerWakeup, elmRetries>>

SampleFailed ==
    /\ pc = "sample" /\ Expired("voltage")
    /\ pc' = "decide"
    /\ SetTimer("voltage", VoltagePeriod)
    /\ adcOk' = FALSE
    /\ UNCHANGED <<ledgerVars, config, state, published, bits, online, voltage,
                   timerWakeup, elmRetries>>

SampleNotDue ==
    /\ pc = "sample" /\ ~Expired("voltage")
    /\ pc' = "decide"
    /\ UNCHANGED <<ledgerVars, config, state, published, bits, online, voltage,
                   adcOk, timers, timerWakeup, elmRetries>>

-----------------------------------------------------------------------------
(* The state machine.  carOn is autopid_car_is_on(), read afresh.          *)
Deciding(s) == pc = "decide" /\ adcOk /\ config.mode > 0 /\ state = s

AboveWakeup == Float(voltage) >= WakeupVoltage

ShouldSleep(carOn) == IF config.mode = 1 THEN voltage < SleepVoltage ELSE ~carOn
ShouldAbort(carOn) == IF config.mode = 1 THEN AboveWakeup ELSE carOn

(* End of the switch: the new state is published.                          *)
Move(s) ==
    /\ state' = s
    /\ published' = s
    /\ pc' = "guard"

Keeps == UNCHANGED <<ledgerVars, config, bits, online, voltage, adcOk,
                     timerWakeup, elmRetries>>

(* seeded fault: the countdown is cut short by a second                    *)
CountdownOverEarly == timers["sleep"] <= 1

CountdownOver == Expired("sleep")

StayAwake ==
    /\ Deciding("NORMAL")
    /\ \E carOn \in BOOLEAN : ~ShouldSleep(carOn)
    /\ Move("NORMAL")
    /\ Keeps /\ UNCHANGED timers

(* seeded fault: the countdown is restarted while the condition persists   *)
KeepCountingAfresh ==
    /\ Deciding("LOW_VOLTAGE") /\ ~CountdownOver
    /\ \E carOn \in BOOLEAN : ~ShouldAbort(carOn)
    /\ Move("LOW_VOLTAGE")
    /\ SetTimer("sleep", SleepTime)
    /\ Keeps

KeepCounting ==
    /\ Deciding("LOW_VOLTAGE") /\ ~CountdownOver
    /\ \E carOn \in BOOLEAN : ~ShouldAbort(carOn)
    /\ Move("LOW_VOLTAGE")
    /\ Keeps /\ UNCHANGED timers

StartCountdown ==
    /\ Deciding("NORMAL")
    /\ \E carOn \in BOOLEAN : ShouldSleep(carOn)
    /\ Move("LOW_VOLTAGE")
    /\ SetTimer("sleep", SleepTime)
    /\ Keeps

AbortCountdown ==
    /\ Deciding("LOW_VOLTAGE")
    /\ \E carOn \in BOOLEAN : ShouldAbort(carOn)
    /\ Move("NORMAL")
    /\ Keeps /\ UNCHANGED timers

(* seeded fault: DEV_AWAKE stays set                                       *)
BitsOfSleepBoth == bits \cup {"SLEEP"}

BitsOfSleep == (bits \ {"AWAKE"}) \cup {"SLEEP"}

(* Countdown over: DEV_AWAKE and DEV_SLEEP change before the shutdown.     *)
FallAsleep ==
    /\ Deciding("LOW_VOLTAGE") /\ CountdownOver
    /\ \E carOn \in BOOLEAN : ~ShouldAbort(carOn)
    /\ state' = "SLEEPING"
    /\ bits' = BitsOfSleep
    /\ pc' = "shutdown"
    /\ UNCHANGED <<ledgerVars, config, published, online, voltage, adcOk,
                   timers, timerWakeup, elmRetries>>

(* seeded fault: the periodic timer is left from an earlier sleep, or unset *)
ArmTimedWakeForgotten ==
    /\ pc = "arm" /\ Expired("delay")
    /\ Move(state)
    /\ Keeps /\ UNCHANGED timers

(* Autopid idle (or 20 s later), OBD chip asleep, interfaces down; only    *)
(* now do readers of the queue see SLEEPING.  A 1 s delay follows.         *)
Shutdown ==
    /\ pc = "shutdown"
    /\ online' = FALSE
    /\ published' = state
    /\ SetTimer("delay", 1)
    /\ pc' = "arm"
    /\ UNCHANGED <<ledgerVars, config, state, bits, voltage, adcOk,
                   timerWakeup, elmRetries>>

ArmTimedWake ==
    /\ pc = "arm" /\ Expired("delay")
    /\ \/ /\ config.wakeup = "scheduled"
          /\ \E d \in ScheduleDelays : SetTimer("schedule", d)
       \/ config.wakeup = "periodic" /\ SetTimer("periodic", WakeInterval)
       \/ config.wakeup = "off" /\ UNCHANGED timers
    /\ Move(state)
    /\ Keeps

(* seeded fault: the periodic branch is nested under the scheduled one     *)
TimedWakeDueScheduledOnly ==
    /\ voltage > CriticalVoltage
    /\ config.wakeup = "scheduled"
    /\ Expired("schedule") \/ Expired("periodic")

TimedWakeDue ==
    /\ voltage > CriticalVoltage
    /\ \/ config.wakeup = "scheduled" /\ Expired("schedule")
       \/ config.wakeup = "periodic" /\ Expired("periodic")

VoltageWake ==
    /\ Deciding("SLEEPING") /\ AboveWakeup
    /\ Move("WAKE_PENDING")
    /\ SetTimer("wakeup", WakeupDelay)
    /\ Keeps

StayAsleep ==
    /\ Deciding("SLEEPING") /\ ~AboveWakeup /\ ~TimedWakeDue
    /\ Move("SLEEPING")
    /\ Keeps /\ UNCHANGED timers

DropBack ==
    /\ Deciding("WAKE_PENDING") /\ ~AboveWakeup
    /\ Move("SLEEPING")
    /\ Keeps /\ UNCHANGED timers

(* restart_tracker_restart: the request, then the reset.                   *)
AskRestart(r) ==
    /\ LedgerMark(r)
    /\ pc' = "restart"
    /\ UNCHANGED <<config, state, published, bits, online, voltage, adcOk,
                   timers, timerWakeup, elmRetries>>

TimedWake ==
    /\ Deciding("SLEEPING") /\ ~AboveWakeup /\ TimedWakeDue
    /\ AskRestart("POWER_WAKE")

(* seeded fault: the stability timer is started afresh by every sample     *)
StableWakeRestarting ==
    /\ Deciding("WAKE_PENDING") /\ AboveWakeup
    /\ Move("WAKE_PENDING") /\ SetTimer("wakeup", WakeupDelay) /\ Keeps

(* The timer is no longer than an iteration of the loop: it has expired.   *)
StableWake ==
    /\ Deciding("WAKE_PENDING") /\ AboveWakeup
    /\ IF Expired("wakeup") THEN AskRestart("POWER_WAKE")
       ELSE Move("WAKE_PENDING") /\ Keeps /\ UNCHANGED timers

Restart == pc = "restart" /\ Down(SwReset)

(* No good sample, or sleep mode disabled: the machine does not run.       *)
SkipDecision ==
    /\ pc = "decide"
    /\ ~adcOk \/ config.mode = 0
    /\ pc' = "guard"
    /\ UNCHANGED <<ledgerVars, config, state, published, bits, online, voltage,
                   adcOk, timers, timerWakeup, elmRetries>>

-----------------------------------------------------------------------------
(* The boot-loop guard: three unexpected resets and a weak battery force   *)
(* the device asleep, whatever state and mode it is in.                    *)
GuardHolds == unexpected >= GuardThreshold /\ voltage < ErrorVoltage

GuardTrips ==
    /\ pc = "guard" /\ GuardHolds
    /\ state' = "SLEEPING"
    /\ bits' = BitsOfSleep
    /\ online' = FALSE
    /\ published' = "SLEEPING"
    /\ pc' = "nap"
    /\ UNCHANGED <<ledgerVars, config, voltage, adcOk, timers, timerWakeup, elmRetries>>

(* The guard's own esp_light_sleep_start: only a wake-up source enabled    *)
(* earlier in this boot ends it (external: with none the chip sleeps until *)
(* it is reset).                                                           *)
NapEnds ==
    /\ pc = "nap" /\ timerWakeup
    /\ pc' = "doze"
    /\ SetTimer("delay", DozeTime)
    /\ UNCHANGED <<ledgerVars, config, state, published, bits, online, voltage,
                   adcOk, timerWakeup, elmRetries>>

GuardPasses ==
    /\ pc = "guard" /\ ~GuardHolds
    /\ IF state = "SLEEPING"
         THEN pc' = "doze" /\ timerWakeup' = TRUE /\ SetTimer("delay", DozeTime)
         ELSE pc' = "rest" /\ SetTimer("delay", LoopDelay) /\ UNCHANGED timerWakeup
    /\ UNCHANGED <<ledgerVars, config, state, published, bits, online, voltage,
                   adcOk, elmRetries>>

(* seeded fault: the retry count is never cleared                          *)
ElmAsleepCountKept ==
    /\ pc = "doze" /\ Expired("delay")
    /\ pc' = "sample"
    /\ UNCHANGED <<ledgerVars, config, state, published, bits, online, voltage,
                   adcOk, timers, timerWakeup, elmRetries>>

(* After 2 s of light sleep the OBD chip must still be asleep: it is hard  *)
(* reset and put to sleep again, ElmSleepRetries times in a row at most.   *)
ElmAsleep ==
    /\ pc = "doze" /\ Expired("delay")
    /\ elmRetries' = 0
    /\ pc' = "sample"
    /\ UNCHANGED <<ledgerVars, config, state, published, bits, online, voltage,
                   adcOk, timers, timerWakeup>>

(* seeded fault: one retry too many                                        *)
RetriesLeftOneMore == elmRetries <= ElmSleepRetries

RetriesLeft == elmRetries < ElmSleepRetries

ElmAwake ==
    /\ pc = "doze" /\ Expired("delay")
    /\ RetriesLeft
    /\ elmRetries' = elmRetries + 1
    /\ pc' = "sample"
    /\ UNCHANGED <<ledgerVars, config, state, published, bits, online, voltage,
                   adcOk, timers, timerWakeup>>

ElmStuckAwake ==
    /\ pc = "doze" /\ Expired("delay")
    /\ ~RetriesLeft
    /\ AskRestart("INTERNAL_RECOVERY")

Rest ==
    /\ pc = "rest" /\ Expired("delay")
    /\ pc' = "sample"
    /\ UNCHANGED <<ledgerVars, config, state, published, bits, online, voltage,
                   adcOk, timers, timerWakeup, elmRetries>>

-----------------------------------------------------------------------------
Sample == (\E v \in Readings : SampleTaken(v)) \/ SampleFailed \/ SampleNotDue

Decide ==
    \/ StayAwake \/ StartCountdown \/ KeepCounting \/ AbortCountdown \/ FallAsleep
    \/ VoltageWake \/ StayAsleep \/ DropBack
    \/ TimedWake \/ StableWake \/ SkipDecision

Finish ==
    \/ Shutdown \/ ArmTimedWake
    \/ GuardTrips \/ GuardPasses \/ NapEnds
    \/ ElmAsleep \/ ElmAwake \/ ElmStuckAwake
    \/ Rest \/ Restart

TaskStep == Sample \/ Decide \/ Finish

Next == Boot \/ EnvReset \/ OtherTaskAsksRestart \/ Tick \/ TaskStep

Spec == Init /\ [][Next]_vars

(* The scheduler runs the task, the clock advances, the chip boots after a *)
(* reset, and the ADC does not fail for ever.                              *)
Fairness ==
    /\ WF_vars(Boot)
    /\ WF_vars(Tick)
    /\ WF_vars(TaskStep)
    /\ SF_vars(\E v \in Readings : SampleTaken(v))

FairSpec == Spec /\ Fairness

(* The shutdown as the other tasks see it.  FallAsleep is two of its       *)
(* steps, GuardTrips all of them.                                          *)
Cycle == INSTANCE PowerCycle WITH
    AtOnce <- TRUE, awake <- "AWAKE" \in bits, asleep <- "SLEEP" \in bits

-----------------------------------------------------------------------------
Dormant == state \in {"SLEEPING", "WAKE_PENDING"}

(* From the end of the shutdown until the next reset the device is really  *)
(* down: interfaces off, DEV_AWAKE clear, DEV_SLEEP set, and whoever peeks *)
(* the queue (uart1_event_task, the web page) is told a dormant state.     *)
(* It must hold whether the countdown or the boot-loop guard put it there, *)
(* and across WAKE_PENDING and back.                                       *)
DormantIsDown ==
    Dormant /\ pc # "shutdown" =>
        /\ ~online
        /\ "AWAKE" \notin bits /\ "SLEEP" \in bits
        /\ published \in {"SLEEPING", "WAKE_PENDING"}

(* The CPU only enters light sleep when everybody has been told so.        *)
LightSleepAnnounced == pc \in {"doze", "nap"} => published = "SLEEPING"

(* There is no way back from sleep but a reset: the interfaces have been   *)
(* torn down and only app_main brings them up again.                       *)
OnlyResetResumes == [][Dormant => (Dormant' \/ ~up')]_vars

(* The countdown always comes to an end: back to NORMAL or asleep (or the  *)
(* device resets).                                                         *)
CountdownEnds == (state = "LOW_VOLTAGE") ~> (state # "LOW_VOLTAGE")

(* A device that keeps seeing a voltage clearly above the threshold, by    *)
(* 0.2 V or more, does not stay asleep.                                    *)
WakesOnVoltage ==
    config.mode > 0 => ~<>[](Dormant /\ voltage >= SleepVoltage + 2)

(* With periodic wake-ups a sleeping device on a battery that is not flat  *)
(* restarts, unless the boot-loop guard has put it into a nap.             *)
WakesPeriodically ==
    config.wakeup = "periodic" /\ config.mode > 0 =>
        ~<>[](state = "SLEEPING" /\ voltage > CriticalVoltage /\ pc # "nap")

(* The other tasks see the device let go of DEV_AWAKE, announce the sleep, *)
(* go down, and come back by a reset only, in this order.                  *)
ImplementsPowerCycle == Cycle!CycleSpec

(* The task asks for restarts and is reset as any user of the reset record *)
(* is: it does nothing else to what the record says.                       *)
ImplementsLedger == LedgerSpec
=============================================================================
