------------------------------ MODULE PowerDown ------------------------------
(***************************************************************************)
(* The shutdown of SleepMode step by step (main/sleep_mode.c 1074-1101 and *)
(* 1184-1261) against the tasks it shuts down: the UART worker of the OBD  *)
(* chip (uart1_event_task, main/elm327.c), the polling task autopid_task   *)
(* (components/autopid/autopid.c) and a client on the ELM327 web terminal. *)
(* They meet in the bits of dev_status, the command queue, the mutex of    *)
(* UART 1 and the published sleep state.  A wait with a timeout may end    *)
(* either way: the others can hold the mutex for longer than any of them.  *)
(***************************************************************************)
EXTENDS Naturals

CONSTANTS
    QueueSize,      \* ELM327_CMD_QUEUE_SIZE (100)
    ElmSleepRetries \* hard resets of a chip that does not stay asleep (6)

ASSUME PowerDownAssumption ==
    /\ QueueSize \in Nat \ {0}
    /\ ElmSleepRetries \in Nat

VARIABLES
    pc,        \* where each task is
    config,    \* pausing: PIDs pause below the sleep voltage; terminal: in use
    bits,      \* dev_status
    queue,     \* commands in elm327_cmd_queue
    mutex,     \* holder of xuart1_semaphore
    chip,      \* the OBD chip: "ready" or "asleep" (its READY pin)
    published, \* sleep_state_queue: "NONE", "NORMAL", "SLEEPING", "WAKE_PENDING"
    online,    \* the interfaces that bring commands are up
    retries,   \* elm327_sleep_retries
    handshake, \* history: the wait for DEV_AUTOPID_IDLE ended with the bit set
    late       \* history: commands the worker wrote after DEV_AWAKE went, <= 2

vars == <<pc, config, bits, queue, mutex, chip, published, online, retries,
          handshake, late>>

Tasks == {"sleep", "uart", "autopid", "terminal"}
NoTask == "nobody"
Bits == {"AWAKE", "SLEEP", "WAKE_VOLTAGE_OK", "AUTOPID_IDLE", "AUTOPID_ENABLED"}

StepsOf(t) ==
    CASE t = "sleep"   -> {"awake", "announce", "idle", "lock", "stsleep", "teardown",
                           "down", "doze", "resetlock", "hardreset", "baudlock",
                           "setbaud"}
      [] t = "uart"    -> {"gate", "receive", "check", "lock", "talk"}
      [] t = "autopid" -> {"gate", "asleep", "volt", "lowvolt", "enabled", "off",
                           "poll", "await", "filter", "lock", "talk"}
      [] OTHER         -> {"idle", "lock", "talk"}

TypeOK ==
    /\ pc \in [Tasks -> UNION {StepsOf(t) : t \in Tasks}]
    /\ \A t \in Tasks : pc[t] \in StepsOf(t)
    /\ config \in [pausing : BOOLEAN, terminal : BOOLEAN]
    /\ bits \subseteq Bits
    /\ queue \in 0..QueueSize
    /\ mutex \in Tasks \cup {NoTask}
    /\ chip \in {"ready", "asleep"}
    /\ published \in {"NONE", "NORMAL", "SLEEPING", "WAKE_PENDING"}
    /\ online \in BOOLEAN
    /\ retries \in 0..ElmSleepRetries
    /\ handshake \in BOOLEAN
    /\ late \in 0..2

Started ==
    [pc        |-> [t \in Tasks |-> CASE t = "sleep" -> "awake"
                                      [] t = "terminal" -> "idle"
                                      [] OTHER -> "gate"],
     bits      |-> {"AWAKE", "AUTOPID_ENABLED"},
     published |-> "NONE"]

Init ==
    /\ pc = Started.pc
    /\ config \in [pausing : BOOLEAN, terminal : BOOLEAN]
    /\ bits = Started.bits
    /\ queue = 0 /\ mutex = NoTask /\ chip = "ready"
    /\ published = Started.published
    /\ online = TRUE /\ retries = 0
    /\ handshake = FALSE /\ late = 0

Goto(t, step) == pc' = [pc EXCEPT ![t] = step]
At(t, step) == pc[t] = step

-----------------------------------------------------------------------------
(* UART 1.  Every dialogue with the chip flushes the input, writes a       *)
(* command and reads until the prompt or a timeout, under the mutex.  What *)
(* a byte does to a sleeping chip is not in this code: it may wake it.     *)
Take(t) == mutex = NoTask /\ mutex' = t

Give(t) == mutex = t /\ mutex' = NoTask

WriteCommand(t) ==
    /\ Take(t)
    /\ chip' \in {chip, "ready"}
    /\ late' = IF t = "uart" /\ "AWAKE" \notin bits /\ late < 2 THEN late + 1 ELSE late

(* elm327_run_command: the caller itself talks to the chip.                *)
RunCommand(t) ==
    /\ At(t, "lock")
    /\ WriteCommand(t)
    /\ Goto(t, "talk")
    /\ UNCHANGED <<config, bits, queue, published, online, retries, handshake>>

RunCommandDone(t, next) ==
    /\ At(t, "talk")
    /\ Give(t)
    /\ Goto(t, next)
    /\ UNCHANGED <<config, bits, queue, chip, published, online, retries, handshake, late>>

(* xSemaphoreTake gives up after ELM327_CMD_MUTEX_TIMOUT.                  *)
LockTimeout(t, step, next) ==
    /\ At(t, step)
    /\ mutex # NoTask
    /\ Goto(t, next)
    /\ UNCHANGED <<config, bits, queue, mutex, chip, published, online, retries,
                   handshake, late>>

(* seeded fault: a full queue is not waited for                            *)
EnqueueUnbounded == queue' = queue + 1

(* elm327_process_cmd: a complete command goes to the worker's queue; the  *)
(* caller blocks while the queue is full.                                  *)
Enqueue == queue < QueueSize /\ queue' = queue + 1

-----------------------------------------------------------------------------
(* uart1_event_task                                                        *)
UartKeeps == UNCHANGED <<config, bits, mutex, chip, published, online, retries,
                         handshake, late>>

(* seeded fault: the worker only waits on its queue                        *)
UartAwakeUnchecked ==
    /\ At("uart", "gate")
    /\ Goto("uart", "receive")
    /\ UartKeeps /\ UNCHANGED queue

UartAwake ==
    /\ At("uart", "gate") /\ "AWAKE" \in bits
    /\ Goto("uart", "receive")
    /\ UartKeeps /\ UNCHANGED queue

UartReceive ==
    /\ At("uart", "receive") /\ queue > 0
    /\ queue' = queue - 1
    /\ Goto("uart", "check")
    /\ UartKeeps

(* sleep_mode_get_state fails while nothing is published and leaves the    *)
(* caller's variable uninitialised: the command may then go either way.    *)
UartAccept ==
    /\ At("uart", "check")
    /\ chip = "ready" /\ published # "SLEEPING"
    /\ Goto("uart", "lock")
    /\ UartKeeps /\ UNCHANGED queue

UartDrop ==
    /\ At("uart", "check")
    /\ chip # "ready" \/ published \in {"SLEEPING", "NONE"}
    /\ Goto("uart", "gate")
    /\ UartKeeps /\ UNCHANGED queue

Uart ==
    \/ UartAwake \/ UartReceive \/ UartAccept \/ UartDrop
    \/ RunCommand("uart") \/ LockTimeout("uart", "lock", "gate")
    \/ RunCommandDone("uart", "gate")

-----------------------------------------------------------------------------
(* autopid_task: one turn of its loop.                                     *)
AutopidKeeps == UNCHANGED <<config, mutex, chip, published, online, retries,
                            handshake, late>>

AutopidGoes(step, next) ==
    /\ At("autopid", step)
    /\ Goto("autopid", next)
    /\ AutopidKeeps

(* A gate: either the condition lets the task pass, or it declares itself  *)
(* idle and parks.                                                         *)
Pass(step, next, condition) ==
    condition /\ AutopidGoes(step, next) /\ UNCHANGED <<bits, queue>>

Park(step, place, condition) ==
    /\ condition
    /\ AutopidGoes(step, place)
    /\ bits' = bits \cup {"AUTOPID_IDLE"}
    /\ UNCHANGED queue

Unpark(place, next, bit) ==
    /\ bit \in bits
    /\ AutopidGoes(place, next)
    /\ bits' = bits \ {"AUTOPID_IDLE"}
    /\ UNCHANGED queue

MayPoll == ~config.pausing \/ "WAKE_VOLTAGE_OK" \in bits

(* DEV_AWAKE is set at boot only, so the first park ends with a reset.     *)
AutopidGates ==
    \/ Pass("gate", "volt", "SLEEP" \notin bits)
    \/ Park("gate", "asleep", "SLEEP" \in bits)
    \/ Pass("volt", "enabled", MayPoll)
    \/ Park("volt", "lowvolt", ~MayPoll)
    \/ Unpark("lowvolt", "enabled", "WAKE_VOLTAGE_OK")
    \/ Pass("enabled", "poll", "AUTOPID_ENABLED" \in bits)
    \/ Park("enabled", "off", "AUTOPID_ENABLED" \notin bits)
    \/ Unpark("off", "poll", "AUTOPID_ENABLED")

(* A due PID is sent to the worker and answered, or not, within a second.  *)
SendPid == AutopidGoes("poll", "await") /\ Enqueue /\ UNCHANGED bits

PidsDone == Pass("poll", "filter", TRUE)

Answered == Pass("await", "poll", TRUE)

(* A CAN filter is monitored with ATMA, unless the device is sleeping; the *)
(* filter's set-up goes through the queue first.                           *)
Monitor ==
    /\ "AUTOPID_ENABLED" \in bits /\ "SLEEP" \notin bits
    /\ AutopidGoes("filter", "lock")
    /\ Enqueue
    /\ UNCHANGED bits

NoMonitor == Pass("filter", "gate", TRUE)

Autopid ==
    \/ AutopidGates
    \/ SendPid \/ Answered \/ PidsDone \/ Monitor \/ NoMonitor
    \/ RunCommand("autopid") \/ LockTimeout("autopid", "lock", "gate")
    \/ RunCommandDone("autopid", "gate")

-----------------------------------------------------------------------------
(* Clients of the network interfaces: ELM327 commands for the queue, and   *)
(* the web terminal, which pauses autopid and runs commands itself.        *)
ClientSends ==
    /\ online /\ Enqueue
    /\ UNCHANGED <<pc, config, bits, mutex, chip, published, online, retries,
                   handshake, late>>

TerminalOpens ==
    /\ config.terminal /\ online
    /\ "AUTOPID_ENABLED" \in bits
    /\ bits' = bits \ {"AUTOPID_ENABLED"}
    /\ UNCHANGED <<pc, config, queue, mutex, chip, published, online, retries,
                   handshake, late>>

(* Also when the connection is lost.                                       *)
TerminalCloses ==
    /\ At("terminal", "idle") /\ "AUTOPID_ENABLED" \notin bits
    /\ bits' = bits \cup {"AUTOPID_ENABLED"}
    /\ UNCHANGED <<pc, config, queue, mutex, chip, published, online, retries,
                   handshake, late>>

TerminalCommand ==
    /\ At("terminal", "idle") /\ online /\ "AUTOPID_ENABLED" \notin bits
    /\ Goto("terminal", "lock")
    /\ UNCHANGED <<config, bits, queue, mutex, chip, published, online, retries,
                   handshake, late>>

Terminal ==
    \/ TerminalOpens \/ TerminalCloses \/ TerminalCommand
    \/ RunCommand("terminal") \/ LockTimeout("terminal", "lock", "idle")
    \/ RunCommandDone("terminal", "idle")

-----------------------------------------------------------------------------
(* light_sleep_task, from the end of the countdown on.                     *)
SleepKeeps == UNCHANGED <<config, queue, late>>
SleepOnlyMoves == UNCHANGED <<config, bits, queue, mutex, chip, published, online,
                              retries, handshake, late>>

Publish ==
    /\ At("sleep", "awake") /\ published = "NONE"
    /\ published' = "NORMAL"
    /\ SleepKeeps
    /\ UNCHANGED <<pc, bits, mutex, chip, online, retries, handshake>>

(* A new sample of the supply voltage.                                     *)
Sample ==
    /\ pc["sleep"] \in {"awake", "down"}
    /\ bits' = IF "WAKE_VOLTAGE_OK" \in bits THEN bits \ {"WAKE_VOLTAGE_OK"}
                                             ELSE bits \cup {"WAKE_VOLTAGE_OK"}
    /\ SleepKeeps
    /\ UNCHANGED <<pc, mutex, chip, published, online, retries, handshake>>

ClearAwake ==
    /\ At("sleep", "awake")
    /\ bits' = bits \ {"AWAKE"}
    /\ Goto("sleep", "announce")
    /\ SleepKeeps
    /\ UNCHANGED <<mutex, chip, published, online, retries, handshake>>

AnnounceSleep ==
    /\ At("sleep", "announce")
    /\ bits' = bits \cup {"SLEEP"}
    /\ Goto("sleep", IF "AUTOPID_ENABLED" \in bits THEN "idle" ELSE "lock")
    /\ SleepKeeps
    /\ UNCHANGED <<mutex, chip, published, online, retries, handshake>>

(* seeded fault: either of autopid's bits ends the wait                    *)
AutopidIsIdleAnyBit ==
    /\ At("sleep", "idle") /\ bits \cap {"AUTOPID_IDLE", "AUTOPID_ENABLED"} # {}
    /\ handshake' = TRUE
    /\ Goto("sleep", "lock")
    /\ SleepKeeps
    /\ UNCHANGED <<bits, mutex, chip, published, online, retries>>

AutopidIsIdle ==
    /\ At("sleep", "idle") /\ "AUTOPID_IDLE" \in bits
    /\ handshake' = TRUE
    /\ Goto("sleep", "lock")
    /\ SleepKeeps
    /\ UNCHANGED <<bits, mutex, chip, published, online, retries>>

(* seeded fault: portMAX_DELAY                                             *)
IdleTimeoutNever == FALSE

(* 20 s                                                                    *)
IdleTimeout ==
    /\ At("sleep", "idle") /\ "AUTOPID_IDLE" \notin bits
    /\ Goto("sleep", "lock")
    /\ SleepOnlyMoves

(* elm327_sleep; when the mutex is not to be had the chip stays awake.     *)
AfterElmSleep == IF online THEN "teardown" ELSE "down"

SendStSleep ==
    /\ At("sleep", "lock") /\ Take("sleep")
    /\ Goto("sleep", "stsleep")
    /\ SleepKeeps
    /\ UNCHANGED <<bits, chip, published, online, retries, handshake>>

StSleepDone ==
    /\ At("sleep", "stsleep") /\ Give("sleep")
    /\ chip' \in {chip, "asleep"}
    /\ Goto("sleep", AfterElmSleep)
    /\ SleepKeeps
    /\ UNCHANGED <<bits, published, online, retries, handshake>>

(* can_disable, vpn_manager_stop, wc_mdns_deinit, wifi_mgr_deinit and      *)
(* ble_disable; only then is SLEEPING published.                           *)
TearDown ==
    /\ At("sleep", "teardown")
    /\ online' = FALSE
    /\ published' = "SLEEPING"
    /\ Goto("sleep", "doze")
    /\ SleepKeeps
    /\ UNCHANGED <<bits, mutex, chip, retries, handshake>>

(* One iteration of the loop asleep: a decision, then a light sleep.       *)
StayAsleep ==
    /\ At("sleep", "down") /\ published = "SLEEPING"
    /\ Goto("sleep", "doze")
    /\ SleepOnlyMoves

AwaitStable ==
    /\ At("sleep", "down") /\ published = "SLEEPING" /\ "WAKE_VOLTAGE_OK" \in bits
    /\ published' = "WAKE_PENDING"
    /\ SleepKeeps
    /\ UNCHANGED <<pc, bits, mutex, chip, online, retries, handshake>>

DropBack ==
    /\ At("sleep", "down") /\ published = "WAKE_PENDING"
    /\ published' = "SLEEPING"
    /\ Goto("sleep", "doze")
    /\ SleepKeeps
    /\ UNCHANGED <<bits, mutex, chip, online, retries, handshake>>

(* restart_tracker_restart: every task starts anew; the OBD chip is reset  *)
(* when it is initialised.                                                 *)
Restart ==
    /\ pc' = Started.pc /\ bits' = Started.bits /\ published' = Started.published
    /\ queue' = 0 /\ mutex' = NoTask /\ chip' = "ready"
    /\ online' = TRUE /\ retries' = 0
    /\ handshake' = FALSE /\ late' = 0
    /\ UNCHANGED config

Wake == At("sleep", "down") /\ Restart

ElmAsleep ==
    /\ At("sleep", "doze") /\ chip = "asleep"
    /\ retries' = 0
    /\ Goto("sleep", "down")
    /\ SleepKeeps
    /\ UNCHANGED <<bits, mutex, chip, published, online, handshake>>

(* seeded fault: a chip found awake is left alone                          *)
ElmAwakeIgnored ==
    /\ At("sleep", "doze") /\ chip = "ready" /\ retries < ElmSleepRetries
    /\ Goto("sleep", "down")
    /\ SleepOnlyMoves

ElmAwake ==
    /\ At("sleep", "doze") /\ chip = "ready" /\ retries < ElmSleepRetries
    /\ retries' = retries + 1
    /\ Goto("sleep", "resetlock")
    /\ SleepKeeps
    /\ UNCHANGED <<bits, mutex, chip, published, online, handshake>>

ElmStuckAwake ==
    /\ At("sleep", "doze") /\ chip = "ready" /\ retries = ElmSleepRetries
    /\ Restart

(* elm327_hardreset_chip: the reset, then elm327_set_baudrate, with the    *)
(* mutex given up between them; then elm327_sleep again.                   *)
HardReset ==
    /\ At("sleep", "resetlock") /\ Take("sleep")
    /\ Goto("sleep", "hardreset")
    /\ SleepKeeps
    /\ UNCHANGED <<bits, chip, published, online, retries, handshake>>

HardResetDone ==
    /\ At("sleep", "hardreset") /\ Give("sleep")
    /\ chip' = "ready"
    /\ Goto("sleep", "baudlock")
    /\ SleepKeeps
    /\ UNCHANGED <<bits, published, online, retries, handshake>>

SetBaudrate ==
    /\ At("sleep", "baudlock") /\ Take("sleep")
    /\ Goto("sleep", "setbaud")
    /\ SleepKeeps
    /\ UNCHANGED <<bits, chip, published, online, retries, handshake>>

BaudrateSet ==
    /\ At("sleep", "setbaud") /\ Give("sleep")
    /\ Goto("sleep", "lock")
    /\ SleepKeeps
    /\ UNCHANGED <<bits, chip, published, online, retries, handshake>>

Shutdown ==
    \/ AnnounceSleep \/ AutopidIsIdle \/ IdleTimeout
    \/ SendStSleep \/ LockTimeout("sleep", "lock", AfterElmSleep) \/ StSleepDone
    \/ TearDown

Asleep ==
    \/ StayAsleep \/ DropBack
    \/ ElmAsleep \/ ElmAwake \/ ElmStuckAwake
    \/ HardReset \/ LockTimeout("sleep", "resetlock", "baudlock") \/ HardResetDone
    \/ SetBaudrate \/ LockTimeout("sleep", "baudlock", "lock") \/ BaudrateSet

SleepTask == Shutdown \/ Asleep

-----------------------------------------------------------------------------
Next ==
    \/ Publish \/ Sample \/ ClearAwake \/ AwaitStable \/ Wake
    \/ SleepTask
    \/ Uart \/ Autopid \/ ClientSends \/ Terminal

Spec == Init /\ [][Next]_vars

(* light_sleep_task is scheduled; of the other tasks nothing is assumed,   *)
(* not even that they ever release the mutex.                              *)
FairSpec == Spec /\ WF_vars(SleepTask)

(* The shutdown as the other tasks see it; the application runs all along. *)
Cycle == INSTANCE PowerCycle WITH
    AtOnce <- FALSE, up <- TRUE, awake <- "AWAKE" \in bits, asleep <- "SLEEP" \in bits

(* The UART and its queue, as a user of elm327.c sees them.                *)
InHand ==
    CASE pc["uart"] \in {"check", "lock"} -> "command"
      [] pc["uart"] = "talk"              -> "dialogue"
      [] OTHER                            -> "empty"

Channel == INSTANCE UartChannel WITH
    WorkerTask <- "uart", Callers <- Tasks \ {"uart"}, Nobody <- NoTask, MayRestart <- TRUE,
    waiting <- queue, hand <- InHand, holder <- mutex

-----------------------------------------------------------------------------
(* Who holds the mutex of UART 1 is in a dialogue with the chip, and       *)
(* nobody else is: no answer is read by a task that did not ask.           *)
OneDialogue ==
    \A t \in Tasks : pc[t] \in {"talk", "stsleep", "hardreset", "setbaud"} <=> mutex = t

(* Of all the commands in the queue the worker executes at most one after  *)
(* DEV_AWAKE has gone: the one it was already waiting for, or had in hand. *)
OneStraggler == late <= 1

(* If the shutdown saw DEV_AUTOPID_IDLE, autopid has really parked until   *)
(* the next boot and talks to the chip no more.  That takes a device that  *)
(* does not pause polling on low voltage and whose terminal is not used:   *)
(* otherwise the bit may be left from another park that is about to end.   *)
HandshakeParksAutopid ==
    handshake /\ ~config.pausing /\ ~config.terminal => At("autopid", "asleep")

(* Whatever the other tasks do - hold the mutex for ever, or block on a    *)
(* full queue nobody empties any more - the shutdown is carried through.   *)
ShutdownCompletes == At("sleep", "announce") ~> At("sleep", "doze")

(* A sleeping device does not leave the OBD chip awake: in the end the     *)
(* chip is asleep or the device restarts.                                  *)
ChipSettles == At("sleep", "doze") ~> (chip = "asleep" \/ At("sleep", "awake"))

(* However the other tasks come in between the steps of the shutdown, they *)
(* see it in the order that PowerCycle promises.                           *)
ImplementsPowerCycle == Cycle!CycleSpec

(* In the shutdown, too, commands leave the queue one by one and the mutex *)
(* is used as UartChannel promises: it is free between one dialogue and    *)
(* the next, also between two of light_sleep_task.                         *)
ImplementsChannel == Channel!ChannelSpec
=============================================================================
