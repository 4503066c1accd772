---------------------------- MODULE AutopidGroups ----------------------------
(***************************************************************************)
(* When the vehicle groups are polled.  One pass of autopid_task           *)
(* (components/autopid/autopid.c) waits for the gates (awake, voltage,     *)
(* enabled), decides whether polling is paused (autopid_pause.c), and goes *)
(* through the groups: the condition of a group may be the voltage, the    *)
(* RPM of the last JSON document, an order received by MQTT, or a custom   *)
(* PID asked first (the gatekeeper).  The MQTT task switches on-demand     *)
(* groups (autopid_set_group_mqtt_state), and autopid_processing_task      *)
(* turns the values into the document.  The three share the mutex of       *)
(* autopid_config, which autopid_task gives up while it waits for the car. *)
(*                                                                         *)
(* How a command and its answer find each other is the module Polling;     *)
(* here an answer is there or not.  One PID stands for those of a group,   *)
(* and a timer that runs may be over whenever it is looked at.             *)
(***************************************************************************)
EXTENDS Naturals, Sequences

CONSTANTS
    Groups,       \* the enabled groups,
    Condition,    \* detection_method of each,
    Periodic,     \* and those with a period > 0
    RpmGroup,     \* the group whose PID is "RPM" (010C, no limits on its value)
    MaxVoltage,   \* voltages are the levels 0..MaxVoltage:
    MinVoltage,   \* pid_polling_min_voltage,
    WakeVoltage,  \* and wake_voltage of the groups on "voltage"
    Configs       \* the configurations considered

Conditions == {"always", "voltage", "engine_running", "mqtt_on_demand", "custom_pid"}
LowVoltageBehaviours ==
    {"disable", "enable", "disable_pid_requests", "automate_threshold"}
(* voltageOk: DEV_WAKE_VOLTAGE_OK_BIT; reading: sleep_mode_get_voltage has  *)
(* a voltage; rising: the medians of its history show a rise               *)
Switches == {"awake", "enabled", "voltageOk", "reading", "engine", "moving", "rising"}
Surroundings == Switches \cup {"voltage"}

(* groups: in their order; pidSleep: sleep_config is 2; override, imu,     *)
(* rise: supply_mode, imu_voltage_override, voltage_rise_wakeup enabled;   *)
(* filters: there are CAN filters; changes: what the world around changes  *)
ConfigType ==
    [groups : Seq(Groups), lowVoltage : LowVoltageBehaviours, pidSleep : BOOLEAN,
     override : BOOLEAN, imu : BOOLEAN, rise : BOOLEAN, filters : BOOLEAN,
     changes : SUBSET Surroundings]

ASSUME GroupsAssumption ==
    /\ Condition \in [Groups -> Conditions]
    /\ Periodic \subseteq Groups /\ RpmGroup \in Groups
    /\ MaxVoltage \in Nat /\ MinVoltage \in 0..MaxVoltage
    /\ WakeVoltage \in 0..MaxVoltage
    /\ Configs \subseteq ConfigType

VARIABLES
    config,
    around,    \* the device and the car, as the tasks find them
    pc,        \* where autopid_task is,
    next,      \* the group it is at,
    verdict,   \* the answer it has received,
    polled,    \* pids_polled,
    paused,    \* and pid_polling_paused
    idle,      \* DEV_AUTOPID_IDLE_BIT
    lock,      \* holder of autopid_config->mutex
    due,       \* groups whose period is over
    cooling,   \* groups whose gatekeeper is not to be asked yet
    active,    \* mqtt_active_flag,
    forever,   \* mqtt_timer_disabled,
    elapsed,   \* and mqtt_active_timer expired, of each group
    order,     \* the set_group command the MQTT task is at
    notified,  \* notification of autopid_processing_task,
    processing,\* and where it is
    rpm,       \* the value of "RPM" is above 300 and has not failed,
    document,  \* and so it stands in autopid_data.json_str
    supply,    \* supply_mode_active
    boot,      \* boot_pid_polling_keep_alive_seconds are not over
    hold       \* voltage_rising_hold_timer

groupVars == <<due, cooling, active, forever, elapsed>>
taskVars == <<pc, next, verdict, polled, paused, idle>>
carVars == <<rpm, supply>>
timeVars == <<boot, hold>>
vars == <<config, around, taskVars, lock, groupVars, order, notified, processing, carVars,
          document, timeVars>>

NoTask == "nobody"
NoOrder == [at |-> "idle"]

Gates == {"awake", "waitAwake", "voltage", "waitVoltage", "enabled", "waitEnabled"}
Locked == {"group", "expire", "period", "poll", "monitor"}
Unlocked == {"evaluate", "take", "gate", "gateBack", "query", "queryBack", "notify",
             "filters", "listen"}
Verdicts == {"met", "unmet", "failed"}
Holds == {"unset", "running", "over"}
AroundType ==
    [awake : BOOLEAN, enabled : BOOLEAN, voltageOk : BOOLEAN, reading : BOOLEAN,
     voltage : 0..MaxVoltage, engine : BOOLEAN, moving : BOOLEAN, rising : BOOLEAN]
OrderType ==
    {NoOrder} \cup [at : {"lock", "set"}, group : Groups, on : BOOLEAN, forever : BOOLEAN]

TypeOK ==
    /\ config \in Configs /\ around \in AroundType
    /\ pc \in Gates \cup Locked \cup Unlocked
    /\ next \in 1..Len(config.groups) + 1
    /\ verdict \in Verdicts /\ polled \in BOOLEAN /\ paused \in BOOLEAN
    /\ idle \in BOOLEAN
    /\ lock \in {"autopid", "mqtt", "processing", NoTask}
    /\ due \subseteq Groups /\ cooling \subseteq Groups
    /\ active \subseteq Groups /\ forever \subseteq Groups /\ elapsed \subseteq Groups
    /\ order \in OrderType
    /\ notified \in BOOLEAN /\ processing \in {"wait", "lock", "update", "publish"}
    /\ rpm \in BOOLEAN /\ document \in BOOLEAN /\ supply \in BOOLEAN
    /\ boot \in BOOLEAN /\ hold \in Holds

Init ==
    /\ config \in Configs
    /\ around = [awake |-> TRUE, enabled |-> TRUE, voltageOk |-> TRUE,
                 reading |-> TRUE, voltage |-> MaxVoltage, engine |-> FALSE,
                 moving |-> FALSE, rising |-> FALSE]
    /\ pc = "awake" /\ next = 1 /\ verdict = "failed"
    /\ polled = FALSE /\ paused = FALSE /\ idle = FALSE
    /\ lock = NoTask
    /\ due = Periodic /\ cooling = {}
    /\ active = {} /\ forever = {} /\ elapsed = Groups
    /\ order = NoOrder
    /\ notified = FALSE /\ processing = "wait"
    /\ rpm = FALSE /\ document = FALSE /\ supply = FALSE
    /\ boot = TRUE /\ hold = "unset"

Group == config.groups[next]
Last == next > Len(config.groups)

-----------------------------------------------------------------------------
(* autopid_task: the gates.                                                *)

Go(from, to) == pc = from /\ pc' = to

(* A gate that is closed is waited for, with DEV_AUTOPID_IDLE_BIT set; the *)
(* gates before it are not looked at again.                                *)
Gate(gate, wait, closed, open, then) ==
    /\ \/ Go(gate, then) /\ ~closed /\ UNCHANGED idle
       \/ Go(gate, wait) /\ closed /\ idle' = TRUE
       \/ Go(wait, then) /\ open /\ idle' = FALSE
    /\ UNCHANGED <<config, around, next, verdict, polled, paused, lock, groupVars, order,
                   notified, processing, carVars, document, timeVars>>

AwakeGate == Gate("awake", "waitAwake", ~around.awake, around.awake, "voltage")

VoltageGate ==
    Gate("voltage", "waitVoltage",
         ~config.pidSleep /\ config.lowVoltage = "enable" /\ ~around.voltageOk,
         around.voltageOk, "enabled")

EnabledGate == Gate("enabled", "waitEnabled", ~around.enabled, around.enabled, "evaluate")

-----------------------------------------------------------------------------
(* autopid_pause.c: evaluate_pid_polling_pause.                            *)

(* pid_override_mode, the keep-alive after boot, motion                    *)
Overridden ==
    \/ config.override /\ supply
    \/ boot
    \/ config.imu /\ around.moving

(* voltage_rising_bypass_active: a hold that is over is set again by a     *)
(* rise of the median only.                                                *)
SetHold ==
    hold' = IF Overridden \/ ~around.reading THEN hold
            ELSE IF ~config.rise THEN "unset"
            ELSE IF hold # "running" /\ around.rising THEN "running"
            ELSE hold

(* seeded fault: a hold counts whether it is over or not                   *)
BypassedForEver == around.reading /\ config.rise /\ hold' # "unset"
Bypassed == around.reading /\ config.rise /\ hold' = "running"

Low ==
    CASE config.lowVoltage = "disable_pid_requests" -> ~around.voltageOk
      [] config.lowVoltage = "automate_threshold" ->
            around.reading /\ around.voltage < MinVoltage
      [] OTHER -> FALSE

Evaluate ==
    /\ IF config.pidSleep
         THEN paused' = FALSE /\ UNCHANGED hold
         ELSE SetHold /\ paused' = (~Overridden /\ ~Bypassed /\ Low)
    /\ Go("evaluate", IF paused' THEN "filters" ELSE "take")
    /\ UNCHANGED <<config, around, next, verdict, polled, idle, lock, groupVars, order,
                   notified, processing, carVars, document, boot>>

-----------------------------------------------------------------------------
(* autopid_task: one pass over the groups, with the mutex.                 *)

TakeMutex(to) == lock = NoTask /\ lock' = "autopid" /\ pc' = to
GiveMutex(to) == lock' = NoTask /\ pc' = to

Take ==
    /\ pc = "take" /\ TakeMutex("group")
    /\ next' = 1 /\ polled' = FALSE
    /\ UNCHANGED <<config, around, verdict, paused, idle, groupVars, order, notified,
                   processing, carVars, document, timeVars>>

(* seeded faults: a group that is not active ends the pass; the index is   *)
(* counted up twice                                                        *)
SkipTwice == pc' = "group" /\ next' = next + 2
SkipRest == pc' = "group" /\ next' = Len(config.groups) + 1

(* continue                                                                *)
Skip == pc' = "group" /\ next' = next + 1

CheckAlways ==
    /\ Condition[Group] = "always"
    /\ pc' = "period" /\ UNCHANGED <<next, lock>>

CheckVoltage ==
    /\ Condition[Group] = "voltage"
    /\ IF around.reading /\ around.voltage >= WakeVoltage
         THEN pc' = "period" /\ UNCHANGED next
         ELSE Skip
    /\ UNCHANGED lock

(* is_engine_running: the document decides, not the parameter.             *)
CheckEngine ==
    /\ Condition[Group] = "engine_running"
    /\ IF document THEN pc' = "period" /\ UNCHANGED next ELSE Skip
    /\ UNCHANGED lock

CheckOrder ==
    /\ Condition[Group] = "mqtt_on_demand"
    /\ IF Group \notin active THEN Skip
       ELSE IF Group \in elapsed \ forever THEN pc' = "expire" /\ UNCHANGED next
       ELSE pc' = "period" /\ UNCHANGED next
    /\ UNCHANGED lock

(* The custom PID is sent, and the mutex given up for its answer.          *)
CheckCustom ==
    /\ Condition[Group] = "custom_pid"
    /\ IF Group \in cooling THEN Skip /\ UNCHANGED lock
       ELSE GiveMutex("gate") /\ UNCHANGED next

Check ==
    /\ pc = "group" /\ ~Last
    /\ CheckAlways \/ CheckVoltage \/ CheckEngine \/ CheckOrder \/ CheckCustom
    /\ UNCHANGED <<config, around, verdict, polled, paused, idle, groupVars, order,
                   notified, processing, carVars, document, timeVars>>

(* The time of an order is over: found, and then acted on.                 *)
Expire ==
    /\ pc = "expire" /\ Skip
    /\ active' = active \ {Group}
    /\ UNCHANGED <<config, around, verdict, polled, paused, idle, lock, due, cooling,
                   forever, elapsed, order, notified, processing, carVars, document,
                   timeVars>>

(* The car answers or not; a running engine is what the gatekeeper and the *)
(* RPM tell.  An engine that is off answers so, or its ECU sleeps.         *)
Answer ==
    /\ \/ Go("gate", "gateBack") \/ Go("query", "queryBack")
    /\ verdict' \in {IF around.engine THEN "met" ELSE "unmet", "failed"}
    /\ UNCHANGED <<config, around, next, polled, paused, idle, lock, groupVars, order,
                   notified, processing, carVars, document, timeVars>>

(* No answer, an error, or a condition that is not met: three seconds of   *)
(* peace for this group.                                                   *)
GateBack ==
    /\ pc = "gateBack" /\ lock = NoTask /\ lock' = "autopid"
    /\ \/ verdict = "met" /\ pc' = "period" /\ UNCHANGED <<next, cooling>>
       \/ verdict # "met" /\ Skip /\ cooling' = cooling \cup {Group}
    /\ UNCHANGED <<config, around, verdict, polled, paused, idle, due, active, forever,
                   elapsed, order, notified, processing, carVars, document, timeVars>>

(* The timer of the group is set at the start of the batch.                *)
Period ==
    /\ pc = "period"
    /\ \/ /\ Group \in Periodic \ due /\ Skip /\ UNCHANGED <<due, polled>>
       \/ /\ Group \notin Periodic \ due
          /\ pc' = "poll" /\ polled' = TRUE /\ due' = due \ {Group}
          /\ UNCHANGED next
    /\ UNCHANGED <<config, around, verdict, paused, idle, lock, cooling, active, forever,
                   elapsed, order, notified, processing, carVars, document, timeVars>>

(* execute_pid sends the command and gives the mutex up for its answer.    *)
Poll ==
    /\ pc = "poll" /\ GiveMutex("query")
    /\ UNCHANGED <<config, around, next, verdict, polled, paused, idle, groupVars, order,
                   notified, processing, carVars, document, timeVars>>

(* seeded fault: a PID that failed keeps its value                         *)
GhostRpm == rpm' = (IF verdict = "failed" THEN rpm ELSE verdict = "met")

(* A value that has failed is stripped from the document.                  *)
FileRpm == rpm' = (verdict = "met")

QueryBack ==
    /\ pc = "queryBack" /\ lock = NoTask /\ lock' = "autopid" /\ Skip
    /\ IF Group = RpmGroup
         THEN /\ FileRpm
              /\ supply' = IF verdict = "failed" THEN supply ELSE verdict = "met"
         ELSE UNCHANGED carVars
    /\ UNCHANGED <<config, around, verdict, polled, paused, idle, groupVars, order,
                   notified, processing, document, timeVars>>

GroupsDone ==
    /\ pc = "group" /\ Last
    /\ GiveMutex("notify")
    /\ UNCHANGED <<config, around, next, verdict, polled, paused, idle, groupVars, order,
                   notified, processing, carVars, document, timeVars>>

Notify ==
    /\ Go("notify", "filters")
    /\ notified' = (notified \/ polled)
    /\ UNCHANGED <<config, around, next, verdict, polled, paused, idle, lock, groupVars,
                   order, processing, carVars, document, timeVars>>

-----------------------------------------------------------------------------
(* autopid_task: the frames of the CAN filters, also while polling is      *)
(* paused.  Whether one is due is open; listening takes 1.1 s with the     *)
(* mutex and ends with a new document.                                     *)

Filters ==
    /\ \/ /\ Go("filters", "listen")
          /\ config.filters /\ around.enabled /\ around.awake
       \/ Go("filters", "awake")
    /\ UNCHANGED <<config, around, next, verdict, polled, paused, idle, lock, groupVars,
                   order, notified, processing, carVars, document, timeVars>>

Listen ==
    /\ pc = "listen" /\ TakeMutex("monitor")
    /\ UNCHANGED <<config, around, next, verdict, polled, paused, idle, groupVars, order,
                   notified, processing, carVars, document, timeVars>>

Monitor ==
    /\ pc = "monitor" /\ GiveMutex("awake")
    /\ document' = rpm
    /\ UNCHANGED <<config, around, next, verdict, polled, paused, idle, groupVars, order,
                   notified, processing, carVars, timeVars>>

-----------------------------------------------------------------------------
(* autopid_processing_task                                                 *)

Process(from, to) ==
    /\ processing = from /\ processing' = to
    /\ UNCHANGED <<config, around, taskVars, groupVars, order, carVars, timeVars>>

TakeNotification ==
    /\ notified /\ Process("wait", "lock") /\ notified' = FALSE
    /\ UNCHANGED <<lock, document>>

LockToUpdate ==
    /\ lock = NoTask /\ Process("lock", "update") /\ lock' = "processing"
    /\ UNCHANGED <<notified, document>>

(* autopid_lock(500): only listening keeps the mutex that long.            *)
GiveUpUpdate ==
    /\ pc = "monitor" /\ Process("lock", "wait")
    /\ UNCHANGED <<lock, notified, document>>

(* autopid_data_update, then the mutex is given before publishing.         *)
Update ==
    /\ Process("update", "publish") /\ lock' = NoTask /\ document' = rpm
    /\ UNCHANGED notified

Publish == Process("publish", "wait") /\ UNCHANGED <<lock, notified, document>>

-----------------------------------------------------------------------------
(* autopid_set_group_mqtt_state, in the MQTT task                          *)

Command(next_order) ==
    /\ order' = next_order
    /\ UNCHANGED <<config, around, taskVars, due, cooling, notified, processing, carVars,
                   document, timeVars>>

ReceiveOrder ==
    /\ order = NoOrder
    /\ \E i \in DOMAIN config.groups, on, for_ever \in BOOLEAN :
         /\ Condition[config.groups[i]] = "mqtt_on_demand"
         /\ Command([at |-> "lock", group |-> config.groups[i], on |-> on,
                     forever |-> on /\ for_ever])
    /\ UNCHANGED <<lock, active, forever, elapsed>>

(* seeded fault: the group is changed without the mutex                    *)
EnterUnlocked ==
    /\ order.at = "lock" /\ Command([order EXCEPT !.at = "set"])
    /\ UNCHANGED <<lock, active, forever, elapsed>>

LockForOrder ==
    /\ order.at = "lock" /\ lock = NoTask
    /\ lock' = "mqtt" /\ Command([order EXCEPT !.at = "set"])
    /\ UNCHANGED <<active, forever, elapsed>>

(* autopid_lock(100) fails: the order is dropped, and acknowledged.        *)
DropOrder ==
    /\ order.at = "lock" /\ lock # NoTask /\ Command(NoOrder)
    /\ UNCHANGED <<lock, active, forever, elapsed>>

(* An order to stop leaves the timer as it is.                             *)
SetGroup ==
    /\ order.at = "set"
    /\ IF order.on
         THEN /\ active' = active \cup {order.group}
              /\ IF order.forever
                   THEN forever' = forever \cup {order.group} /\ UNCHANGED elapsed
                   ELSE /\ forever' = forever \ {order.group}
                        /\ elapsed' = elapsed \ {order.group}
         ELSE active' = active \ {order.group} /\ UNCHANGED <<forever, elapsed>>
    /\ lock' = NoTask /\ Command(NoOrder)

-----------------------------------------------------------------------------
(* Time and the world around.                                              *)

TimePasses == UNCHANGED <<config, around, taskVars, lock, active, forever, order, notified,
                          processing, carVars, document>>

PeriodOver(g) ==
    /\ g \in Periodic \ due /\ due' = due \cup {g} /\ TimePasses
    /\ UNCHANGED <<cooling, elapsed, timeVars>>
CoolingOver(g) ==
    /\ g \in cooling /\ cooling' = cooling \ {g} /\ TimePasses
    /\ UNCHANGED <<due, elapsed, timeVars>>
OrderOver(g) ==
    /\ g \notin elapsed /\ elapsed' = elapsed \cup {g} /\ TimePasses
    /\ UNCHANGED <<due, cooling, timeVars>>
BootOver ==
    /\ boot /\ boot' = FALSE /\ TimePasses /\ UNCHANGED <<due, cooling, elapsed, hold>>
HoldOver ==
    /\ hold = "running" /\ hold' = "over" /\ TimePasses
    /\ UNCHANGED <<due, cooling, elapsed, boot>>

Change ==
    /\ \/ \E what \in config.changes \cap Switches :
            around' = [around EXCEPT ![what] = ~@]
       \/ /\ "voltage" \in config.changes
          /\ \E level \in 0..MaxVoltage : around' = [around EXCEPT !.voltage = level]
    /\ UNCHANGED <<config, taskVars, lock, groupVars, order, notified, processing, carVars,
                   document, timeVars>>

-----------------------------------------------------------------------------
Autopid ==
    \/ AwakeGate \/ VoltageGate \/ EnabledGate \/ Evaluate
    \/ Check \/ Expire \/ Answer \/ Period \/ Poll \/ GroupsDone \/ Notify
    \/ Filters \/ Monitor
Waiting == Take \/ GateBack \/ QueryBack \/ Listen
Processing == TakeNotification \/ LockToUpdate \/ GiveUpUpdate \/ Update \/ Publish
Ordering == ReceiveOrder \/ LockForOrder \/ DropOrder \/ SetGroup
Time ==
    \/ \E g \in Groups : PeriodOver(g) \/ CoolingOver(g) \/ OrderOver(g)
    \/ BootOver \/ HoldOver

Next == Autopid \/ Waiting \/ Processing \/ Ordering \/ Time \/ Change

Spec == Init /\ [][Next]_vars

(* The tasks run, and time passes.  The mutex is given up in every wait    *)
(* for the car, for much longer than a task ready to take it needs.        *)
Fairness ==
    /\ WF_vars(Autopid) /\ SF_vars(Waiting)
    /\ WF_vars(TakeNotification \/ Update \/ Publish) /\ SF_vars(LockToUpdate)
    /\ WF_vars(SetGroup)
    /\ \A g \in Groups :
         WF_vars(PeriodOver(g)) /\ WF_vars(CoolingOver(g)) /\ WF_vars(OrderOver(g))
    /\ WF_vars(BootOver) /\ WF_vars(HoldOver)

FairSpec == Spec /\ Fairness

-----------------------------------------------------------------------------
Polls(g) == pc = "query" /\ Group = g

(* An order stands until another one ends it or its own time is over: the  *)
(* pass that finds the time of an older order over never takes away what   *)
(* was ordered since (autopid_task 5064-5071, autopid_set_group_mqtt_state *)
(* under the mutex).                                                       *)
OrderStands ==
    [][\A g \in active \ active' :
         \/ order.at = "set" /\ order.group = g /\ ~order.on /\ order' = NoOrder
         \/ g \in elapsed \ forever]_vars

(* When the engine is off for good the groups that are to be polled with   *)
(* a running engine come to rest, although what says so is a document that *)
(* another task writes, of a value the car no longer reports               *)
(* (is_engine_running, execute_pid, autopid_processing_task).              *)
EngineGroupsStop ==
    <>[]~around.engine =>
        <>[](\A g \in Groups : Condition[g] = "engine_running" => ~Polls(g))

(* On an awake, enabled device with a charged battery every group on       *)
(* "always" is polled again and again: neither a gatekeeper that never     *)
(* answers, nor orders, nor the document's writer starve it, and polling   *)
(* that was parked or paused comes back (autopid_task).                    *)
Clear ==
    /\ around.awake /\ around.enabled /\ around.voltageOk
    /\ around.reading /\ around.voltage >= MinVoltage
AlwaysPolled ==
    <>[]Clear =>
        \A g \in Groups :
          Condition[g] = "always" =>
            (g \in {config.groups[i] : i \in DOMAIN config.groups} => []<>Polls(g))

(* When the voltage has fallen for good, and nothing overrides the pause   *)
(* any more, the car is left alone: the keep-alive after boot and the hold *)
(* of a rise end (evaluate_pid_polling_pause).                             *)
Falling == Low /\ around.reading /\ ~around.rising /\ ~around.moving /\ ~supply
LowVoltageRests ==
    ~config.pidSleep => (<>[]Falling => <>[](\A g \in Groups : ~Polls(g)))
=============================================================================
