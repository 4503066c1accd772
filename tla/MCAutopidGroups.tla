--------------------------- MODULE MCAutopidGroups ---------------------------
(***************************************************************************)
(* AutopidGroups for TLC: a group of every condition, and configurations   *)
(* that each bring some of them together with one low-voltage behaviour.   *)
(***************************************************************************)
EXTENDS AutopidGroups

MCGroups == {"gated", "rpm", "engine", "demand", "charging"}

MCCondition ==
    [g \in MCGroups |->
        CASE g = "gated" -> "custom_pid"
          [] g = "rpm" -> "always"
          [] g = "engine" -> "engine_running"
          [] g = "demand" -> "mqtt_on_demand"
          [] g = "charging" -> "voltage"]

Plain ==
    [groups |-> <<>>, lowVoltage |-> "disable", pidSleep |-> FALSE, override |-> FALSE,
     imu |-> FALSE, rise |-> FALSE, filters |-> FALSE, changes |-> {}]

(* no pauses: a gatekeeper and the engine beside CAN filters; orders       *)
Conditional ==
    [Plain EXCEPT !.groups = <<"gated", "rpm", "engine">>, !.filters = TRUE,
                  !.changes = {"engine"}]
OnDemand == [Plain EXCEPT !.groups = <<"demand", "rpm">>]
(* the custom threshold, with everything that overrides it                 *)
Threshold ==
    [Plain EXCEPT !.groups = <<"rpm">>, !.lowVoltage = "automate_threshold",
                  !.override = TRUE, !.imu = TRUE, !.rise = TRUE,
                  !.changes = {"voltage", "moving", "rising", "engine"}]
(* the Sleep Voltage, for polling only and for all of Automate             *)
SleepVoltage ==
    [Plain EXCEPT !.groups = <<"charging", "rpm">>, !.filters = TRUE,
                  !.lowVoltage = "disable_pid_requests",
                  !.changes = {"voltageOk", "voltage", "reading"}]
PauseAutomate ==
    [Plain EXCEPT !.groups = <<"rpm">>, !.lowVoltage = "enable",
                  !.changes = {"voltageOk", "awake", "enabled"}]
PidSleep == [PauseAutomate EXCEPT !.pidSleep = TRUE, !.changes = {"voltageOk"}]

MCConfigs == {Conditional, OnDemand, Threshold, SleepVoltage, PauseAutomate, PidSleep}
=============================================================================
