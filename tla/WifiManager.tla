---------------------------- MODULE WifiManager ----------------------------
(***************************************************************************)
(* The Wi-Fi manager (main/wifi_mgr.c) as wifi_network_init sets it up for *)
(* a device with a station: auto-reconnect on, retries without limit.      *)
(* Four tasks work on wifi_status and on the driver without a lock: the    *)
(* system event loop (wifi_event_handler), wifi_deferred_work_task,        *)
(* wifi_reconnect_task, and whoever calls wifi_mgr_enable, _disable or     *)
(* _set_mode: Bluetooth when a phone comes and goes, the button that opens *)
(* the configuration mode, which turns Bluetooth off first.                *)
(*                                                                         *)
(* A blocking scan, a delay and the return of a driver call end a step.    *)
(* The driver is external: it refuses a scan and a new configuration while *)
(* it joins a network.  Addresses, channels and callbacks are left out,    *)
(* and wifi_mgr_deinit, which only the smart-connect task and the power    *)
(* manager call.                                                           *)
(***************************************************************************)
EXTENDS Naturals, Sequences

CONSTANTS
    Networks,   \* the SSIDs the device is configured for,
    Primary,    \* the first of them
    NoNetwork,  \* the empty SSID
    Configs,    \* what may be configured: mode, auto, fallbacks, home, ble
    WorkCap,    \* places of wifi_deferred_work_queue
    Threshold,  \* WIFI_MGR_AUTH_FAIL_THRESHOLD
    EventBound  \* the environment waits for the event loop beyond this

ASSUME WifiAssumption ==
    /\ Primary \in Networks /\ NoNetwork \notin Networks
    /\ Configs \subseteq [mode : {"STA", "APSTA"}, auto : BOOLEAN,
                          fallbacks : Seq(Networks), home : Networks \cup {NoNetwork},
                          ble : BOOLEAN]
    /\ WorkCap \in Nat \ {0} /\ Threshold \in Nat \ {0} /\ EventBound \in Nat

VARIABLES
    config,     \* wifi_config: mode, ap_auto_disable, fallbacks, sta_home_priority;
                \* and whether Bluetooth is enabled
    enabled,    \* wifi_status.enabled
    running,    \* WIFI_INIT_BIT and WIFI_ENABLED_BIT
    connected,  \* wifi_status.sta_connected and DEV_STA_CONNECTED
    linkBit,    \* WIFI_CONNECTED_BIT and WIFI_STA_GOT_IP_BIT
    apStarted,  \* wifi_status.ap_started and DEV_AP_ENABLED
    clients,    \* wifi_status.ap_connected_stations
    tried,      \* wifi_status.last_attempted_ssid
    cursor,     \* s_select_seq_cursor + 1
    fails,      \* auth_fail_count of every SSID
    ban,        \* banned_until of every SSID: none, yet to come, over
    at,         \* where each task is
    work,       \* wifi_deferred_work_queue
    call,       \* where the caller of the API is
    ble,        \* "phone" while one is connected; "off" in the configuration mode
    on,         \* the driver is started
    mode,       \* its mode
    cfg,        \* its station configuration
    link, net,  \* what its station does, and with which network
    events,     \* what it has posted to the event loop
    calm,       \* from now on nobody interferes and nothing is lost,
    air         \* and these networks are within reach; until then, any

status == <<enabled, running, connected, linkBit, apStarted, clients>>
bans == <<fails, ban>>
tasks == <<at, work>>
user == <<call, ble, config>>
station == <<cfg, link, net>>
driver == <<on, mode, station, events>>
world == <<air, calm>>
vars == <<status, tried, cursor, bans, tasks, user, driver, world>>

Tasks == {"handler", "deferred", "reconnect"}
Event == {"STA_START", "GOT_IP", "DISCONNECTED", "AUTH_FAILED",
          "AP_START", "AP_STOP", "AP_JOIN", "AP_LEAVE"}

TypeOK ==
    /\ config \in [mode : {"STA", "APSTA"}, auto : BOOLEAN,
                   fallbacks : Seq(Networks), home : Networks \cup {NoNetwork}, ble : BOOLEAN]
    /\ enabled \in BOOLEAN /\ running \in BOOLEAN
    /\ connected \in BOOLEAN /\ linkBit \in BOOLEAN
    /\ apStarted \in BOOLEAN /\ clients \in 0..1
    /\ tried \in Networks \cup {NoNetwork} /\ cursor \in Nat
    /\ fails \in [Networks -> 0..Threshold - 1]
    /\ ban \in [Networks -> {"none", "banned", "over"}]
    /\ at \in [Tasks -> {"gone", "idle", "delay", "want", "scan", "raise"}]
    /\ work \in Seq({"scan", "restore"}) /\ Len(work) <= WorkCap
    /\ call \in {"none", "stop", "mark", "start", "up"}
    /\ ble \in {"idle", "phone", "off"}
    /\ on \in BOOLEAN /\ mode \in {"STA", "APSTA"} /\ cfg \in Networks
    /\ link \in {"idle", "joining", "up"} /\ net \in Networks \cup {NoNetwork}
    /\ events \in Seq(Event)
    /\ air \subseteq Networks /\ calm \in BOOLEAN

(* wifi_mgr_init has run; wifi_network_init is about to enable.            *)
Init ==
    /\ config \in Configs
    /\ enabled = FALSE /\ running = FALSE /\ connected = FALSE
    /\ linkBit = FALSE /\ apStarted = FALSE /\ clients = 0
    /\ tried = NoNetwork /\ cursor = 0
    /\ fails = [n \in Networks |-> 0] /\ ban = [n \in Networks |-> "none"]
    /\ at = [t \in Tasks |-> IF t = "reconnect" THEN "gone" ELSE "idle"]
    /\ work = <<>> /\ call = "start" /\ ble = "idle"
    /\ on = FALSE /\ mode = config.mode /\ cfg = Primary
    /\ link = "idle" /\ net = NoNetwork /\ events = <<>>
    /\ air = {} /\ calm = FALSE

-----------------------------------------------------------------------------
(* The driver.  esp_wifi_connect takes the configuration; an attempt or a  *)
(* connection under way goes on.                                           *)
Connect(n) ==
    IF on /\ link = "idle"
      THEN link' = "joining" /\ net' = n
      ELSE UNCHANGED <<link, net>>

(* esp_wifi_set_config, then esp_wifi_connect.                             *)
ConfigureAndConnect(n) ==
    IF link = "joining"
      THEN UNCHANGED station
      ELSE cfg' = n /\ Connect(n)

ApEvents(before, after) ==
    IF ~on \/ before = after THEN <<>>
    ELSE IF after = "APSTA" THEN <<"AP_START">> ELSE <<"AP_STOP">>

(* esp_wifi_set_mode.                                                      *)
SetMode(m, queue) == mode' = m /\ events' = queue \o ApEvents(mode, m)

(* esp_wifi_disconnect.                                                    *)
Disconnect ==
    /\ link' = "idle" /\ net' = NoNetwork
    /\ events' = Append(events, "DISCONNECTED")

Joins ==
    /\ link = "joining" /\ Len(events) <= EventBound
    /\ calm => net \in air
    /\ link' = "up" /\ events' = Append(events, "GOT_IP")
    /\ UNCHANGED <<status, tried, cursor, bans, tasks, user, on, mode, cfg, net, world>>

(* It is out of reach, refuses the password, or does not answer.           *)
JoinFails ==
    /\ link = "joining" /\ Len(events) <= EventBound
    /\ calm => net \notin air
    /\ link' = "idle" /\ net' = NoNetwork
    /\ \E e \in {"DISCONNECTED"} \cup (IF calm THEN {} ELSE {"AUTH_FAILED"}) :
          events' = Append(events, e)
    /\ UNCHANGED <<status, tried, cursor, bans, tasks, user, on, mode, cfg, world>>

LinkLost ==
    /\ link = "up" /\ ~calm /\ Len(events) <= EventBound
    /\ Disconnect
    /\ UNCHANGED <<status, tried, cursor, bans, tasks, user, on, mode, cfg, world>>

(* Somebody joins the access point, and leaves it.                         *)
GuestComes ==
    /\ on /\ mode = "APSTA" /\ clients = 0 /\ ~calm /\ Len(events) <= EventBound
    /\ events' = Append(events, "AP_JOIN")
    /\ UNCHANGED <<status, tried, cursor, bans, tasks, user, on, mode, station, world>>

GuestGoes ==
    /\ on /\ mode = "APSTA" /\ clients > 0 /\ Len(events) <= EventBound
    /\ events' = Append(events, "AP_LEAVE")
    /\ UNCHANGED <<status, tried, cursor, bans, tasks, user, on, mode, station, world>>

CalmBegins ==
    /\ ~calm /\ ble # "phone" /\ call = "none" /\ events = <<>> /\ clients = 0
    /\ calm' = TRUE /\ air' \in SUBSET Networks
    /\ link = "up" => net \in air'
    /\ UNCHANGED <<status, tried, cursor, bans, tasks, user, driver>>

-----------------------------------------------------------------------------
(* Bans.  Looking at an expired one clears it.                             *)
(* Mutant: does not ask whether the ban has run out.                       *)
SkippedForEver(n) == ban[n] # "none"

Skipped(n) == ban[n] = "banned"

LookedAt(n) == [ban EXCEPT ![n] = IF @ = "over" THEN "none" ELSE @]

(* wifi_mgr_fs_on_auth_failure.                                            *)
AuthFailure(n) ==
    IF n = NoNetwork \/ ban[n] # "none"
      THEN UNCHANGED bans
    ELSE IF fails[n] + 1 >= Threshold
      THEN fails' = [fails EXCEPT ![n] = 0] /\ ban' = [ban EXCEPT ![n] = "banned"]
      ELSE fails' = [fails EXCEPT ![n] = @ + 1] /\ UNCHANGED ban

(* wifi_mgr_fs_clear.                                                      *)
Pardon(n) ==
    IF n = NoNetwork
      THEN UNCHANGED bans
      ELSE fails' = [fails EXCEPT ![n] = 0] /\ ban' = [ban EXCEPT ![n] = "none"]

BanOver ==
    /\ \E n \in Networks : ban[n] = "banned" /\ ban' = [ban EXCEPT ![n] = "over"]
    /\ UNCHANGED <<status, tried, cursor, fails, tasks, user, driver, world>>

-----------------------------------------------------------------------------
(* wifi_mgr_scan_select_and_connect, in whichever task runs it.  No        *)
(* configuration reaches it with the driver in pure AP mode.               *)
Candidates == <<Primary>> \o config.fallbacks

(* i is the first place of a network that is not banned, or the first of   *)
(* all when every network is.                                              *)
Choice(i, places, barred) ==
    LET fit == places \ barred
    IN  /\ i \in (IF fit = {} THEN places ELSE fit)
        /\ \A j \in (IF fit = {} THEN places ELSE fit) : i <= j

Scanning == \E t \in Tasks : at[t] = "scan"

Returns(t) == at' = [at EXCEPT ![t] = "idle"]

ScanStarts(t) ==
    /\ at[t] = "want" /\ on /\ link # "joining" /\ ~Scanning
    /\ at' = [at EXCEPT ![t] = "scan"]
    /\ UNCHANGED <<status, tried, cursor, bans, work, user, driver, world>>

(* The driver refused three times, or was stopped meanwhile: on to the     *)
(* next network without a scan, even when the driver keeps the old one.    *)
Turn(k) == ((cursor + k) % Len(Candidates)) + 1

ScanRefused(t) ==
    /\ \/ at[t] = "want" /\ (~on \/ link = "joining" \/ Scanning)
       \/ at[t] = "scan" /\ (~on \/ ~calm)
    /\ \E k \in 0..Len(Candidates) - 1 :
          LET n == Candidates[Turn(k)]
          IN  /\ Choice(k, 0..Len(Candidates) - 1,
                     {j \in 0..Len(Candidates) - 1 : Skipped(Candidates[Turn(j)])})
              /\ tried' = n /\ ban' = LookedAt(n) /\ ConfigureAndConnect(n)
              /\ cursor' = Turn(k) % Len(Candidates)
    /\ Returns(t)
    /\ UNCHANGED <<status, fails, work, user, on, mode, events, world>>

(* A scan may miss a network, unless calm.                                 *)
ScanFinds(t) ==
    /\ at[t] = "scan" /\ on
    /\ \E seen \in SUBSET Networks, i \in DOMAIN Candidates :
          LET n == Candidates[i]
          IN  /\ calm => seen = air
              /\ Choice(i, {j \in DOMAIN Candidates : Candidates[j] \in seen},
                        {j \in DOMAIN Candidates : Skipped(Candidates[j])})
              /\ ban' = LookedAt(n)
              /\ tried' = IF link = "joining" THEN cfg ELSE n
              /\ ConfigureAndConnect(n)
    /\ Returns(t)
    /\ UNCHANGED <<status, cursor, fails, work, user, on, mode, events, world>>

(* None of them is there; only if it saw another one does the code note    *)
(* which network it tries.                                                 *)
ScanFindsNone(t) ==
    /\ at[t] = "scan" /\ on
    /\ calm => \A i \in DOMAIN Candidates : Candidates[i] \notin air
    /\ tried' \in {tried, cfg}
    /\ Connect(cfg)
    /\ Returns(t)
    /\ UNCHANGED <<status, cursor, bans, work, user, on, mode, cfg, events, world>>

ScanSelectAndConnect(t) ==
    ScanStarts(t) \/ ScanRefused(t) \/ ScanFinds(t) \/ ScanFindsNone(t)

-----------------------------------------------------------------------------
(* wifi_event_handler, on the system event loop.                           *)
Handles(e) == at["handler"] = "idle" /\ events # <<>> /\ Head(events) = e

Rest == Tail(events)

(* Mutant: the queue has no end.                                           *)
QueuedUnbounded(w) == work' = Append(work, w)

Queued(w) ==
    IF Len(work) < WorkCap
      THEN work' = Append(work, w)
      ELSE UNCHANGED work

StaStart ==
    /\ Handles("STA_START")
    /\ events' = Rest
    /\ IF config.fallbacks = <<>>
         THEN tried' = cfg /\ Connect(cfg) /\ UNCHANGED tasks
         ELSE /\ Queued("scan")
              /\ at' = IF Len(work) < WorkCap THEN at ELSE [at EXCEPT !["handler"] = "want"]
              /\ UNCHANGED <<tried, link, net>>
    /\ UNCHANGED <<status, cursor, bans, user, on, mode, cfg, world>>

RestoreWanted == config.mode = "APSTA" /\ config.auto

(* Mutant: nothing to do once wifi_mgr_disable has begun.                  *)
StaDisconnectedIfRunning ==
    /\ Handles("DISCONNECTED") \/ Handles("AUTH_FAILED")
    /\ connected' = (connected /\ ~running) /\ linkBit' = (linkBit /\ ~running)
    /\ IF RestoreWanted THEN Queued("restore") ELSE UNCHANGED work
    /\ events' = Rest
    /\ UNCHANGED <<enabled, running, apStarted, clients, tried, cursor, bans, at, user, on, mode,
                   station, world>>

(* Mutant: only the loss of a connection asks for the access point.        *)
StaDisconnectedOnce ==
    /\ Handles("DISCONNECTED") \/ Handles("AUTH_FAILED")
    /\ connected' = FALSE /\ linkBit' = FALSE
    /\ IF Head(events) = "AUTH_FAILED" THEN AuthFailure(tried) ELSE UNCHANGED bans
    /\ IF RestoreWanted /\ connected THEN Queued("restore") ELSE UNCHANGED work
    /\ events' = Rest
    /\ UNCHANGED <<enabled, running, apStarted, clients, tried, cursor, at, user, on, mode,
                   station, world>>

StaDisconnected ==
    /\ Handles("DISCONNECTED") \/ Handles("AUTH_FAILED")
    /\ connected' = FALSE /\ linkBit' = FALSE
    /\ IF Head(events) = "AUTH_FAILED" THEN AuthFailure(tried) ELSE UNCHANGED bans
    /\ IF RestoreWanted THEN Queued("restore") ELSE UNCHANGED work
    /\ events' = Rest
    /\ UNCHANGED <<enabled, running, apStarted, clients, tried, cursor, at, user, on, mode,
                   station, world>>

GotIp ==
    /\ Handles("GOT_IP")
    /\ connected' = TRUE /\ linkBit' = TRUE
    /\ Pardon(tried)
    /\ IF RestoreWanted /\ mode = "APSTA"
         THEN SetMode("STA", Rest)
         ELSE events' = Rest /\ UNCHANGED mode
    /\ UNCHANGED <<enabled, running, apStarted, clients, tried, cursor, tasks, user, on,
                   station, world>>

ApEvent ==
    /\ \/ Handles("AP_START") /\ apStarted' = TRUE /\ UNCHANGED clients
       \/ Handles("AP_STOP") /\ apStarted' = FALSE /\ clients' = 0
       \/ Handles("AP_JOIN") /\ clients' = 1 /\ UNCHANGED apStarted
       \/ Handles("AP_LEAVE") /\ clients' = 0 /\ UNCHANGED apStarted
    /\ events' = Rest
    /\ UNCHANGED <<enabled, running, connected, linkBit, tried, cursor, bans, tasks, user, on,
                   mode, station, world>>

Handler == StaStart \/ StaDisconnected \/ GotIp \/ ApEvent \/ ScanSelectAndConnect("handler")

-----------------------------------------------------------------------------
(* wifi_deferred_work_task.                                                *)
TakesWork ==
    /\ at["deferred"] = "idle" /\ work # <<>>
    /\ work' = Tail(work)
    /\ at' = [at EXCEPT !["deferred"] =
                 IF Head(work) = "scan" THEN "want"
                 ELSE IF mode = "STA" THEN "delay" ELSE "idle"]
    /\ UNCHANGED <<status, tried, cursor, bans, user, driver, world>>

(* One second later it looks once more, and then raises the access point.  *)
StillDisconnected ==
    /\ at["deferred"] = "delay"
    /\ at' = [at EXCEPT !["deferred"] = IF connected THEN "idle" ELSE "raise"]
    /\ UNCHANGED <<status, tried, cursor, bans, work, user, driver, world>>

RaisesAp ==
    /\ at["deferred"] = "raise"
    /\ SetMode("APSTA", events)
    /\ Returns("deferred")
    /\ UNCHANGED <<status, tried, cursor, bans, work, user, on, station, world>>

Deferred == TakesWork \/ StillDisconnected \/ RaisesAp \/ ScanSelectAndConnect("deferred")

-----------------------------------------------------------------------------
(* wifi_reconnect_task.                                                    *)
Exits ==
    /\ at["reconnect"] = "idle" /\ ~running
    /\ at' = [at EXCEPT !["reconnect"] = "gone"]
    /\ UNCHANGED <<status, tried, cursor, bans, work, user, driver, world>>

Watches == at["reconnect"] = "idle" /\ running /\ enabled /\ connected

(* Every five minutes: is the preferred network in reach, and not in use?  *)
GoesHome ==
    /\ Watches /\ link = "up" /\ ~Scanning
    /\ config.home # NoNetwork /\ tried # config.home
    /\ clients = 0 /\ (calm => config.home \in air)
    /\ Disconnect
    /\ UNCHANGED <<status, tried, cursor, bans, tasks, user, on, mode, cfg, world>>

(* Three readings of -92 dBm or less in a row.                             *)
DropsDeadSignal ==
    /\ Watches /\ link = "up" /\ ~calm /\ Len(events) <= EventBound
    /\ Disconnect
    /\ UNCHANGED <<status, tried, cursor, bans, tasks, user, on, mode, cfg, world>>

MustReconnect ==
    /\ at["reconnect"] = "idle" /\ running /\ enabled /\ ~connected /\ clients = 0
    /\ at' = [at EXCEPT !["reconnect"] = "delay"]
    /\ UNCHANGED <<status, tried, cursor, bans, work, user, driver, world>>

(* Calm, an attempt and its events are over before the five seconds are.   *)
DelayOver == at["reconnect"] = "delay" /\ (calm => link # "joining" /\ events = <<>>)

May == running /\ enabled /\ ~connected

NoLongerNeeded ==
    /\ DelayOver /\ ~May
    /\ Returns("reconnect")
    /\ UNCHANGED <<status, tried, cursor, bans, work, user, driver, world>>

Reselects ==
    /\ DelayOver /\ May /\ config.fallbacks # <<>>
    /\ at' = [at EXCEPT !["reconnect"] = "want"]
    /\ UNCHANGED <<status, tried, cursor, bans, work, user, driver, world>>

Reconnects ==
    /\ DelayOver /\ May /\ config.fallbacks = <<>>
    /\ tried' = cfg /\ ban' = LookedAt(cfg)
    /\ IF Skipped(cfg) THEN UNCHANGED <<link, net>> ELSE Connect(cfg)
    /\ Returns("reconnect")
    /\ UNCHANGED <<status, cursor, fails, work, user, on, mode, cfg, events, world>>

Reconnect ==
    \/ Exits \/ GoesHome \/ DropsDeadSignal \/ MustReconnect
    \/ NoLongerNeeded \/ Reselects \/ Reconnects \/ ScanSelectAndConnect("reconnect")

-----------------------------------------------------------------------------
(* The callers.  wifi_mgr_disable, and wifi_mgr_set_mode as it starts.     *)
Disables ==
    IF enabled
      THEN running' = FALSE /\ linkBit' = FALSE /\ call' = "stop"
      ELSE UNCHANGED <<running, linkBit, call>>

StopsDriver ==
    /\ call = "stop" /\ call' = "mark"
    /\ at' = [at EXCEPT !["reconnect"] = "gone"]
    /\ on' = FALSE /\ link' = "idle" /\ net' = NoNetwork
    /\ events' = events \o (IF link = "idle" THEN <<>> ELSE <<"DISCONNECTED">>)
                        \o (IF mode = "STA" THEN <<>> ELSE <<"AP_STOP">>)
    /\ UNCHANGED <<status, tried, cursor, bans, work, ble, config, mode, cfg, world>>

(* 200 ms later.  wifi_mgr_set_mode goes on with wifi_mgr_enable.          *)
MarksDisabled ==
    /\ call = "mark"
    /\ enabled' = FALSE /\ connected' = FALSE /\ apStarted' = FALSE /\ clients' = 0
    /\ call' = IF ble = "off" THEN "start" ELSE "none"
    /\ UNCHANGED <<running, linkBit, tried, cursor, bans, tasks, ble, config, driver, world>>

(* wifi_mgr_enable, whose driver calls succeed.                            *)
StartsDriver ==
    /\ call = "start" /\ call' = "up"
    /\ on' = TRUE /\ mode' = config.mode /\ cfg' = Primary
    /\ events' = events \o <<"STA_START">>
                        \o (IF config.mode = "APSTA" THEN <<"AP_START">> ELSE <<>>)
    /\ UNCHANGED <<status, tried, cursor, bans, tasks, ble, config, link, net, world>>

MarksEnabled ==
    /\ call = "up" /\ call' = "none"
    /\ enabled' = TRUE /\ running' = TRUE
    /\ at' = [at EXCEPT !["reconnect"] = IF @ = "gone" THEN "idle" ELSE @]
    /\ UNCHANGED <<connected, linkBit, apStarted, clients, tried, cursor, bans, work, ble, config,
                   driver, world>>

(* ESP_GATTS_CONNECT_EVT and ESP_GATTS_DISCONNECT_EVT.                     *)
PhoneConnects ==
    /\ config.ble /\ ble = "idle" /\ call = "none" /\ ~calm /\ Len(events) <= EventBound
    /\ ble' = "phone" /\ Disables
    /\ UNCHANGED <<enabled, connected, apStarted, clients, tried, cursor, bans, tasks, config,
                   driver, world>>

PhoneLeaves ==
    /\ ble = "phone" /\ call = "none"
    /\ ble' = "idle" /\ call' = IF enabled THEN "none" ELSE "start"
    /\ UNCHANGED <<status, tried, cursor, bans, tasks, config, driver, world>>

(* config_mode_task, the button held for five seconds.                     *)
ButtonHeld ==
    /\ ble # "off" /\ call = "none" /\ ~calm /\ Len(events) <= EventBound
    /\ ble' = "off"
    /\ config' = [config EXCEPT !.auto = FALSE, !.mode = "APSTA"]
    /\ IF enabled
         THEN Disables
         ELSE call' = "start" /\ UNCHANGED <<running, linkBit>>
    /\ UNCHANGED <<enabled, connected, apStarted, clients, tried, cursor, bans, tasks, driver,
                   world>>

Call == StopsDriver \/ MarksDisabled \/ StartsDriver \/ MarksEnabled

-----------------------------------------------------------------------------
Environment == LinkLost \/ GuestComes \/ GuestGoes \/ CalmBegins

Next ==
    \/ Handler \/ Deferred \/ Reconnect \/ Call
    \/ PhoneConnects \/ PhoneLeaves \/ ButtonHeld
    \/ Joins \/ JoinFails \/ BanOver \/ Environment

Spec == Init /\ [][Next]_vars

(* Tasks run, delays end, the driver answers, bans run out.  Nothing need  *)
(* ever happen to the radio or to the user.                                *)
Fairness ==
    /\ WF_vars(Handler) /\ WF_vars(Deferred) /\ WF_vars(Call)
    /\ WF_vars(Exits) /\ WF_vars(GoesHome) /\ WF_vars(MustReconnect)
    /\ WF_vars(NoLongerNeeded \/ Reselects \/ Reconnects)
    /\ WF_vars(ScanSelectAndConnect("reconnect"))
    /\ WF_vars(Joins \/ JoinFails) /\ WF_vars(BanOver)

FairSpec == Spec /\ Fairness

-----------------------------------------------------------------------------
(* Once no call is under way and every event is handled, what the manager  *)
(* tells the rest of the firmware is what the driver does: enabled,        *)
(* connected (in both places that say so), access point up.                *)
Settled == call = "none" /\ events = <<>>

StatusFollowsDriver ==
    Settled => /\ enabled = on /\ running = on
               /\ connected = (link = "up") /\ linkBit = (link = "up")
               /\ apStarted = (on /\ mode = "APSTA")
               /\ ~apStarted => clients = 0

Reachable == \E i \in DOMAIN Candidates : Candidates[i] \in air

(* Whatever was lost, banned, queued or dropped before, once a configured  *)
(* network stays in reach the station ends up connected, and stays so.     *)
ReconnectsForGood == calm /\ Reachable ~> [](link = "up" /\ connected)

(* A device that turns its access point off while it is connected has it   *)
(* back, for good, when no network is in reach any more.                   *)
ApComesBack == calm /\ ~Reachable /\ config.mode = "APSTA" ~> [](on /\ mode = "APSTA")

(* The web page: "If this SSID is found with good signal (> -75 dBm), it   *)
(* auto-switches. The SSID must be configured in Primary or Backup         *)
(* networks."                                                              *)
AutoSwitches ==
    calm /\ config.home \in air /\ ble # "off" ~> link = "up" /\ net = config.home
=============================================================================
