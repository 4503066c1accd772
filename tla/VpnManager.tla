----------------------------- MODULE VpnManager -----------------------------
(***************************************************************************)
(* The VPN manager (components/vpn_manager).  vpn_task_fn starts, watches  *)
(* and stops the one WireGuard tunnel; vpn_manager_update_status is also   *)
(* called by the web server whenever a page asks for the status, and       *)
(* vpn_manager_stop by light_sleep_task, and none of them takes a lock:    *)
(* current_status, current_config and the WireGuard context are shared.    *)
(*                                                                         *)
(* A pass of the task is split wherever it takes a command, tests the gate *)
(* bits, or another task can meet it half-way: a stop tears down first and *)
(* writes the status afterwards, a start resolves the endpoint (which may  *)
(* take seconds) between them.  The default route and the DNS override,    *)
(* which follow the status, are left out.                                  *)
(***************************************************************************)
EXTENDS Naturals, Sequences

CONSTANTS
    Profiles,    \* WireGuard configurations
    Complete,    \* those vpn_manager_validate_wireguard_config accepts
    Savable,     \* what the VPN page is asked to save,
    Testable,    \* and to test
    NoVpn,       \* VPN_TYPE_DISABLED; as the tunnel: no WireGuard context
    NoFile,      \* there is no vpn_config.json
    QueueSize,   \* places of s_vpn_cmd_q (8)
    BackoffBase, \* s_backoff_base_ms, in passes of the task
    BackoffCap   \* s_backoff_cap_ms

Configs == Profiles \cup {NoVpn}

ASSUME VpnAssumption ==
    /\ Complete \subseteq Profiles
    /\ Savable \subseteq Configs /\ Testable \subseteq Configs
    /\ NoVpn \notin Profiles /\ NoFile \notin Configs
    /\ QueueSize \in Nat \ {0}
    /\ BackoffBase \in Nat \ {0} /\ BackoffCap \in Nat \ {0}

VARIABLES
    saved,     \* vpn_config.json and its copy in PSRAM
    current,   \* current_config
    status,    \* current_status
    started,   \* s_connect_started_us # 0
    testOnce,  \* test_once
    backoff,   \* s_backoff_ms
    queue,     \* s_vpn_cmd_q
    pc,        \* where vpn_task_fn is
    then,      \* where it goes on after vpn_manager_stop
    update,    \* where each caller of vpn_manager_update_status is
    sleeper,   \* where light_sleep_task is
    tunnel,    \* s_wg_ctx.config
    netif,     \* s_wg_ctx.netif # NULL
    peer,      \* the peer has answered the handshake
    sta, ap, synced, \* DEV_STA_CONNECTED, DEV_AP_ENABLED, DEV_TIME_SYNCED
    calm       \* from now on the network and the server behave, nobody asks

task == <<testOnce, backoff, pc, then>>
wireguard == <<tunnel, netif, peer>>
bits == <<sta, ap, synced>>
vars == <<saved, current, status, started, task, queue, update, sleeper, wireguard, bits, calm>>

Statuses == {"DISABLED", "DISCONNECTED", "CONNECTING", "CONNECTED", "ERROR"}
Up == {"CONNECTING", "CONNECTED"}
Places == {"drain", "gate", "update", "timeout", "tear", "mark", "start", "init", "connect",
           "fail", "end"}
Command == [type : {"RELOAD", "TEST"}] \cup [type : {"TEST_CONFIG"}, config : Configs]

TypeOK ==
    /\ saved \in Configs \cup {NoFile} /\ current \in Configs
    /\ status \in Statuses /\ started \in BOOLEAN
    /\ testOnce \in BOOLEAN /\ backoff \in Nat
    /\ queue \in Seq(Command) /\ Len(queue) <= QueueSize
    /\ pc \in Places /\ then \in {"drain", "end", "start"}
    /\ update \in [{"task", "web"} -> {"idle", "up", "down"}]
    /\ sleeper \in {"awake", "tear", "mark", "down"}
    /\ tunnel \in Configs
    /\ netif \in BOOLEAN /\ peer \in BOOLEAN
    /\ sta \in BOOLEAN /\ ap \in BOOLEAN /\ synced \in BOOLEAN
    /\ calm \in BOOLEAN

(* vpn_manager_init.  Without a file current_config is all zeros.          *)
Init ==
    /\ saved \in Savable \cup {NoFile}
    /\ current = IF saved = NoFile THEN NoVpn ELSE saved
    /\ status = "DISABLED" /\ started = FALSE
    /\ testOnce = FALSE /\ backoff = 0
    /\ queue = <<>>
    /\ pc = "drain" /\ then = "drain"
    /\ update = [c \in {"task", "web"} |-> "idle"]
    /\ sleeper = "awake"
    /\ tunnel = NoVpn /\ netif = FALSE /\ peer = FALSE
    /\ sta = FALSE /\ ap = FALSE /\ synced = FALSE
    /\ calm = FALSE

-----------------------------------------------------------------------------
(* vpn_manager_stop, in two steps; the task and the power manager call it. *)

(* What is torn down depends on the type in current_config.                *)
Teardown ==
    /\ IF current = NoVpn
         THEN UNCHANGED wireguard
         ELSE tunnel' = NoVpn /\ netif' = FALSE /\ peer' = FALSE
    /\ UNCHANGED <<status, started>>

MarkDisconnected ==
    /\ status' = "DISCONNECTED" /\ started' = FALSE
    /\ UNCHANGED wireguard

Goto(place) == pc' = place /\ UNCHANGED then
Stop(continuation) == pc' = "tear" /\ then' = continuation

(* seeded fault: the command is queued although there is no room           *)
PostUnbounded(command) == queue' = Append(queue, command)
(* xQueueSend(..., 0): dropped when the queue is full                      *)
Post(command) ==
    queue' = IF Len(queue) < QueueSize THEN Append(queue, command) ELSE queue

Bumped == LET b == IF backoff = 0 THEN BackoffBase ELSE 2 * backoff
          IN  IF b > BackoffCap THEN BackoffCap ELSE b

-----------------------------------------------------------------------------
(* vpn_task_fn: the commands.                                              *)
Drained ==
    /\ pc = "drain" /\ queue = <<>>
    /\ Goto("gate")
    /\ UNCHANGED <<saved, current, status, started, testOnce, backoff, queue, update, sleeper,
                   wireguard, bits, calm>>

Take(type) ==
    /\ pc = "drain" /\ queue # <<>> /\ Head(queue).type = type
    /\ queue' = Tail(queue)
    /\ UNCHANGED <<saved, status, started, update, sleeper, wireguard, bits, calm>>

(* A tunnel that is up is stopped - after current_config was overwritten.  *)
Reload ==
    /\ Take("RELOAD")
    /\ UNCHANGED testOnce
    /\ IF saved = NoFile
         THEN UNCHANGED <<current, backoff, pc, then>>
         ELSE /\ current' = saved
              /\ IF status \in Up
                   THEN backoff' = 0 /\ Stop("drain")
                   ELSE UNCHANGED <<backoff, pc, then>>

Test ==
    /\ Take("TEST")
    /\ testOnce' = TRUE /\ backoff' = 0
    /\ UNCHANGED current
    /\ IF status = "CONNECTED" THEN Stop("drain") ELSE UNCHANGED <<pc, then>>

TestConfig ==
    /\ Take("TEST_CONFIG")
    /\ current' = Head(queue).config
    /\ testOnce' = TRUE /\ backoff' = 0
    /\ IF status \in Up THEN Stop("drain") ELSE UNCHANGED <<pc, then>>

(* vpn_manager_stop, called by the task                                    *)
TaskTears ==
    /\ pc = "tear" /\ Goto("mark")
    /\ Teardown
    /\ UNCHANGED <<saved, current, testOnce, backoff, queue, update, sleeper, bits, calm>>

TaskMarks ==
    /\ pc = "mark" /\ pc' = then /\ then' = "drain"
    /\ MarkDisconnected
    /\ UNCHANGED <<saved, current, testOnce, backoff, queue, update, sleeper, bits, calm>>

-----------------------------------------------------------------------------
(* vpn_task_fn: gate bits and status.                                      *)
Open == sta /\ ~ap /\ sleeper = "awake"

(* A step of the task that leaves the shared state alone.                  *)
Decide ==
    UNCHANGED <<saved, current, status, started, queue, update, sleeper, wireguard, bits, calm>>

(* seeded fault: only a connection that has been made is given up          *)
GatedConnectedOnly ==
    /\ pc = "gate" /\ ~Open
    /\ IF status = "CONNECTED"
         THEN Stop("drain") /\ backoff' = 0
         ELSE Goto("drain") /\ UNCHANGED backoff
    /\ Decide /\ UNCHANGED testOnce

(* "continue": the back-off does not run while the task is gated.          *)
Gated ==
    /\ pc = "gate" /\ ~Open
    /\ IF status \in Up
         THEN Stop("drain") /\ backoff' = 0
         ELSE Goto("drain") /\ UNCHANGED backoff
    /\ Decide /\ UNCHANGED testOnce

Idle == pc = "gate" /\ Open /\ status \notin Up
Due == backoff = 0 \/ testOnce

BackingOff ==
    /\ Idle /\ ~Due
    /\ Goto("end")
    /\ Decide /\ UNCHANGED <<testOnce, backoff>>

AwaitClock ==
    /\ Idle /\ Due /\ ~synced
    /\ Goto("drain")
    /\ Decide /\ UNCHANGED <<testOnce, backoff>>

NothingToStart ==
    /\ Idle /\ Due /\ synced /\ current \notin Complete
    /\ Goto("end")
    /\ Decide /\ UNCHANGED <<testOnce, backoff>>

(* seeded fault: nothing is stopped before a new connection is started     *)
AttemptAtOnce ==
    /\ Idle /\ Due /\ synced /\ current \in Complete
    /\ Goto("start")
    /\ Decide /\ UNCHANGED <<testOnce, backoff>>

(* vpn_manager_start stops whatever there is before it goes on.            *)
Attempt ==
    /\ Idle /\ Due /\ synced /\ current \in Complete
    /\ Stop("start")
    /\ Decide /\ UNCHANGED <<testOnce, backoff>>

-----------------------------------------------------------------------------
(* vpn_manager_start, after its stop.                                      *)
StartMarks ==
    /\ pc = "start" /\ Goto("init")
    /\ status' = "CONNECTING" /\ started' = TRUE
    /\ UNCHANGED <<saved, current, testOnce, backoff, queue, update, sleeper, wireguard, bits, calm>>

(* vpn_wg_init: a context that is there already is kept as it is.          *)
WgInit ==
    /\ pc = "init" /\ Goto("connect")
    /\ tunnel' = IF tunnel = NoVpn THEN current ELSE tunnel
    /\ UNCHANGED <<saved, current, status, started, testOnce, backoff, queue, update, sleeper,
                   netif, peer, bits, calm>>

WgInitFails ==
    /\ pc = "init" /\ ~calm /\ tunnel = NoVpn /\ Goto("fail")
    /\ Decide /\ UNCHANGED <<testOnce, backoff>>

(* vpn_wg_start: the interface is made, and the first handshake sent.      *)
WgStart ==
    /\ pc = "connect" /\ tunnel # NoVpn /\ Goto("end")
    /\ netif' = TRUE
    /\ backoff' = 0 /\ testOnce' = FALSE
    /\ UNCHANGED <<saved, current, status, started, queue, update, sleeper, tunnel, peer, bits, calm>>

(* No context, no interface, or an interface whose first message could not *)
(* be sent and which stays.                                                *)
WgStartFails ==
    /\ pc = "connect" /\ Goto("fail")
    /\ tunnel # NoVpn => ~calm
    /\ netif' \in (IF tunnel = NoVpn THEN {netif} ELSE {netif, TRUE})
    /\ UNCHANGED <<saved, current, status, started, testOnce, backoff, queue, update, sleeper,
                   tunnel, peer, bits, calm>>

(* A test that fails does not back off.                                    *)
StartFails ==
    /\ pc = "fail" /\ Goto("end")
    /\ status' = "ERROR" /\ started' = FALSE
    /\ testOnce' = FALSE
    /\ backoff' = IF testOnce THEN backoff ELSE Bumped
    /\ UNCHANGED <<saved, current, queue, update, sleeper, wireguard, bits, calm>>

-----------------------------------------------------------------------------
(* vpn_manager_update_status: first it looks at the peer, then it compares *)
(* with the status and writes that.                                        *)
PeerSeen(c) == update' = [update EXCEPT ![c] = IF netif /\ peer THEN "up" ELSE "down"]

UpdateWrites(c) ==
    /\ update[c] # "idle"
    /\ update' = [update EXCEPT ![c] = "idle"]
    /\ IF update[c] = "up"
         THEN /\ status' = "CONNECTED"
              /\ started' = (started /\ status = "CONNECTED")
         ELSE /\ status' = (IF status = "CONNECTED" THEN "DISCONNECTED" ELSE status)
              /\ UNCHANGED started

(* vpn_task_fn, CONNECTING                                                 *)
Connecting ==
    /\ pc = "gate" /\ Open /\ status = "CONNECTING"
    /\ PeerSeen("task") /\ Goto("update")
    /\ UNCHANGED <<saved, current, status, started, testOnce, backoff, queue, sleeper, wireguard, bits, calm>>

TaskUpdates ==
    /\ pc = "update" /\ Goto("timeout")
    /\ UpdateWrites("task")
    /\ UNCHANGED <<saved, current, testOnce, backoff, queue, sleeper, wireguard, bits, calm>>

ConnectTimeout ==
    /\ pc = "timeout" /\ ~calm /\ status = "CONNECTING" /\ started
    /\ Stop("end") /\ backoff' = Bumped
    /\ Decide /\ UNCHANGED testOnce

StillInTime ==
    /\ pc = "timeout" /\ Goto("end")
    /\ Decide /\ UNCHANGED <<testOnce, backoff>>

(* vpn_task_fn, CONNECTED                                                  *)
Connected == pc = "gate" /\ Open /\ status = "CONNECTED"

PeerFine ==
    /\ Connected /\ netif /\ peer
    /\ Goto("end")
    /\ Decide /\ UNCHANGED <<testOnce, backoff>>

(* seeded fault: a lost peer is left to the web server's status page       *)
PeerDownLeft ==
    /\ Connected /\ ~(netif /\ peer)
    /\ Goto("end")
    /\ Decide /\ UNCHANGED <<testOnce, backoff>>

PeerDown ==
    /\ Connected /\ ~(netif /\ peer)
    /\ Stop("end") /\ backoff' = Bumped
    /\ Decide /\ UNCHANGED testOnce

(* The end of a pass                                                       *)
CountBackoff ==
    /\ pc = "end" /\ Goto("drain")
    /\ backoff' = IF backoff > 0 THEN backoff - 1 ELSE 0
    /\ Decide /\ UNCHANGED testOnce

Task ==
    \/ Drained \/ Reload \/ Test \/ TestConfig \/ TaskTears \/ TaskMarks
    \/ Gated \/ BackingOff \/ AwaitClock \/ NothingToStart \/ Attempt
    \/ StartMarks \/ WgInit \/ WgInitFails \/ WgStart \/ WgStartFails \/ StartFails
    \/ Connecting \/ TaskUpdates \/ ConnectTimeout \/ StillInTime \/ PeerFine \/ PeerDown
    \/ CountBackoff

-----------------------------------------------------------------------------
(* The other tasks.  With the VPN the power manager stops the Wi-Fi, over  *)
(* which all requests come.                                                *)
Reachable == ~calm /\ sleeper # "down"

WebAsksStatus ==
    /\ Reachable /\ update["web"] = "idle" /\ PeerSeen("web")
    /\ UNCHANGED <<saved, current, status, started, task, queue, sleeper, wireguard, bits, calm>>

WebUpdates ==
    /\ UpdateWrites("web")
    /\ UNCHANGED <<saved, current, task, queue, sleeper, wireguard, bits, calm>>

(* The VPN page: the configuration is saved, then the task told.           *)
Saves(config) ==
    /\ Reachable
    /\ saved' = config /\ Post([type |-> "RELOAD"])
    /\ UNCHANGED <<current, status, started, task, update, sleeper, wireguard, bits, calm>>

(* The page's test, of what is stored or of what it shows                  *)
Tests(command) ==
    /\ Reachable /\ Post(command)
    /\ UNCHANGED <<saved, current, status, started, task, update, sleeper, wireguard, bits, calm>>

(* IP_EVENT_STA_GOT_IP asks for a reload before it sets the bit.           *)
GotIp ==
    /\ Reachable
    /\ sta' = TRUE /\ Post([type |-> "RELOAD"])
    /\ UNCHANGED <<saved, current, status, started, task, update, sleeper, wireguard, ap, synced, calm>>

StaDisconnected ==
    /\ Reachable /\ sta /\ sta' = FALSE
    /\ UNCHANGED <<saved, current, status, started, task, queue, update, sleeper, wireguard, ap, synced, calm>>

AccessPoint ==
    /\ Reachable /\ ap' = ~ap
    /\ UNCHANGED <<saved, current, status, started, task, queue, update, sleeper, wireguard, sta, synced, calm>>

ClockSynced ==
    /\ ~synced /\ synced' = TRUE
    /\ UNCHANGED <<saved, current, status, started, task, queue, update, sleeper, wireguard, sta, ap, calm>>

(* light_sleep_task sets DEV_SLEEP and stops the VPN; then the Wi-Fi goes. *)
SleepBegins ==
    /\ ~calm /\ sleeper = "awake" /\ sleeper' = "tear"
    /\ UNCHANGED <<saved, current, status, started, task, queue, update, wireguard, bits, calm>>

SleepTears ==
    /\ sleeper = "tear" /\ sleeper' = "mark"
    /\ Teardown
    /\ UNCHANGED <<saved, current, task, queue, update, bits, calm>>

SleepMarks ==
    /\ sleeper = "mark" /\ sleeper' = "down"
    /\ MarkDisconnected
    /\ UNCHANGED <<saved, current, task, queue, update, bits, calm>>

(* The server answers a handshake; it, or the way to it, is lost.          *)
PeerAnswers ==
    /\ netif /\ ~peer /\ peer' = TRUE
    /\ UNCHANGED <<saved, current, status, started, task, queue, update, sleeper, tunnel, netif, bits, calm>>

PeerLost ==
    /\ Reachable /\ peer /\ peer' = FALSE
    /\ UNCHANGED <<saved, current, status, started, task, queue, update, sleeper, tunnel, netif, bits, calm>>

CalmBegins ==
    /\ ~calm /\ calm' = TRUE
    /\ UNCHANGED <<saved, current, status, started, task, queue, update, sleeper, wireguard, bits>>

Web ==
    \/ WebAsksStatus \/ WebUpdates
    \/ \E config \in Savable : Saves(config)
    \/ \E config \in Testable : Tests([type |-> "TEST_CONFIG", config |-> config])
    \/ Tests([type |-> "TEST"])
Sleep == SleepBegins \/ SleepTears \/ SleepMarks
Environment ==
    GotIp \/ StaDisconnected \/ AccessPoint \/ ClockSynced \/ PeerAnswers \/ PeerLost \/ CalmBegins

Next == Task \/ Web \/ Sleep \/ Environment

Spec == Init /\ [][Next]_vars

(* The task is scheduled, and commands do not come in faster than it can   *)
(* take them for ever; a server that is there answers; an attempt that     *)
(* never succeeds runs into its timeout.                                   *)
FairSpec ==
    /\ Spec
    /\ WF_vars(Task) /\ SF_vars(Drained) /\ SF_vars(ConnectTimeout)
    /\ WF_vars(PeerAnswers)

-----------------------------------------------------------------------------
(* A connection that is being made or counts as made by the task runs the  *)
(* configuration in use: nothing of an earlier profile is carried over     *)
(* into the next (vpn_manager_start stops first, vpn_wg_init keeps what it *)
(* finds).                                                                 *)
TunnelIsCurrent ==
    status = "CONNECTING" /\ tunnel # NoVpn /\ pc \notin {"tear", "mark"} => tunnel = current

(* Once the network, the server and the user are quiet, a device that may  *)
(* connect does so and stays connected, whatever the races of the three    *)
(* tasks have left behind: a status without a tunnel, a tunnel without a   *)
(* status, a status that is written late (vpn_task_fn).                    *)
MayConnect == calm /\ Open /\ synced /\ queue = <<>> /\ current \in Complete
ConnectsForGood == MayConnect ~> [](status = "CONNECTED" /\ netif /\ peer)

(* No connection stays in the making: it succeeds, times out or is gated   *)
(* ("so a bad profile doesn't hijack routing forever", vpn_manager.c:803). *)
ConnectingEnds == status = "CONNECTING" ~> status # "CONNECTING"

(* vpn_manager.h:132, "reload configuration from storage and reconcile     *)
(* state": when the commands have been carried out, the VPN is disabled    *)
(* and the status says DISCONNECTED, no tunnel is up.                      *)
DisabledMeansDown ==
    pc = "gate" /\ current = NoVpn /\ status = "DISCONNECTED" => ~(netif /\ peer)
=============================================================================
