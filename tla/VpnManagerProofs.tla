-------------------------- MODULE VpnManagerProofs --------------------------
(***************************************************************************)
(* For any number of profiles and any length of queue: VpnManager keeps    *)
(* its types, and a connection in the making never runs the configuration  *)
(* of an earlier one.                                                      *)
(***************************************************************************)
EXTENDS VpnManager, SequenceTheorems, TLAPS

(* vpn_manager_start has been through its stop, with a configuration that  *)
(* makes the stop tear the old context down; nobody else makes a context.  *)
StartsClean ==
    /\ pc = "tear" /\ then = "start" => current # NoVpn
    /\ pc = "mark" /\ then = "start" => tunnel = NoVpn
    /\ pc = "start" => tunnel = NoVpn

IInv == TypeOK /\ StartsClean /\ TunnelIsCurrent

USE DEF task, wireguard, bits

LEMMA InitInv == Init => IInv
<1>. SUFFICES ASSUME Init PROVE IInv
  OBVIOUS
<1>1. saved \in Configs \cup {NoFile} /\ current \in Configs
  BY VpnAssumption DEF Init, VpnAssumption, Configs
<1>2. queue \in Seq(Command) /\ Len(queue) <= QueueSize
  BY VpnAssumption DEF Init, VpnAssumption
<1>3. tunnel \in Configs
  BY DEF Init, Configs
<1>4. TypeOK
  BY <1>1, <1>2, <1>3 DEF Init, TypeOK, Statuses, Places
<1>5. StartsClean /\ TunnelIsCurrent
  BY DEF Init, StartsClean, TunnelIsCurrent
<1>. QED
  BY <1>4, <1>5 DEF IInv

(* The queue holds commands, and never more than it has places.            *)
QueueOK == queue \in Seq(Command) /\ Len(queue) <= QueueSize

LEMMA PostTyped ==
    ASSUME QueueOK, NEW command \in Command, Post(command)
    PROVE  QueueOK'
BY VpnAssumption DEF VpnAssumption, QueueOK, Post

LEMMA TakeTyped ==
    ASSUME QueueOK, queue # <<>>
    PROVE  /\ Head(queue) \in Command
           /\ Tail(queue) \in Seq(Command)
           /\ Len(Tail(queue)) <= QueueSize
<1>1. Len(queue) \in Nat /\ queue \in Seq(Command)
  BY DEF QueueOK
<1>2. Head(queue) \in Command /\ Tail(queue) \in Seq(Command) /\ Len(Tail(queue)) = Len(queue) - 1
  BY <1>1, HeadTailProperties
<1>. QED
  BY <1>1, <1>2, VpnAssumption DEF QueueOK, VpnAssumption

LEMMA BumpedTyped == ASSUME backoff \in Nat PROVE Bumped \in Nat
BY VpnAssumption DEF VpnAssumption, Bumped

(* The commands: a configuration is replaced only while nothing is being   *)
(* connected, or on the way to a stop.                                     *)
LEMMA CommandStep ==
    ASSUME IInv, Drained \/ Reload \/ Test \/ TestConfig
    PROVE  IInv'
<1>. USE DEF IInv
<1>1. CASE Drained
  <2>1. TypeOK'
    BY <1>1 DEF TypeOK, Drained, Goto, Places
  <2>. QED
    BY <1>1, <2>1 DEF Drained, Goto, StartsClean, TunnelIsCurrent
<1>2. CASE Reload
  <2>1. /\ pc = "drain" /\ queue # <<>> /\ queue' = Tail(queue)
        /\ UNCHANGED <<saved, status, started, testOnce, update, sleeper, wireguard, bits, calm>>
    BY <1>2 DEF Reload, Take
  <2>2. /\ current' \in Configs /\ backoff' \in Nat
        /\ \/ pc' = "tear" /\ then' = "drain"
           \/ UNCHANGED <<pc, then>> /\ (current' = current \/ status \notin Up)
    BY <1>2 DEF Reload, Stop, TypeOK
  <2>3. TypeOK'
    BY <2>1, <2>2, TakeTyped DEF TypeOK, Places, QueueOK
  <2>. QED
    BY <2>1, <2>2, <2>3 DEF StartsClean, TunnelIsCurrent, Up
<1>3. CASE Test
  <2>1. /\ pc = "drain" /\ queue # <<>> /\ queue' = Tail(queue)
        /\ testOnce' \in BOOLEAN /\ backoff' = 0
        /\ \/ pc' = "tear" /\ then' = "drain"
           \/ UNCHANGED <<pc, then>>
        /\ UNCHANGED <<saved, current, status, started, update, sleeper, wireguard, bits, calm>>
    BY <1>3 DEF Test, Take, Stop
  <2>2. TypeOK'
    BY <2>1, TakeTyped DEF TypeOK, Places, QueueOK
  <2>. QED
    BY <2>1, <2>2 DEF StartsClean, TunnelIsCurrent
<1>4. CASE TestConfig
  <2>1. /\ pc = "drain" /\ queue # <<>> /\ queue' = Tail(queue)
        /\ Head(queue).type = "TEST_CONFIG" /\ current' = Head(queue).config
        /\ testOnce' \in BOOLEAN /\ backoff' = 0
        /\ \/ pc' = "tear" /\ then' = "drain"
           \/ UNCHANGED <<pc, then>> /\ status \notin Up
        /\ UNCHANGED <<saved, status, started, update, sleeper, wireguard, bits, calm>>
    BY <1>4 DEF TestConfig, Take, Stop
  <2>2. Head(queue) \in Command
    BY <2>1, TakeTyped DEF TypeOK, QueueOK
  <2>3. current' \in Configs
    BY <2>1, <2>2 DEF Command
  <2>4. TypeOK'
    BY <2>1, <2>3, TakeTyped DEF TypeOK, Places, QueueOK
  <2>. QED
    BY <2>1, <2>4 DEF StartsClean, TunnelIsCurrent, Up
<1>. QED
  BY <1>1, <1>2, <1>3, <1>4

(* The steps that only move the task, and may change its back-off.         *)
LEMMA DecideStep ==
    ASSUME IInv,
           \/ Gated \/ BackingOff \/ AwaitClock \/ NothingToStart \/ Attempt
           \/ WgInitFails \/ ConnectTimeout \/ StillInTime \/ PeerFine \/ PeerDown
           \/ CountBackoff
    PROVE  IInv'
<1>. USE DEF IInv
<1>1. /\ UNCHANGED <<saved, current, status, started, queue, update, sleeper, wireguard, bits, calm>>
      /\ pc \in {"gate", "init", "timeout", "end"}
  BY DEF Gated, BackingOff, AwaitClock, NothingToStart, Attempt, WgInitFails, ConnectTimeout,
         StillInTime, PeerFine, PeerDown, CountBackoff, Decide, Idle, Connected
<1>2. /\ backoff' \in Nat /\ testOnce' = testOnce
      /\ \/ pc' \in {"drain", "end", "fail"} /\ UNCHANGED then
         \/ pc' = "tear" /\ then' \in {"drain", "end"}
         \/ pc' = "tear" /\ then' = "start" /\ current \in Complete
  BY BumpedTyped
  DEF TypeOK, Gated, BackingOff, AwaitClock, NothingToStart, Attempt, WgInitFails,
      ConnectTimeout, StillInTime, PeerFine, PeerDown, CountBackoff, Goto, Stop
<1>3. TypeOK'
  BY <1>1, <1>2 DEF TypeOK, Places
<1>4. current \in Complete => current # NoVpn
  BY VpnAssumption DEF VpnAssumption
<1>. QED
  BY <1>1, <1>2, <1>3, <1>4 DEF StartsClean, TunnelIsCurrent

LEMMA StopStep == ASSUME IInv, TaskTears \/ TaskMarks PROVE IInv'
<1>. USE DEF IInv
<1>1. CASE TaskTears
  <2>1. /\ pc = "tear" /\ pc' = "mark" /\ then' = then
        /\ UNCHANGED <<saved, current, status, started, testOnce, backoff, queue, update,
                       sleeper, bits, calm>>
        /\ tunnel' \in {tunnel, NoVpn} /\ netif' \in {netif, FALSE} /\ peer' \in {peer, FALSE}
        /\ current # NoVpn => tunnel' = NoVpn
    BY <1>1 DEF TaskTears, Goto, Teardown
  <2>2. netif' \in BOOLEAN /\ peer' \in BOOLEAN /\ tunnel' \in Configs
    BY <2>1 DEF TypeOK, Configs
  <2>3. TypeOK'
    BY <2>1, <2>2 DEF TypeOK, Places
  <2>. QED
    BY <2>1, <2>3 DEF StartsClean, TunnelIsCurrent
<1>2. CASE TaskMarks
  <2>1. /\ pc = "mark" /\ pc' = then /\ then' = "drain"
        /\ status' = "DISCONNECTED" /\ started' = FALSE
        /\ UNCHANGED <<saved, current, testOnce, backoff, queue, update, sleeper, wireguard,
                       bits, calm>>
    BY <1>2 DEF TaskMarks, MarkDisconnected
  <2>2. TypeOK'
    BY <2>1 DEF TypeOK, Places, Statuses
  <2>. QED
    BY <2>1, <2>2 DEF TypeOK, StartsClean, TunnelIsCurrent
<1>. QED
  BY <1>1, <1>2

LEMMA StartStep ==
    ASSUME IInv, StartMarks \/ WgInit \/ WgStart \/ WgStartFails \/ StartFails
    PROVE  IInv'
<1>. USE DEF IInv
<1>1. CASE StartMarks
  <2>1. TypeOK'
    BY <1>1 DEF TypeOK, StartMarks, Goto, Places, Statuses
  <2>. QED
    BY <1>1, <2>1 DEF StartMarks, Goto, StartsClean, TunnelIsCurrent
<1>2. CASE WgInit
  <2>1. TypeOK'
    BY <1>2 DEF TypeOK, WgInit, Goto, Places
  <2>. QED
    BY <1>2, <2>1 DEF WgInit, Goto, StartsClean, TunnelIsCurrent
<1>3. CASE WgStart
  <2>1. TypeOK'
    BY <1>3 DEF TypeOK, WgStart, Goto, Places
  <2>. QED
    BY <1>3, <2>1 DEF WgStart, Goto, StartsClean, TunnelIsCurrent
<1>4. CASE WgStartFails
  <2>1. netif' \in BOOLEAN
    BY <1>4 DEF WgStartFails, TypeOK
  <2>2. TypeOK'
    BY <1>4, <2>1 DEF TypeOK, WgStartFails, Goto, Places
  <2>. QED
    BY <1>4, <2>2 DEF WgStartFails, Goto, StartsClean, TunnelIsCurrent
<1>5. CASE StartFails
  <2>1. TypeOK'
    BY <1>5, BumpedTyped DEF TypeOK, StartFails, Goto, Places, Statuses
  <2>. QED
    BY <1>5, <2>1 DEF StartFails, Goto, StartsClean, TunnelIsCurrent
<1>. QED
  BY <1>1, <1>2, <1>3, <1>4, <1>5

(* vpn_manager_update_status never makes a status CONNECTING.              *)
LEMMA UpdateTyped ==
    ASSUME IInv, NEW c \in {"task", "web"}, UpdateWrites(c)
    PROVE  /\ update' \in [{"task", "web"} -> {"idle", "up", "down"}]
           /\ status' \in Statuses /\ started' \in BOOLEAN
           /\ status' = "CONNECTING" => status = "CONNECTING"
BY DEF IInv, TypeOK, UpdateWrites, Statuses

LEMMA PeerSeenTyped ==
    ASSUME TypeOK, NEW c \in {"task", "web"}, PeerSeen(c)
    PROVE  update' \in [{"task", "web"} -> {"idle", "up", "down"}]
BY DEF TypeOK, PeerSeen

LEMMA UpdateStep ==
    ASSUME IInv, Connecting \/ TaskUpdates \/ WebAsksStatus \/ WebUpdates
    PROVE  IInv'
<1>. USE DEF IInv
<1>1. CASE Connecting
  <2>1. TypeOK'
    BY <1>1, PeerSeenTyped DEF TypeOK, Connecting, Goto, Places
  <2>. QED
    BY <1>1, <2>1 DEF Connecting, Goto, StartsClean, TunnelIsCurrent
<1>2. CASE TaskUpdates
  <2>1. TypeOK'
    BY <1>2, UpdateTyped DEF TypeOK, TaskUpdates, Goto, Places
  <2>. QED
    BY <1>2, <2>1, UpdateTyped DEF TaskUpdates, Goto, StartsClean, TunnelIsCurrent
<1>3. CASE WebAsksStatus
  <2>1. TypeOK'
    BY <1>3, PeerSeenTyped DEF TypeOK, WebAsksStatus
  <2>. QED
    BY <1>3, <2>1 DEF WebAsksStatus, StartsClean, TunnelIsCurrent
<1>4. CASE WebUpdates
  <2>1. TypeOK'
    BY <1>4, UpdateTyped DEF TypeOK, WebUpdates
  <2>. QED
    BY <1>4, <2>1, UpdateTyped DEF WebUpdates, StartsClean, TunnelIsCurrent
<1>. QED
  BY <1>1, <1>2, <1>3, <1>4

LEMMA RequestStep ==
    ASSUME IInv,
           \/ \E config \in Savable : Saves(config)
           \/ \E config \in Testable : Tests([type |-> "TEST_CONFIG", config |-> config])
           \/ Tests([type |-> "TEST"])
           \/ GotIp
    PROVE  IInv'
<1>. USE DEF IInv
<1>1. PICK command \in Command :
         /\ Post(command)
         /\ saved' \in Savable \cup {saved} /\ sta' \in {TRUE, sta}
         /\ UNCHANGED <<current, status, started, task, update, sleeper, wireguard, ap, synced, calm>>
  <2>1. CASE \E config \in Savable : Saves(config)
    <3>1. [type |-> "RELOAD"] \in Command
      BY DEF Command
    <3>. QED
      BY <2>1, <3>1 DEF Saves
  <2>2. CASE \E config \in Testable : Tests([type |-> "TEST_CONFIG", config |-> config])
    <3>1. PICK config \in Testable : Tests([type |-> "TEST_CONFIG", config |-> config])
      BY <2>2
    <3>2. [type |-> "TEST_CONFIG", config |-> config] \in Command
      BY VpnAssumption DEF VpnAssumption, Command
    <3>. QED
      BY <3>1, <3>2 DEF Tests
  <2>3. CASE Tests([type |-> "TEST"])
    <3>1. [type |-> "TEST"] \in Command
      BY DEF Command
    <3>. QED
      BY <2>3, <3>1 DEF Tests
  <2>4. CASE GotIp
    <3>1. [type |-> "RELOAD"] \in Command
      BY DEF Command
    <3>. QED
      BY <2>4, <3>1 DEF GotIp
  <2>. QED
    BY <2>1, <2>2, <2>3, <2>4
<1>2. QueueOK'
  BY <1>1, PostTyped DEF TypeOK, QueueOK
<1>3. saved' \in Configs \cup {NoFile} /\ sta' \in BOOLEAN
  BY <1>1, VpnAssumption DEF TypeOK, VpnAssumption
<1>4. TypeOK'
  BY <1>1, <1>2, <1>3 DEF TypeOK, QueueOK
<1>. QED
  BY <1>1, <1>4 DEF StartsClean, TunnelIsCurrent

LEMMA SurroundingStep ==
    ASSUME IInv,
           \/ Sleep \/ StaDisconnected \/ AccessPoint \/ ClockSynced
           \/ PeerAnswers \/ PeerLost \/ CalmBegins
    PROVE  IInv'
<1>. USE DEF IInv
<1>1. /\ UNCHANGED <<saved, current, task, queue, update>>
      /\ sleeper' \in {sleeper, "tear", "mark", "down"}
      /\ sta' \in BOOLEAN /\ ap' \in BOOLEAN /\ synced' \in BOOLEAN /\ calm' \in BOOLEAN
      /\ netif' \in BOOLEAN /\ peer' \in BOOLEAN /\ started' \in BOOLEAN
  BY DEF TypeOK, Sleep, SleepBegins, SleepTears, SleepMarks, Teardown, MarkDisconnected,
         StaDisconnected, AccessPoint, ClockSynced, PeerAnswers, PeerLost, CalmBegins
<1>2. status' \in {status, "DISCONNECTED"} /\ tunnel' \in {tunnel, NoVpn}
  BY DEF Sleep, SleepBegins, SleepTears, SleepMarks, Teardown, MarkDisconnected,
         StaDisconnected, AccessPoint, ClockSynced, PeerAnswers, PeerLost, CalmBegins
<1>3. TypeOK'
  BY <1>1, <1>2 DEF TypeOK, Statuses, Configs
<1>. QED
  BY <1>1, <1>2, <1>3 DEF StartsClean, TunnelIsCurrent

LEMMA NextInv == IInv /\ [Next]_vars => IInv'
<1>. SUFFICES ASSUME IInv, [Next]_vars PROVE IInv'
  OBVIOUS
<1>1. CASE Task
  BY <1>1, CommandStep, DecideStep, StopStep, StartStep, UpdateStep DEF Task
<1>2. CASE Web
  BY <1>2, UpdateStep, RequestStep DEF Web
<1>3. CASE Sleep
  BY <1>3, SurroundingStep
<1>4. CASE Environment
  BY <1>4, RequestStep, SurroundingStep DEF Environment
<1>5. CASE UNCHANGED vars
  BY <1>5 DEF vars, IInv, TypeOK, StartsClean, TunnelIsCurrent
<1>. QED
  BY <1>1, <1>2, <1>3, <1>4, <1>5 DEF Next

LEMMA Invariance == Spec => []IInv
<1>. QED
  BY InitInv, NextInv, PTL DEF Spec

(* Every variable stays in its range, and the command queue within its     *)
(* size (vpn_manager_init, xQueueSend with no wait).                       *)
THEOREM TypeCorrect == Spec => []TypeOK
<1>1. IInv => TypeOK
  BY DEF IInv
<1>. QED
  BY <1>1, Invariance, PTL

(* A connection in the making runs the configuration in use, whatever the  *)
(* web server and the power manager do between a stop and the start that   *)
(* follows (vpn_manager_start, vpn_wg_init).                               *)
THEOREM ConnectsCurrent == Spec => []TunnelIsCurrent
<1>1. IInv => TunnelIsCurrent
  BY DEF IInv
<1>. QED
  BY <1>1, Invariance, PTL
=============================================================================
