----------------------------- MODULE PowerCycle ------------------------------
(***************************************************************************)
(* What light_sleep_task (main/sleep_mode.c) promises the other tasks, who *)
(* see of it the two bits of dev_status, the queue with the published      *)
(* state, and the interfaces: the device lets go of DEV_AWAKE before it    *)
(* announces DEV_SLEEP, announces before anything is taken down, publishes *)
(* SLEEPING when everything is down, and comes back by a reset only.       *)
(* SleepMode implements it with several of these steps at once, PowerDown  *)
(* one after the other.                                                    *)
(***************************************************************************)

CONSTANT AtOnce  \* steps of the shutdown may be joined

VARIABLES
    up,        \* the application runs
    awake,     \* DEV_AWAKE is set
    asleep,    \* DEV_SLEEP is set
    online,    \* CAN, VPN, mDNS, Wi-Fi and BLE not yet taken down
    published  \* sleep_state_queue; "NONE" while it is empty

cycleVars == <<up, awake, asleep, online, published>>

AwakeStates   == {"NORMAL", "LOW_VOLTAGE"}
DormantStates == {"SLEEPING", "WAKE_PENDING"}

CycleInit ==
    /\ awake = up
    /\ asleep = FALSE /\ online = TRUE
    /\ published = "NONE"

(* app_main.                                                               *)
ComeUp ==
    /\ up = FALSE /\ up' = TRUE
    /\ awake' = TRUE
    /\ UNCHANGED <<asleep, online, published>>

(* The state machine stays in, or returns to, a state in which all works.  *)
Report ==
    /\ up = TRUE /\ awake = TRUE /\ online = TRUE
    /\ published' \in AwakeStates
    /\ UNCHANGED <<up, awake, asleep, online>>

(* DEV_AWAKE goes, then DEV_SLEEP comes.                                   *)
LetGo ==
    /\ up = TRUE /\ online = TRUE
    /\ awake' = FALSE
    /\ \/ asleep' = asleep
       \/ asleep' = TRUE /\ (AtOnce \/ awake = FALSE)
    /\ UNCHANGED <<up, online, published>>

(* Everything is down, and whoever looks is told so.                       *)
TakeDown ==
    /\ up = TRUE
    /\ AtOnce \/ asleep = TRUE
    /\ awake' = FALSE /\ asleep' = TRUE
    /\ online' = FALSE
    /\ published' = "SLEEPING"
    /\ UNCHANGED up

(* Waiting for a stable voltage, and dropping back.                        *)
Bounce ==
    /\ online = FALSE /\ published \in DormantStates
    /\ published' \in DormantStates
    /\ UNCHANGED <<up, awake, asleep, online>>

(* A reset, with the boot that follows or without it.                      *)
StartAfresh ==
    /\ up = TRUE /\ up' \in BOOLEAN
    /\ awake' = up'
    /\ asleep' = FALSE /\ online' = TRUE
    /\ published' = "NONE"

CycleNext == ComeUp \/ Report \/ LetGo \/ TakeDown \/ Bounce \/ StartAfresh

CycleSpec == CycleInit /\ [][CycleNext]_cycleVars
=============================================================================
