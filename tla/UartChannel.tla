----------------------------- MODULE UartChannel -----------------------------
(***************************************************************************)
(* What main/elm327.c promises to those who talk to the OBD chip: commands *)
(* wait in a bounded queue, the worker has one of them at a time and takes *)
(* the next when that one is done or dropped, everything written to        *)
(* UART 1 is a dialogue of one task under the mutex, which is free between *)
(* one holder and the next.  PowerDown and Polling look at the channel     *)
(* from different sides; both implement it.                                *)
(***************************************************************************)
EXTENDS Naturals

CONSTANTS
    QueueSize,  \* ELM327_CMD_QUEUE_SIZE
    WorkerTask, \* uart1_event_task
    Callers,    \* tasks that talk to the chip themselves
    Nobody,
    MayRestart  \* the device may restart

VARIABLES
    waiting,  \* commands in elm327_cmd_queue
    hand,     \* what the worker has: nothing, a command, or a dialogue about it
    holder    \* of xuart1_semaphore

channelVars == <<waiting, hand, holder>>

ChannelInit == waiting = 0 /\ hand = "empty" /\ holder = Nobody

(* elm327_process_cmd: the caller blocks while the queue is full.          *)
Queue ==
    /\ waiting < QueueSize /\ waiting' = waiting + 1
    /\ UNCHANGED <<hand, holder>>

Fetch ==
    /\ hand = "empty" /\ hand' = "command"
    /\ waiting > 0 /\ waiting' = waiting - 1
    /\ UNCHANGED holder

(* The device sleeps, or the mutex is not to be had in time.               *)
Discard ==
    /\ hand = "command" /\ hand' = "empty"
    /\ UNCHANGED <<waiting, holder>>

Execute ==
    /\ hand = "command" /\ hand' = "dialogue"
    /\ holder = Nobody /\ holder' = WorkerTask
    /\ UNCHANGED waiting

Finish ==
    /\ hand = "dialogue" /\ hand' = "empty"
    /\ holder = WorkerTask /\ holder' = Nobody
    /\ UNCHANGED waiting

(* elm327_run_command, elm327_sleep, elm327_hardreset_chip,                *)
(* elm327_set_baudrate.                                                    *)
Borrow ==
    /\ holder = Nobody /\ holder' \in Callers
    /\ UNCHANGED <<waiting, hand>>

Return ==
    /\ holder \in Callers /\ holder' = Nobody
    /\ UNCHANGED <<waiting, hand>>

StartAgain ==
    /\ MayRestart
    /\ waiting' = 0 /\ hand' = "empty" /\ holder' = Nobody

ChannelNext ==
    \/ Queue \/ Fetch \/ Discard \/ Execute \/ Finish
    \/ Borrow \/ Return \/ StartAgain

ChannelSpec == ChannelInit /\ [][ChannelNext]_channelVars
=============================================================================
