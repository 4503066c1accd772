---------------------------- MODULE RestartTracker ----------------------------
(***************************************************************************)
(* components/restart_tracker/restart_tracker.c: the reset record kept in  *)
(* no-init PSRAM.  restart_tracker_init runs first thing at every boot,    *)
(* writes one slot of a ring of HistoryLen records and attributes the      *)
(* reset; restart_tracker_restart marks a planned restart and then resets. *)
(* The two halves of it are separate steps: another task may mark its own  *)
(* restart, or the chip may crash, between them.                           *)
(***************************************************************************)
EXTENDS Integers, FiniteSets

CONSTANTS
    HistoryLen,       \* RESTART_TRACKER_HISTORY_LEN (8)
    Requests,         \* reason/source/flags triples a restart is asked with
    NoRequest,        \* pending_restart.valid = 0
    ResetReasons,     \* esp_reset_reason() values
    ExpectedReasons,  \* sw, poweron, deepsleep
    SwReset,          \* the reason esp_restart() produces
    GuardThreshold,   \* the count light_sleep_task compares with
    MaxBoots          \* bound on the boots one record lives through

ASSUME TrackerAssumption ==
    /\ HistoryLen \in Nat \ {0}
    /\ NoRequest \notin Requests
    /\ SwReset \in ResetReasons
    /\ ExpectedReasons \subseteq ResetReasons
    /\ GuardThreshold \in Nat \ {0}

VARIABLES
    running,         \* app_main has passed restart_tracker_init
    resetReason,     \* esp_reset_reason() of the coming or current boot
    intact,          \* s_restart_state passes magic, version, length and CRC
    s_restart_state, \* restart_tracker_state_t
    asked            \* history variable: last restart asked for since boot

vars == <<running, resetReason, intact, s_restart_state, asked>>

Slots == 0..(HistoryLen - 1)
Request == Requests \cup {NoRequest}
EmptyRecord == [sequence |-> 0, reason |-> SwReset, planned |-> NoRequest]
BootRecord == [sequence : Nat, reason : ResetReasons, planned : Request]

(* restart_tracker_reset_state *)
FreshState ==
    [boot_count             |-> 0,
     unexpected_reset_count |-> 0,
     record_sequence        |-> 0,
     next_history_index     |-> 0,
     latest_history_index   |-> 0,
     pending_restart        |-> NoRequest,
     history                |-> [slot \in Slots |-> EmptyRecord]]

TrackerState ==
    [boot_count : Nat, unexpected_reset_count : Nat, record_sequence : Nat,
     next_history_index : Slots, latest_history_index : Slots,
     pending_restart : Request, history : [Slots -> BootRecord]]

(* restart_tracker_state_is_valid: what both writers start from *)
ValidState == IF intact THEN s_restart_state ELSE FreshState

(* restart_tracker_is_unexpected_reset *)
IsUnexpectedReset(reason) == reason \notin ExpectedReasons

TypeOK ==
    /\ running \in BOOLEAN
    /\ resetReason \in ResetReasons
    /\ intact \in BOOLEAN
    /\ s_restart_state \in TrackerState
    /\ asked \in Request

-----------------------------------------------------------------------------
(* First power-up: the no-init memory holds noise.                         *)
Init ==
    /\ running = FALSE
    /\ resetReason \in ResetReasons
    /\ intact = FALSE
    /\ s_restart_state = FreshState
    /\ asked = NoRequest

(* seeded fault: a planned crash counts, too                               *)
UnexpectedWhenPlanned(rec) == IsUnexpectedReset(rec.reason)

Unexpected(rec) == rec.planned = NoRequest /\ IsUnexpectedReset(rec.reason)

(* seeded fault: the ring does not wrap                                    *)
NextSlotUnwrapped(slot) == slot + 1

(* seeded fault: the ring is one slot short                                *)
NextSlotShort(slot) == IF slot + 1 >= HistoryLen - 1 THEN 0 ELSE slot + 1

NextSlot(slot) == (slot + 1) % HistoryLen

(* seeded fault: the request is not consumed                               *)
PendingAfterBootKept(s) == s.pending_restart

PendingAfterBoot(s) == NoRequest

(* restart_tracker_init *)
Boot ==
    /\ ~running
    /\ LET s    == ValidState
           slot == s.next_history_index % HistoryLen
           rec  == [sequence |-> s.record_sequence + 1,
                    reason   |-> resetReason,
                    planned  |-> s.pending_restart]
       IN s_restart_state' =
            [boot_count             |-> s.boot_count + 1,
             unexpected_reset_count |->
               s.unexpected_reset_count + IF Unexpected(rec) THEN 1 ELSE 0,
             record_sequence        |-> s.record_sequence + 1,
             next_history_index     |-> NextSlot(slot),
             latest_history_index   |-> slot,
             pending_restart        |-> PendingAfterBoot(s),
             history                |-> [s.history EXCEPT ![slot] = rec]]
    /\ intact' = TRUE
    /\ running' = TRUE
    /\ asked' = NoRequest
    /\ UNCHANGED resetReason

(* restart_tracker_mark_planned_restart, from any task *)
MarkPlannedRestart(r) ==
    /\ running
    /\ s_restart_state' = [ValidState EXCEPT !.pending_restart = r]
    /\ intact' = TRUE
    /\ asked' = r
    /\ UNCHANGED <<running, resetReason>>

(* The reset itself.  The record is lost when the PSRAM loses power or the *)
(* reset hits a half-written update, whose CRC then does not match.        *)
(* MaxBoots only bounds how long TLC lets a record survive.                *)
Reset(reason) ==
    /\ running
    /\ running' = FALSE
    /\ resetReason' = reason
    /\ \/ /\ s_restart_state.boot_count < MaxBoots
          /\ UNCHANGED <<intact, s_restart_state>>
       \/ intact' = FALSE /\ s_restart_state' = FreshState
    /\ UNCHANGED asked

(* esp_restart at the end of restart_tracker_restart *)
EspRestart ==
    /\ asked # NoRequest
    /\ Reset(SwReset)

(* A panic, a watchdog, a brownout, a reset button, a power cycle, at any  *)
(* moment: also between the two halves of restart_tracker_restart.         *)
UnaskedReset == \E reason \in ResetReasons : Reset(reason)

Next ==
    \/ Boot
    \/ \E r \in Requests : MarkPlannedRestart(r)
    \/ EspRestart
    \/ UnaskedReset

Spec == Init /\ [][Next]_vars

-----------------------------------------------------------------------------
(* Boots since the record in a slot was written, when `next' is the slot   *)
(* to be written next; the newest has age 0.                               *)
AgeFrom(next, slot) ==
    IF slot < next THEN next - 1 - slot ELSE next - 1 - slot + HistoryLen

Age(slot) == AgeFrom(s_restart_state.next_history_index, slot)

(* The ring holds the last HistoryLen boots, in order and without a gap,   *)
(* and the latest index names the newest (restart_tracker_init, read back  *)
(* by restart_tracker_get_latest_record and the status page).              *)
RingHoldsLatestBoots ==
    intact =>
      LET s == s_restart_state
      IN /\ \A slot \in Slots :
              Age(slot) < s.boot_count =>
                s.history[slot].sequence = s.boot_count - Age(slot)
         /\ s.boot_count > 0 => Age(s.latest_history_index) = 0

UnexpectedSlots ==
    {slot \in Slots :
        LET rec == s_restart_state.history[slot]
        IN rec.sequence > 0 /\ rec.planned = NoRequest
             /\ rec.reason \notin ExpectedReasons}

(* The counter and the history tell the same story: as long as the ring    *)
(* has not wrapped the counter is the number of unexpected records in it,  *)
(* afterwards it is at least that number.                                  *)
CounterAgreesWithHistory ==
    LET s == s_restart_state
        n == Cardinality(UnexpectedSlots)
    IN /\ n <= s.unexpected_reset_count
       /\ s.boot_count <= HistoryLen => n = s.unexpected_reset_count

(* A boot is recorded as planned exactly when somebody asked for a restart *)
(* since the boot before and the record survived: a request is consumed by *)
(* one boot and never explains a later crash.                              *)
PlannedMeansAsked ==
    [][~running /\ running' =>
         LET rec == s_restart_state'.history[s_restart_state'.latest_history_index]
         IN rec.planned = IF intact THEN asked ELSE NoRequest]_vars

-----------------------------------------------------------------------------
(* The tracker implements the ledger the rest of the firmware relies on.   *)
LedgerRequest == IF intact THEN s_restart_state.pending_restart ELSE NoRequest

LedgerCount ==
    IF ~intact THEN 0
    ELSE IF s_restart_state.unexpected_reset_count < GuardThreshold
           THEN s_restart_state.unexpected_reset_count
           ELSE GuardThreshold

Ledger == INSTANCE RestartLedger WITH
    up <- running, requested <- LedgerRequest, unexpected <- LedgerCount

(* Every behaviour of the detailed record is one of the ledger: a refined  *)
(* restart request, reset or boot does to the planned request and to the   *)
(* capped counter what RestartLedger says.                                 *)
ImplementsLedger == Ledger!LedgerSpec
=============================================================================
