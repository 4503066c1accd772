---------------------------- MODULE RestartLedger ----------------------------
(***************************************************************************)
(* What components/restart_tracker promises to the rest of the firmware:   *)
(* a planned restart is remembered across the reset, and every other reset *)
(* with an abnormal cause is counted.  The detailed record (history ring,  *)
(* CRC, indices) is in RestartTracker, which implements this module; the   *)
(* boot-loop guard of SleepMode is built on it.                            *)
(***************************************************************************)
EXTENDS Naturals

CONSTANTS
    Requests,         \* reason/source/flags triples a restart is asked with
    NoRequest,        \* pending_restart.valid = 0
    ResetReasons,     \* esp_reset_reason() values
    ExpectedReasons,  \* those restart_tracker_is_unexpected_reset() accepts
    GuardThreshold    \* the count the boot-loop guard compares with (3)

ASSUME LedgerAssumption ==
    /\ NoRequest \notin Requests
    /\ ExpectedReasons \subseteq ResetReasons
    /\ GuardThreshold \in Nat \ {0}

VARIABLES
    up,          \* the application runs (FALSE: between a reset and app_main)
    resetReason, \* what esp_reset_reason() will say at the next boot
    requested,   \* the planned restart on record, or NoRequest
    unexpected   \* resets nobody asked for, counted up to GuardThreshold

ledgerVars == <<up, resetReason, requested, unexpected>>

LedgerTypeOK ==
    /\ up \in BOOLEAN
    /\ resetReason \in ResetReasons
    /\ requested \in Requests \cup {NoRequest}
    /\ unexpected \in 0..GuardThreshold

CappedAt(n, bound) == IF n < bound THEN n ELSE bound

LedgerInit ==
    /\ up = FALSE
    /\ resetReason \in ResetReasons
    /\ requested = NoRequest
    /\ unexpected = 0

(* restart_tracker_mark_planned_restart: the last request wins.            *)
LedgerMark(r) ==
    /\ up
    /\ requested' = r
    /\ UNCHANGED <<up, resetReason, unexpected>>

(* The chip resets.  The ledger lives in RAM that only survives while it   *)
(* stays powered and is not hit in the middle of an update.                *)
LedgerReset(reason) ==
    /\ up
    /\ up' = FALSE
    /\ resetReason' = reason
    /\ \/ UNCHANGED <<requested, unexpected>>
       \/ requested' = NoRequest /\ unexpected' = 0

(* restart_tracker_init: attribute the reset, then forget the request.     *)
LedgerBoot ==
    /\ ~up
    /\ up' = TRUE
    /\ requested' = NoRequest
    /\ unexpected' = IF requested = NoRequest /\ resetReason \notin ExpectedReasons
                       THEN CappedAt(unexpected + 1, GuardThreshold)
                       ELSE unexpected
    /\ UNCHANGED resetReason

LedgerNext ==
    \/ \E r \in Requests : LedgerMark(r)
    \/ \E reason \in ResetReasons : LedgerReset(reason)
    \/ LedgerBoot

LedgerSpec == LedgerInit /\ [][LedgerNext]_ledgerVars
=============================================================================
