------------------------- MODULE RestartTrackerProofs -------------------------
(***************************************************************************)
(* Proofs about RestartTracker, for every ring length, every set of        *)
(* requests and reset reasons, and every number of boots.                  *)
(***************************************************************************)
EXTENDS RestartTracker, FiniteSetTheorems, TLAPS

(* What the index arithmetic of restart_tracker_init computes: a slot is   *)
(* its own remainder, and the next slot wraps at the end of the ring.      *)
LEMMA SlotArithmetic ==
    ASSUME NEW slot \in Slots
    PROVE  /\ slot % HistoryLen = slot
           /\ (slot + 1) % HistoryLen = IF slot + 1 = HistoryLen THEN 0 ELSE slot + 1
           /\ (slot + 1) % HistoryLen \in Slots
  BY TrackerAssumption DEF Slots

(* Advancing the write index ages every other record by one.              *)
LEMMA AgeShift ==
    ASSUME NEW next \in Slots, NEW slot \in Slots
    PROVE  /\ AgeFrom(next, slot) \in Nat
           /\ AgeFrom((next + 1) % HistoryLen, next) = 0
           /\ slot # next =>
                AgeFrom((next + 1) % HistoryLen, slot) = AgeFrom(next, slot) + 1
  <1>1. /\ HistoryLen \in Nat \ {0}
        /\ (next + 1) % HistoryLen = IF next + 1 = HistoryLen THEN 0 ELSE next + 1
    BY SlotArithmetic, TrackerAssumption
  <1>2. CASE next + 1 = HistoryLen
    BY <1>1, <1>2 DEF AgeFrom, Slots
  <1>3. CASE next + 1 # HistoryLen
    BY <1>1, <1>3 DEF AgeFrom, Slots
  <1>4. QED
    BY <1>2, <1>3

(* restart_tracker_reset_state yields a well-formed record, and both       *)
(* writers start from one.                                                 *)
LEMMA FreshStateType == FreshState \in TrackerState
  BY TrackerAssumption
  DEF FreshState, TrackerState, EmptyRecord, BootRecord, Request, Slots

LEMMA ValidStateType == TypeOK => ValidState \in TrackerState
  BY FreshStateType DEF TypeOK, ValidState

(* The record restart_tracker_init writes, with the slot arithmetic        *)
(* resolved.                                                               *)
BootedState(s) ==
    [boot_count             |-> s.boot_count + 1,
     unexpected_reset_count |->
       s.unexpected_reset_count
         + IF s.pending_restart = NoRequest /\ IsUnexpectedReset(resetReason)
             THEN 1 ELSE 0,
     record_sequence        |-> s.record_sequence + 1,
     next_history_index     |-> (s.next_history_index + 1) % HistoryLen,
     latest_history_index   |-> s.next_history_index,
     pending_restart        |-> NoRequest,
     history                |->
       [s.history EXCEPT ![s.next_history_index] =
          [sequence |-> s.record_sequence + 1,
           reason   |-> resetReason,
           planned  |-> s.pending_restart]]]

LEMMA BootWritesBootedState ==
    TypeOK /\ Boot => s_restart_state' = BootedState(ValidState)
  <1> SUFFICES ASSUME TypeOK, Boot
               PROVE  s_restart_state' = BootedState(ValidState)
    OBVIOUS
  <1>1. ValidState.next_history_index \in Slots
    BY ValidStateType DEF TrackerState
  <1>2. ValidState.next_history_index % HistoryLen = ValidState.next_history_index
    BY <1>1, SlotArithmetic
  <1>3. QED
    BY <1>2 DEF Boot, BootedState, Unexpected, NextSlot, PendingAfterBoot

-----------------------------------------------------------------------------
(* Type correctness: every reachable reset record is well formed.          *)
THEOREM TypeCorrect == Spec => []TypeOK
  <1>1. Init => TypeOK
    BY FreshStateType DEF Init, TypeOK, Request
  <1>2. TypeOK /\ [Next]_vars => TypeOK'
    <2> SUFFICES ASSUME TypeOK, [Next]_vars
                 PROVE  TypeOK'
      OBVIOUS
    <2>1. CASE Boot
      <3>1. s_restart_state' = BootedState(ValidState)
        BY <2>1, BootWritesBootedState
      <3>2. ValidState \in TrackerState /\ resetReason \in ResetReasons
        BY ValidStateType DEF TypeOK
      <3>3. (ValidState.next_history_index + 1) % HistoryLen \in Slots
        BY <3>2, SlotArithmetic DEF TrackerState
      <3>4. BootedState(ValidState) \in TrackerState
        BY <3>2, <3>3 DEF BootedState, TrackerState, BootRecord, Request
      <3>5. QED
        BY <2>1, <3>1, <3>2, <3>4 DEF Boot, TypeOK, Request
    <2>2. ASSUME NEW r \in Requests, MarkPlannedRestart(r)
          PROVE  TypeOK'
      <3>1. ValidState \in TrackerState
        BY ValidStateType
      <3>2. [ValidState EXCEPT !.pending_restart = r] \in TrackerState
        BY <3>1 DEF TrackerState, Request
      <3>3. QED
        BY <2>2, <3>2 DEF MarkPlannedRestart, TypeOK, Request
    <2>3. ASSUME NEW reason \in ResetReasons, Reset(reason)
          PROVE  TypeOK'
      BY <2>3, FreshStateType DEF Reset, TypeOK
    <2>4. CASE UNCHANGED vars
      BY <2>4 DEF vars, TypeOK
    <2>5. QED
      BY <2>1, <2>2, <2>3, <2>4, TrackerAssumption DEF Next, EspRestart, UnaskedReset
  <1>3. QED
    BY <1>1, <1>2, PTL DEF Spec

-----------------------------------------------------------------------------
(* The two counters of the record count the same boots.                    *)
SequenceIsBootCount ==
    intact => s_restart_state.record_sequence = s_restart_state.boot_count

RingInv == SequenceIsBootCount /\ RingHoldsLatestBoots

(* One boot shifts the ages of the ring by one and writes age 0: the       *)
(* heart of the ring argument.                                             *)
LEMMA BootKeepsRing ==
    ASSUME TypeOK, RingInv, Boot
    PROVE  RingInv'
  <1> DEFINE s == ValidState
  <1>1. s_restart_state' = BootedState(s)
    BY BootWritesBootedState
  <1>2. s \in TrackerState
    BY ValidStateType
  <1>3. s.record_sequence = s.boot_count
    BY DEF RingInv, SequenceIsBootCount, ValidState, FreshState
  <1>4. \A slot \in Slots : AgeFrom(s.next_history_index, slot) < s.boot_count =>
          s.history[slot].sequence = s.boot_count - AgeFrom(s.next_history_index, slot)
    <2>1. CASE intact
      BY <2>1 DEF RingInv, RingHoldsLatestBoots, Age, AgeFrom, ValidState
    <2>2. CASE ~intact
      <3>1. s.next_history_index \in Slots /\ s.boot_count = 0
        BY <2>2, <1>2 DEF ValidState, FreshState, TrackerState
      <3>2. \A slot \in Slots : AgeFrom(s.next_history_index, slot) \in Nat
        BY <3>1, AgeShift
      <3>3. QED
        BY <3>1, <3>2
    <2>3. QED
      BY <2>1, <2>2
  <1> DEFINE next == s.next_history_index
             next1 == (next + 1) % HistoryLen
  <1>5. /\ next \in Slots
        /\ next1 = IF next + 1 = HistoryLen THEN 0 ELSE next + 1
    BY <1>2, SlotArithmetic DEF TrackerState
  <1>6. \A slot \in Slots : slot # next => AgeFrom(next1, slot) = AgeFrom(next, slot) + 1
    BY <1>5, AgeShift
  <1>7. AgeFrom(next1, next) = 0
    BY <1>5, AgeShift
  <1>8. /\ s_restart_state'.boot_count = s.boot_count + 1
        /\ s_restart_state'.record_sequence = s.boot_count + 1
        /\ s_restart_state'.next_history_index = next1
        /\ s_restart_state'.latest_history_index = next
        /\ s_restart_state'.history[next].sequence = s.boot_count + 1
        /\ \A slot \in Slots : slot # next =>
             s_restart_state'.history[slot] = s.history[slot]
    BY <1>1, <1>2, <1>3, <1>5 DEF BootedState, TrackerState
  <1>9. \A slot \in Slots : Age(slot)' = AgeFrom(next1, slot)
    BY <1>8 DEF Age, AgeFrom
  <1>10. ASSUME NEW slot \in Slots, Age(slot)' < s_restart_state'.boot_count
         PROVE  s_restart_state'.history[slot].sequence
                  = s_restart_state'.boot_count - Age(slot)'
    <2>0. s.boot_count \in Nat /\ HistoryLen \in Nat
      BY <1>2, TrackerAssumption DEF TrackerState
    <2>1. CASE slot = next
      BY <2>0, <2>1, <1>7, <1>8, <1>9
    <2>2. CASE slot # next
      <3>1. AgeFrom(next, slot) \in Int
        BY <1>5, AgeShift
      <3>2. Age(slot)' = AgeFrom(next, slot) + 1
        BY <2>2, <1>6, <1>9
      <3> HIDE DEF next, next1, s
      <3>3. AgeFrom(next, slot) < s.boot_count
        BY <3>1, <3>2, <2>0, <1>8, <1>10
      <3>4. s.history[slot].sequence = s.boot_count - AgeFrom(next, slot)
        BY <3>3, <1>4 DEF next
      <3>5. QED
        BY <3>1, <3>2, <3>4, <2>0, <2>2, <1>8
    <2>3. QED
      BY <2>1, <2>2
  <1>11. Age(s_restart_state.latest_history_index)' = 0
    BY <1>8, <1>7, <1>5 DEF Age, AgeFrom
  <1>12. QED
    BY <1>8, <1>10, <1>11 DEF RingInv, SequenceIsBootCount, RingHoldsLatestBoots

LEMMA RingInvHolds == Spec => []RingInv
  <1>1. Init => RingInv
    BY DEF Init, RingInv, SequenceIsBootCount, RingHoldsLatestBoots
  <1>2. TypeOK /\ RingInv /\ [Next]_vars => RingInv'
    <2> SUFFICES ASSUME TypeOK, RingInv, [Next]_vars
                 PROVE  RingInv'
      OBVIOUS
    <2>1. CASE Boot
      BY <2>1, BootKeepsRing
    <2>2. ASSUME NEW r \in Requests, MarkPlannedRestart(r)
          PROVE  RingInv'
      <3>1. ValidState \in TrackerState
        BY ValidStateType
      <3>2. s_restart_state' = [ValidState EXCEPT !.pending_restart = r]
        BY <2>2 DEF MarkPlannedRestart
      <3>3. CASE intact
        BY <3>1, <3>2, <3>3
        DEF RingInv, SequenceIsBootCount, RingHoldsLatestBoots, Age, AgeFrom, ValidState, TrackerState
      <3>4. CASE ~intact
        <4>1. /\ s_restart_state'.boot_count = 0
              /\ s_restart_state'.record_sequence = 0
              /\ s_restart_state'.next_history_index = 0
          BY <3>2, <3>4 DEF ValidState, FreshState
        <4>2. \A slot \in Slots : ~(Age(slot)' < 0)
          BY <4>1, TrackerAssumption DEF Age, AgeFrom, Slots
        <4>3. QED
          BY <4>1, <4>2 DEF RingInv, SequenceIsBootCount, RingHoldsLatestBoots
      <3>5. QED
        BY <3>3, <3>4
    <2>3. ASSUME NEW reason \in ResetReasons, Reset(reason)
          PROVE  RingInv'
      BY <2>3 DEF Reset, RingInv, SequenceIsBootCount, RingHoldsLatestBoots, Age, AgeFrom
    <2>4. CASE UNCHANGED vars
      BY <2>4 DEF vars, RingInv, SequenceIsBootCount, RingHoldsLatestBoots, Age, AgeFrom
    <2>5. QED
      BY <2>1, <2>2, <2>3, <2>4, TrackerAssumption DEF Next, EspRestart, UnaskedReset
  <1>3. QED
    BY <1>1, <1>2, TypeCorrect, PTL DEF Spec

(* The history ring always holds the last HistoryLen boots in order, for   *)
(* every ring length and every sequence of boots, crashes and restarts.    *)
THEOREM RingCorrect == Spec => []RingHoldsLatestBoots
  <1>1. RingInv => RingHoldsLatestBoots
    BY DEF RingInv
  <1>2. QED
    BY <1>1, RingInvHolds, PTL

-----------------------------------------------------------------------------
(* The records of a history that the counter stands for.                   *)
UnexpectedOf(history) ==
    {slot \in Slots :
        /\ history[slot].sequence > 0
        /\ history[slot].planned = NoRequest
        /\ history[slot].reason \notin ExpectedReasons}

LEMMA UnexpectedFinite ==
    ASSUME NEW history
    PROVE  IsFiniteSet(UnexpectedOf(history)) /\ Cardinality(UnexpectedOf(history)) \in Nat
  <1>1. IsFiniteSet(Slots)
    BY FS_Interval, TrackerAssumption DEF Slots
  <1>2. UnexpectedOf(history) \in SUBSET Slots
    BY DEF UnexpectedOf
  <1>3. IsFiniteSet(UnexpectedOf(history))
    BY <1>1, <1>2, FS_Subset
  <1>4. QED
    BY <1>3, FS_CardinalityType

(* Overwriting one slot replaces what that slot contributed, and no more.  *)
LEMMA OverwriteCount ==
    ASSUME NEW history \in [Slots -> BootRecord], NEW slot \in Slots,
           NEW rec \in BootRecord, rec.sequence > 0
    PROVE  LET old   == Cardinality(UnexpectedOf(history))
               new   == Cardinality(UnexpectedOf([history EXCEPT ![slot] = rec]))
               added == IF Unexpected(rec) THEN 1 ELSE 0
           IN  /\ new <= old + added
               /\ history[slot].sequence = 0 => new = old + added
  <1> DEFINE old == UnexpectedOf(history)
             new == UnexpectedOf([history EXCEPT ![slot] = rec])
  <1>1. IsFiniteSet(old) /\ Cardinality(old) \in Nat
    BY UnexpectedFinite
  <1>2. /\ IsFiniteSet(old \ {slot})
        /\ Cardinality(old \ {slot}) = IF slot \in old THEN Cardinality(old) - 1
                                                       ELSE Cardinality(old)
    BY <1>1, FS_RemoveElement
  <1>3. /\ IsFiniteSet((old \ {slot}) \cup {slot})
        /\ Cardinality((old \ {slot}) \cup {slot}) = Cardinality(old \ {slot}) + 1
    BY <1>2, FS_AddElement
  <1>4. history[slot].sequence = 0 => slot \notin old
    BY DEF UnexpectedOf
  <1>0. \A other \in Slots :
          [history EXCEPT ![slot] = rec][other] = IF other = slot THEN rec ELSE history[other]
    OBVIOUS
  <1>5. CASE Unexpected(rec)
    <2>1. new = (old \ {slot}) \cup {slot}
      BY <1>0, <1>5 DEF UnexpectedOf, Unexpected, IsUnexpectedReset
    <2>2. /\ Cardinality(new) <= Cardinality(old) + 1
          /\ slot \notin old => Cardinality(new) = Cardinality(old) + 1
      <3> HIDE DEF old, new
      <3>1. QED
        BY <1>1, <1>2, <1>3, <2>1
    <2>3. QED
      BY <1>4, <1>5, <2>2
  <1>6. CASE ~Unexpected(rec)
    <2>1. new = old \ {slot}
      BY <1>0, <1>6 DEF UnexpectedOf, Unexpected, IsUnexpectedReset
    <2>2. /\ Cardinality(new) <= Cardinality(old)
          /\ slot \notin old => Cardinality(new) = Cardinality(old)
      <3> HIDE DEF old, new
      <3>1. QED
        BY <1>1, <1>2, <2>1
    <2>3. QED
      <3>1. Cardinality(old) + 0 = Cardinality(old)
        BY <1>1
      <3>2. QED
        BY <1>4, <1>6, <2>2, <3>1
  <1>7. QED
    BY <1>5, <1>6

(* What CounterAgreesWithHistory needs to be inductive: the slots the ring *)
(* has not reached are empty, so the boot that writes one loses nothing,   *)
(* and a record that does not verify stands for an empty one.              *)
CounterInv ==
    /\ ~intact => s_restart_state = FreshState
    /\ \A slot \in Slots :
         Age(slot) >= s_restart_state.boot_count =>
           s_restart_state.history[slot].sequence = 0
    /\ CounterAgreesWithHistory

LEMMA FreshCount ==
    /\ Cardinality(UnexpectedOf(FreshState.history)) = 0
    /\ \A slot \in Slots : FreshState.history[slot].sequence = 0
    /\ FreshState.unexpected_reset_count = 0
  <1>1. UnexpectedOf(FreshState.history) = {}
    BY DEF UnexpectedOf, FreshState, EmptyRecord
  <1>2. QED
    BY <1>1, FS_EmptySet DEF FreshState, EmptyRecord

(* A boot ages every record and counts exactly the one it writes.          *)
LEMMA BootKeepsCounter ==
    ASSUME TypeOK, SequenceIsBootCount, CounterInv, Boot
    PROVE  CounterInv'
  <1> DEFINE s == s_restart_state
             next == s.next_history_index
             rec == [sequence |-> s.record_sequence + 1,
                     reason   |-> resetReason,
                     planned  |-> s.pending_restart]
  <1>1. ValidState = s
    BY DEF ValidState, CounterInv
  <1>2. s \in TrackerState /\ resetReason \in ResetReasons
    BY DEF TypeOK
  <1>3. /\ next \in Slots /\ HistoryLen \in Nat \ {0}
        /\ s.boot_count \in Nat /\ s.record_sequence \in Nat
        /\ s.unexpected_reset_count \in Nat
        /\ s.history \in [Slots -> BootRecord] /\ s.pending_restart \in Request
    BY <1>2, TrackerAssumption DEF TrackerState
  <1>4. rec \in BootRecord /\ rec.sequence > 0
    BY <1>2, <1>3 DEF BootRecord
  <1>5. /\ s'.boot_count = s.boot_count + 1
        /\ s'.unexpected_reset_count =
             s.unexpected_reset_count + IF Unexpected(rec) THEN 1 ELSE 0
        /\ s'.next_history_index = (next + 1) % HistoryLen
        /\ s'.history = [s.history EXCEPT ![next] = rec]
    BY <1>1, BootWritesBootedState DEF BootedState, Unexpected
  <1>6. UnexpectedSlots = UnexpectedOf(s.history) /\ UnexpectedSlots' = UnexpectedOf(s'.history)
    BY DEF UnexpectedSlots, UnexpectedOf
  <1>7. AgeFrom(next, next) = HistoryLen - 1
    BY <1>3 DEF AgeFrom, Slots
  <1>8. s.boot_count < HistoryLen => s.history[next].sequence = 0
    BY <1>3, <1>7 DEF CounterInv, Age
  <1>9. \A slot \in Slots :
          Age(slot)' >= s'.boot_count => s'.history[slot].sequence = 0
    <2> SUFFICES ASSUME NEW slot \in Slots, Age(slot)' >= s'.boot_count
                 PROVE  s'.history[slot].sequence = 0
      OBVIOUS
    <2>1. Age(slot)' = AgeFrom((next + 1) % HistoryLen, slot)
      BY <1>5 DEF Age, AgeFrom
    <2>2. slot # next
      BY <2>1, <1>3, <1>5, AgeShift
    <2>3. AgeFrom(next, slot) \in Nat /\ Age(slot)' = AgeFrom(next, slot) + 1
      BY <2>1, <2>2, <1>3, AgeShift
    <2>4. AgeFrom(next, slot) >= s.boot_count
      BY <2>3, <1>3, <1>5
    <2>5. QED
      BY <2>2, <2>4, <1>3, <1>5 DEF CounterInv, Age
  <1>10. CounterAgreesWithHistory'
    <2> DEFINE old == Cardinality(UnexpectedOf(s.history))
               new == Cardinality(UnexpectedOf(s'.history))
               added == IF Unexpected(rec) THEN 1 ELSE 0
    <2>1. old \in Nat /\ new \in Nat
      BY UnexpectedFinite
    <2>2. new <= old + added /\ (s.history[next].sequence = 0 => new = old + added)
      BY <1>3, <1>4, <1>5, OverwriteCount
    <2>3. /\ old <= s.unexpected_reset_count
          /\ s.boot_count <= HistoryLen => old = s.unexpected_reset_count
      BY <1>6 DEF CounterInv, CounterAgreesWithHistory
    <2>4. s'.unexpected_reset_count = s.unexpected_reset_count + added
      BY <1>5
    <2>5. s'.boot_count <= HistoryLen => s.boot_count < HistoryLen
      BY <1>3, <1>5
    <2> HIDE DEF old, new, added, rec
    <2>6. added \in {0, 1}
      BY DEF added
    <2>7. /\ new <= s'.unexpected_reset_count
          /\ s'.boot_count <= HistoryLen => new = s'.unexpected_reset_count
      BY <2>1, <2>2, <2>3, <2>4, <2>5, <2>6, <1>3, <1>8
    <2>8. QED
      BY <2>7, <1>6 DEF CounterAgreesWithHistory, new
  <1>11. QED
    BY <1>9, <1>10 DEF CounterInv, Boot

(* The counter and the history tell the same story, for every ring length  *)
(* and every number of boots.                                              *)
THEOREM CounterCorrect == Spec => []CounterAgreesWithHistory
  <1>1. Init => CounterInv
    BY FreshCount
    DEF Init, CounterInv, CounterAgreesWithHistory, UnexpectedSlots, UnexpectedOf
  <1>2. TypeOK /\ RingInv /\ CounterInv /\ [Next]_vars => CounterInv'
    <2> SUFFICES ASSUME TypeOK, RingInv, CounterInv, [Next]_vars
                 PROVE  CounterInv'
      OBVIOUS
    <2>1. CASE Boot
      BY <2>1, BootKeepsCounter DEF RingInv
    <2>2. ASSUME NEW r \in Requests, MarkPlannedRestart(r)
          PROVE  CounterInv'
      <3>1. /\ s_restart_state' = [s_restart_state EXCEPT !.pending_restart = r]
            /\ intact' = TRUE
        BY <2>2 DEF MarkPlannedRestart, ValidState, CounterInv
      <3>2. /\ s_restart_state'.boot_count = s_restart_state.boot_count
            /\ s_restart_state'.unexpected_reset_count = s_restart_state.unexpected_reset_count
            /\ s_restart_state'.next_history_index = s_restart_state.next_history_index
            /\ s_restart_state'.history = s_restart_state.history
        BY <3>1 DEF TypeOK, TrackerState
      <3>3. QED
        BY <3>1, <3>2
        DEF CounterInv, CounterAgreesWithHistory, UnexpectedSlots, Age, AgeFrom
    <2>3. ASSUME NEW reason \in ResetReasons, Reset(reason)
          PROVE  CounterInv'
      <3>1. CASE UNCHANGED <<intact, s_restart_state>>
        BY <3>1 DEF CounterInv, CounterAgreesWithHistory, UnexpectedSlots, Age, AgeFrom
      <3>2. CASE intact' = FALSE /\ s_restart_state' = FreshState
        BY <3>2, FreshCount
        DEF CounterInv, CounterAgreesWithHistory, UnexpectedSlots, UnexpectedOf
      <3>3. QED
        BY <2>3, <3>1, <3>2 DEF Reset
    <2>4. CASE UNCHANGED vars
      BY <2>4 DEF vars, CounterInv, CounterAgreesWithHistory, UnexpectedSlots, Age, AgeFrom
    <2>5. QED
      BY <2>1, <2>2, <2>3, <2>4, TrackerAssumption DEF Next, EspRestart, UnaskedReset
  <1>3. CounterInv => CounterAgreesWithHistory
    BY DEF CounterInv
  <1>4. Spec => []RingInv
    BY RingInvHolds
  <1>5. QED
    BY <1>1, <1>2, <1>3, <1>4, TypeCorrect, PTL DEF Spec

-----------------------------------------------------------------------------
(* While the record survives, its pending request is the last one asked    *)
(* for since boot.                                                         *)
PendingIsAsked ==
    /\ intact => s_restart_state.pending_restart = asked
    /\ running => intact

LEMMA PendingCorrect == Spec => []PendingIsAsked
  <1>1. Init => PendingIsAsked
    BY DEF Init, PendingIsAsked
  <1>2. TypeOK /\ PendingIsAsked /\ [Next]_vars => PendingIsAsked'
    <2> SUFFICES ASSUME TypeOK, PendingIsAsked, [Next]_vars
                 PROVE  PendingIsAsked'
      OBVIOUS
    <2>1. CASE Boot
      BY <2>1, BootWritesBootedState DEF Boot, BootedState, PendingIsAsked
    <2>2. ASSUME NEW r \in Requests, MarkPlannedRestart(r)
          PROVE  PendingIsAsked'
      BY <2>2, ValidStateType DEF MarkPlannedRestart, PendingIsAsked, TrackerState
    <2>3. ASSUME NEW reason \in ResetReasons, Reset(reason)
          PROVE  PendingIsAsked'
      BY <2>3 DEF Reset, PendingIsAsked
    <2>4. CASE UNCHANGED vars
      BY <2>4 DEF vars, PendingIsAsked
    <2>5. QED
      BY <2>1, <2>2, <2>3, <2>4, TrackerAssumption DEF Next, EspRestart, UnaskedReset
  <1>3. QED
    BY <1>1, <1>2, TypeCorrect, PTL DEF Spec

(* A boot is recorded as planned exactly when a restart was asked for      *)
(* since the boot before and the record survived.                          *)
THEOREM AttributionCorrect == Spec => PlannedMeansAsked
  <1> DEFINE Attributed ==
        ~running /\ running' =>
          LET rec == s_restart_state'.history[s_restart_state'.latest_history_index]
          IN rec.planned = IF intact THEN asked ELSE NoRequest
  <1>1. TypeOK /\ PendingIsAsked /\ [Next]_vars => Attributed
    <2> SUFFICES ASSUME TypeOK, PendingIsAsked, [Next]_vars, ~running, running'
                 PROVE  LET rec == s_restart_state'.history[s_restart_state'.latest_history_index]
                        IN rec.planned = IF intact THEN asked ELSE NoRequest
      OBVIOUS
    <2>1. Boot
      BY DEF Next, vars, MarkPlannedRestart, EspRestart, UnaskedReset, Reset
    <2>2. s_restart_state' = BootedState(ValidState)
      BY <2>1, BootWritesBootedState
    <2>3. ValidState \in TrackerState
      BY ValidStateType
    <2>4. s_restart_state'.history[s_restart_state'.latest_history_index].planned
            = ValidState.pending_restart
      BY <2>2, <2>3 DEF BootedState, TrackerState
    <2>5. QED
      BY <2>4 DEF PendingIsAsked, ValidState, FreshState
  <1>2. QED
    BY <1>1, TypeCorrect, PendingCorrect, PTL DEF Spec, PlannedMeansAsked

-----------------------------------------------------------------------------
(* The detailed record implements RestartLedger: what the boot-loop guard  *)
(* of light_sleep_task may rely on.                                        *)
THEOREM TrackerImplementsLedger == Spec => ImplementsLedger
  <1> USE DEF Request, LedgerRequest, LedgerCount
  <1>1. Init => Ledger!LedgerInit
    BY DEF Init, Ledger!LedgerInit
  <1>2. TypeOK /\ PendingIsAsked /\ [Next]_vars
          => [Ledger!LedgerNext]_(Ledger!ledgerVars)
    <2> SUFFICES ASSUME TypeOK, PendingIsAsked, [Next]_vars
                 PROVE  [Ledger!LedgerNext]_(Ledger!ledgerVars)
      OBVIOUS
    <2>1. CASE Boot
      <3>1. /\ s_restart_state' = BootedState(ValidState)
            /\ intact' = TRUE
            /\ running = FALSE /\ running' = TRUE /\ resetReason' = resetReason
        BY <2>1, BootWritesBootedState DEF Boot, TypeOK
      <3>2. ValidState \in TrackerState
        BY ValidStateType
      <3>3. /\ s_restart_state'.pending_restart = NoRequest
            /\ s_restart_state'.unexpected_reset_count =
                 ValidState.unexpected_reset_count
                   + IF ValidState.pending_restart = NoRequest
                          /\ resetReason \notin ExpectedReasons
                       THEN 1 ELSE 0
        BY <3>1 DEF BootedState, IsUnexpectedReset
      <3>4. ValidState.unexpected_reset_count \in Nat /\ GuardThreshold \in Nat \ {0}
        BY <3>2, TrackerAssumption DEF TrackerState
      <3>5. Ledger!LedgerBoot
        <4>1. CASE intact
          BY <4>1, <3>1, <3>3, <3>4
          DEF Ledger!LedgerBoot, Ledger!CappedAt, ValidState
        <4>2. CASE ~intact
          <5>1. /\ ValidState.unexpected_reset_count = 0
                /\ ValidState.pending_restart = NoRequest
            BY <4>2 DEF ValidState, FreshState
          <5>2. s_restart_state'.unexpected_reset_count =
                  IF resetReason \notin ExpectedReasons THEN 1 ELSE 0
            BY <5>1, <3>3
          <5>3. LedgerCount = 0 /\ LedgerRequest = NoRequest
            BY <4>2
          <5>4. LedgerCount' = IF resetReason \notin ExpectedReasons THEN 1 ELSE 0
            BY <5>2, <3>1, <3>4
          <5>5. LedgerRequest' = NoRequest
            BY <3>1, <3>3
          <5>6. Ledger!CappedAt(0 + 1, GuardThreshold) = 1
            BY <3>4 DEF Ledger!CappedAt
          <5> HIDE DEF LedgerCount, LedgerRequest
          <5>7. QED
            BY <5>3, <5>4, <5>5, <5>6, <3>1 DEF Ledger!LedgerBoot
        <4>3. QED
          BY <4>1, <4>2
      <3>6. QED
        BY <3>5 DEF Ledger!LedgerNext
    <2>2. ASSUME NEW r \in Requests, MarkPlannedRestart(r)
          PROVE  Ledger!LedgerNext
      <3>1. /\ intact /\ intact' = TRUE
            /\ s_restart_state' = [s_restart_state EXCEPT !.pending_restart = r]
        BY <2>2 DEF MarkPlannedRestart, PendingIsAsked, ValidState
      <3>2. /\ s_restart_state'.pending_restart = r
            /\ s_restart_state'.unexpected_reset_count
                 = s_restart_state.unexpected_reset_count
        BY <3>1 DEF TypeOK, TrackerState
      <3>3. Ledger!LedgerMark(r)
        BY <2>2, <3>1, <3>2 DEF Ledger!LedgerMark, MarkPlannedRestart
      <3>4. QED
        BY <3>3 DEF Ledger!LedgerNext
    <2>3. ASSUME NEW reason \in ResetReasons, Reset(reason)
          PROVE  Ledger!LedgerNext
      <3>1. Ledger!LedgerReset(reason)
        BY <2>3 DEF Ledger!LedgerReset, Reset
      <3>2. QED
        BY <3>1 DEF Ledger!LedgerNext
    <2>4. CASE UNCHANGED vars
      BY <2>4 DEF vars, Ledger!ledgerVars
    <2>5. QED
      BY <2>1, <2>2, <2>3, <2>4, TrackerAssumption DEF Next, EspRestart, UnaskedReset
  <1>3. QED
    BY <1>1, <1>2, TypeCorrect, PendingCorrect, PTL
    DEF Spec, ImplementsLedger, Ledger!LedgerSpec
=============================================================================
