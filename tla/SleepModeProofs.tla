--------------------------- MODULE SleepModeProofs ---------------------------
(***************************************************************************)
(* Proofs about SleepMode and the history SleepHistory keeps of it, for    *)
(* every set of readings, every threshold and duration, every wake-up      *)
(* configuration and every number of resets.                               *)
(***************************************************************************)
EXTENDS SleepHistory, TLAPS

(* Type correctness of the loop and of the ledger it shares the chip with. *)
THEOREM TypeCorrect == Spec => []TypeOK
  <1> USE DEF TypeOK, LedgerTypeOK, Steps, States
  <1>1. Init => TypeOK
    <2> SUFFICES ASSUME Init PROVE TypeOK
      OBVIOUS
    <2>1. LedgerTypeOK
      <3>1. unexpected \in 0..GuardThreshold
        BY LedgerAssumption DEF Init, LedgerInit
      <3>2. QED
        BY <3>1 DEF Init, LedgerInit
    <2>2. timers \in [Timers -> Nat] /\ elmRetries \in 0..ElmSleepRetries
      BY SleepAssumption DEF Init
    <2>3. QED
      BY <2>1, <2>2 DEF Init
  <1>2. TypeOK /\ [Next]_vars => TypeOK'
    <2> SUFFICES ASSUME TypeOK, [Next]_vars
                 PROVE  TypeOK'
      OBVIOUS
    <2> USE SleepAssumption, LedgerAssumption
    <2>1. CASE Boot
      <3>1. unexpected' \in 0..GuardThreshold
        BY <2>1 DEF Boot, LedgerBoot, CappedAt
      <3>2. LedgerTypeOK'
        BY <2>1, <3>1 DEF Boot, LedgerBoot
      <3>3. QED
        BY <2>1, <3>2 DEF Boot
    <2>2. ASSUME NEW reason \in ResetReasons, Down(reason)
          PROVE  TypeOK'
      <3>1. unexpected' \in 0..GuardThreshold /\ elmRetries' \in 0..ElmSleepRetries
        BY <2>2 DEF Down, LedgerReset
      <3>2. timers' \in [Timers -> Nat]
        BY <2>2 DEF Down
      <3>3. QED
        BY <2>2, <3>1, <3>2 DEF Down, LedgerReset
    <2>3. CASE OtherTaskAsksRestart
      BY <2>3 DEF OtherTaskAsksRestart, LedgerMark, taskVars
    <2>4. CASE Tick
      BY <2>4 DEF Tick, ledgerVars, Timers
    <2>5. CASE Sample
      <3>1. ASSUME NEW v \in Readings, SampleTaken(v)
            PROVE  TypeOK'
        BY <3>1 DEF SampleTaken, SetTimer, Timers, VoltagePeriod, ledgerVars
      <3>2. CASE SampleFailed
        BY <3>2 DEF SampleFailed, SetTimer, Timers, VoltagePeriod, ledgerVars
      <3>3. CASE SampleNotDue
        BY <3>3 DEF SampleNotDue, ledgerVars
      <3>4. QED
        BY <2>5, <3>1, <3>2, <3>3 DEF Sample
    <2>6. CASE Decide
      <3> USE DEF Move, Keeps, SetTimer, ledgerVars, Timers
      <3>1. CASE StayAwake \/ KeepCounting
        BY <3>1 DEF StayAwake, KeepCounting
      <3>2. CASE StartCountdown
        BY <3>2 DEF StartCountdown
      <3>3. CASE AbortCountdown
        BY <3>3 DEF AbortCountdown
      <3>4. CASE FallAsleep
        BY <3>4 DEF FallAsleep, BitsOfSleep
      <3>5. CASE VoltageWake
        BY <3>5 DEF VoltageWake, WakeupDelay
      <3>6. CASE StayAsleep \/ DropBack
        BY <3>6 DEF StayAsleep, DropBack
      <3>7. CASE TimedWake \/ StableWake
        BY <3>7 DEF TimedWake, StableWake, AskRestart, LedgerMark
      <3>8. CASE SkipDecision
        BY <3>8 DEF SkipDecision
      <3>9. QED
        BY <2>6, <3>1, <3>2, <3>3, <3>4, <3>5, <3>6, <3>7, <3>8 DEF Decide
    <2>7. CASE Finish
      <3> USE DEF Move, Keeps, SetTimer, ledgerVars, Timers
      <3>1. CASE Shutdown
        BY <3>1 DEF Shutdown
      <3>2. CASE ArmTimedWake
        BY <3>2 DEF ArmTimedWake
      <3>3. CASE GuardTrips
        BY <3>3 DEF GuardTrips, BitsOfSleep
      <3>4. CASE GuardPasses
        <4>1. timers' \in [Timers -> Nat]
          BY <3>4 DEF GuardPasses, DozeTime, LoopDelay
        <4>2. QED
          BY <3>4, <4>1 DEF GuardPasses
      <3>5. CASE NapEnds
        BY <3>5 DEF NapEnds, DozeTime
      <3>6. CASE ElmAsleep \/ ElmAwake \/ Rest
        <4>1. elmRetries' \in 0..ElmSleepRetries
          BY <3>6 DEF ElmAsleep, ElmAwake, RetriesLeft, Rest
        <4>2. QED
          BY <3>6, <4>1 DEF ElmAsleep, ElmAwake, Rest
      <3>7. CASE ElmStuckAwake
        BY <3>7 DEF ElmStuckAwake, AskRestart, LedgerMark
      <3>8. CASE Restart
        BY <3>8, <2>2 DEF Restart
      <3>9. QED
        BY <2>7, <3>1, <3>2, <3>3, <3>4, <3>5, <3>6, <3>7, <3>8 DEF Finish
    <2>8. CASE UNCHANGED vars
      BY <2>8 DEF vars, ledgerVars, taskVars
    <2>9. QED
      BY <2>1, <2>2, <2>3, <2>4, <2>5, <2>6, <2>7, <2>8 DEF Next, EnvReset, TaskStep
  <1>3. QED
    BY <1>1, <1>2, PTL DEF Spec

-----------------------------------------------------------------------------
(* The inductive strengthening.  DormantIsDown alone is not inductive: it  *)
(* needs to know in which steps of the loop the state is already SLEEPING, *)
(* that the bits change before the shutdown and the interfaces and the     *)
(* queue with it, and that the task of a chip that is down is in NORMAL.   *)
SleepInv ==
    /\ pc = "off" <=> ~up
    /\ pc = "off" => state = "NORMAL"
    /\ pc \in {"shutdown", "arm", "nap", "doze"} => state = "SLEEPING"
    /\ Dormant => "AWAKE" \notin bits /\ "SLEEP" \in bits
    /\ Dormant /\ pc # "shutdown" => ~online /\ published = state

LEMMA SleepInvInductive == TypeOK /\ SleepInv /\ [Next]_vars => SleepInv'
  <1> USE DEF SleepInv, Dormant
  <1> SUFFICES ASSUME TypeOK, SleepInv, [Next]_vars
               PROVE  SleepInv'
    OBVIOUS
  <1>1. CASE Boot
    BY <1>1 DEF Boot, LedgerBoot
  <1>2. ASSUME NEW reason \in ResetReasons, Down(reason)
        PROVE  SleepInv'
    BY <1>2 DEF Down, LedgerReset
  <1>3. CASE OtherTaskAsksRestart
    BY <1>3 DEF OtherTaskAsksRestart, LedgerMark, taskVars
  <1>4. CASE Tick
    BY <1>4 DEF Tick, ledgerVars
  <1>5. CASE Sample
    <2>1. ASSUME NEW v \in Readings, SampleTaken(v)
          PROVE  SleepInv'
      BY <2>1 DEF SampleTaken, ledgerVars
    <2>2. CASE SampleFailed \/ SampleNotDue
      BY <2>2 DEF SampleFailed, SampleNotDue, ledgerVars
    <2>3. QED
      BY <1>5, <2>1, <2>2 DEF Sample
  <1>6. CASE Decide
    <2> USE DEF Move, Keeps, Deciding, ledgerVars
    <2>1. CASE StayAwake \/ KeepCounting \/ StartCountdown \/ AbortCountdown
      BY <2>1 DEF StayAwake, KeepCounting, StartCountdown, AbortCountdown
    <2>2. CASE FallAsleep
      BY <2>2 DEF FallAsleep, BitsOfSleep
    <2>3. CASE VoltageWake \/ StayAsleep \/ DropBack
      BY <2>3 DEF VoltageWake, StayAsleep, DropBack
    <2>4. CASE TimedWake \/ StableWake
      BY <2>4 DEF TimedWake, StableWake, AskRestart, LedgerMark
    <2>5. CASE SkipDecision
      BY <2>5 DEF SkipDecision
    <2>6. QED
      BY <1>6, <2>1, <2>2, <2>3, <2>4, <2>5 DEF Decide
  <1>7. CASE Finish
    <2> USE DEF Move, Keeps, ledgerVars
    <2>1. CASE Shutdown \/ ArmTimedWake
      BY <2>1 DEF Shutdown, ArmTimedWake
    <2>2. CASE GuardTrips
      BY <2>2 DEF GuardTrips, BitsOfSleep
    <2>3. CASE GuardPasses \/ NapEnds
      BY <2>3 DEF GuardPasses, NapEnds
    <2>4. CASE ElmAsleep \/ ElmAwake \/ Rest
      BY <2>4 DEF ElmAsleep, ElmAwake, Rest
    <2>5. CASE ElmStuckAwake
      BY <2>5 DEF ElmStuckAwake, AskRestart, LedgerMark
    <2>6. CASE Restart
      BY <2>6, <1>2, SleepAssumption DEF Restart
    <2>7. QED
      BY <1>7, <2>1, <2>2, <2>3, <2>4, <2>5, <2>6 DEF Finish
  <1>8. CASE UNCHANGED vars
    BY <1>8 DEF vars, ledgerVars, taskVars
  <1>9. QED
    BY <1>1, <1>2, <1>3, <1>4, <1>5, <1>6, <1>7, <1>8 DEF Next, EnvReset, TaskStep

LEMMA SleepInvHolds == Spec => []SleepInv
  <1>1. Init => SleepInv
    BY DEF Init, LedgerInit, SleepInv, Dormant
  <1>2. QED
    BY <1>1, SleepInvInductive, TypeCorrect, PTL DEF Spec

(* Between the end of the shutdown and the next reset the device is down,  *)
(* however it got there and however often it bounces between SLEEPING and  *)
(* WAKE_PENDING.                                                           *)
THEOREM DormantDown == Spec => []DormantIsDown
  <1>1. SleepInv => DormantIsDown
    BY DEF SleepInv, DormantIsDown, Dormant
  <1>2. QED
    BY <1>1, SleepInvHolds, PTL

(* The CPU enters light sleep only when SLEEPING has been published.       *)
THEOREM LightSleepIsAnnounced == Spec => []LightSleepAnnounced
  <1>1. SleepInv => LightSleepAnnounced
    BY DEF SleepInv, LightSleepAnnounced, Dormant
  <1>2. QED
    BY <1>1, SleepInvHolds, PTL

(* There is no way back from sleep but a reset.                            *)
THEOREM ResetResumes == Spec => OnlyResetResumes
  <1>1. SleepInv /\ SleepInv' /\ [Next]_vars => (Dormant => (Dormant' \/ ~up'))
    <2> SUFFICES ASSUME SleepInv, [Next]_vars, Dormant
                 PROVE  Dormant' \/ ~up'
      OBVIOUS
    <2> USE DEF Dormant
    <2>1. CASE Boot
      BY <2>1 DEF Boot, LedgerBoot, SleepInv
    <2>2. ASSUME NEW reason \in ResetReasons, Down(reason)
          PROVE  ~up'
      BY <2>2 DEF Down, LedgerReset
    <2>3. CASE OtherTaskAsksRestart \/ Tick \/ Sample
      BY <2>3 DEF OtherTaskAsksRestart, taskVars, Tick, Sample, SampleTaken,
                  SampleFailed, SampleNotDue
    <2>4. CASE Decide
      <3> USE DEF Move, Deciding
      <3>1. CASE StayAwake \/ KeepCounting \/ StartCountdown \/ AbortCountdown \/ FallAsleep
        BY <3>1 DEF StayAwake, KeepCounting, StartCountdown, AbortCountdown, FallAsleep
      <3>2. CASE VoltageWake \/ StayAsleep \/ DropBack
        BY <3>2 DEF VoltageWake, StayAsleep, DropBack
      <3>3. CASE TimedWake \/ StableWake \/ SkipDecision
        BY <3>3 DEF TimedWake, StableWake, AskRestart, SkipDecision
      <3>4. QED
        BY <2>4, <3>1, <3>2, <3>3 DEF Decide
    <2>5. CASE Finish
      <3>1. CASE Restart
        BY <3>1, <2>2, SleepAssumption DEF Restart
      <3>2. CASE Shutdown \/ ArmTimedWake \/ GuardTrips \/ GuardPasses \/ NapEnds
        BY <3>2 DEF Shutdown, ArmTimedWake, Move, GuardTrips, GuardPasses, NapEnds
      <3>3. CASE ElmAsleep \/ ElmAwake \/ ElmStuckAwake \/ Rest
        BY <3>3 DEF ElmAsleep, ElmAwake, ElmStuckAwake, AskRestart, Rest
      <3>4. QED
        BY <2>5, <3>1, <3>2, <3>3 DEF Finish
    <2>6. CASE UNCHANGED vars
      BY <2>6 DEF vars, taskVars
    <2>7. QED
      BY <2>1, <2>2, <2>3, <2>4, <2>5, <2>6 DEF Next, EnvReset, TaskStep
  <1>2. QED
    BY <1>1, SleepInvHolds, PTL DEF Spec, OnlyResetResumes
-----------------------------------------------------------------------------
(* The shutdown as the other tasks see it.  Outside sleep all is up; a     *)
(* device that has not booted announces nothing.                           *)
AwakeInv ==
    /\ ~Dormant /\ pc # "off" => "AWAKE" \in bits /\ "SLEEP" \notin bits
    /\ ~Dormant => online = TRUE
    /\ pc = "off" => "AWAKE" \notin bits /\ "SLEEP" \notin bits /\ published = "NONE"
    /\ pc = "shutdown" => online = TRUE

LEMMA AwakeInvStep == TypeOK /\ SleepInv /\ AwakeInv /\ [Next]_vars => AwakeInv'
  <1> USE DEF AwakeInv, Dormant
  <1> SUFFICES ASSUME SleepInv, AwakeInv, [Next]_vars
               PROVE  AwakeInv'
    OBVIOUS
  <1>1. CASE Boot
    BY <1>1 DEF Boot, LedgerBoot, SleepInv
  <1>2. ASSUME NEW reason \in ResetReasons, Down(reason)
        PROVE  AwakeInv'
    BY <1>2 DEF Down, LedgerReset
  <1>3. CASE OtherTaskAsksRestart \/ Tick
    BY <1>3 DEF OtherTaskAsksRestart, LedgerMark, taskVars, Tick, ledgerVars
  <1>4. CASE Sample
    <2>1. ASSUME NEW v \in Readings, SampleTaken(v)
          PROVE  AwakeInv'
      BY <2>1 DEF SampleTaken, ledgerVars
    <2>2. CASE SampleFailed \/ SampleNotDue
      BY <2>2 DEF SampleFailed, SampleNotDue, ledgerVars
    <2>3. QED
      BY <1>4, <2>1, <2>2 DEF Sample
  <1>5. CASE Decide
    <2> USE DEF Move, Keeps, Deciding
    <2>1. CASE StayAwake \/ KeepCounting \/ StartCountdown \/ AbortCountdown
      BY <2>1 DEF StayAwake, KeepCounting, StartCountdown, AbortCountdown
    <2>2. CASE FallAsleep
      BY <2>2 DEF FallAsleep, BitsOfSleep
    <2>3. CASE VoltageWake \/ StayAsleep \/ DropBack
      BY <2>3 DEF VoltageWake, StayAsleep, DropBack
    <2>4. CASE TimedWake \/ StableWake
      BY <2>4 DEF TimedWake, StableWake, AskRestart
    <2>5. CASE SkipDecision
      BY <2>5 DEF SkipDecision
    <2>6. QED
      BY <1>5, <2>1, <2>2, <2>3, <2>4, <2>5 DEF Decide
  <1>6. CASE Finish
    <2> USE DEF Move, Keeps
    <2>1. CASE Shutdown \/ ArmTimedWake
      BY <2>1 DEF Shutdown, ArmTimedWake, SleepInv
    <2>2. CASE GuardTrips
      BY <2>2 DEF GuardTrips, BitsOfSleep
    <2>3. CASE GuardPasses \/ NapEnds
      BY <2>3 DEF GuardPasses, NapEnds
    <2>4. CASE ElmAsleep \/ ElmAwake \/ Rest \/ ElmStuckAwake
      BY <2>4 DEF ElmAsleep, ElmAwake, Rest, ElmStuckAwake, AskRestart
    <2>5. CASE Restart
      BY <2>5, <1>2, SleepAssumption DEF Restart
    <2>6. QED
      BY <1>6, <2>1, <2>2, <2>3, <2>4, <2>5 DEF Finish
  <1>7. CASE UNCHANGED vars
    BY <1>7 DEF vars, taskVars
  <1>8. QED
    BY <1>1, <1>2, <1>3, <1>4, <1>5, <1>6, <1>7 DEF Next, EnvReset, TaskStep

LEMMA AwakeInvHolds == Spec => []AwakeInv
  <1>1. Init => AwakeInv
    BY DEF Init, AwakeInv, Dormant
  <1>2. QED
    BY <1>1, AwakeInvStep, TypeCorrect, SleepInvHolds, PTL DEF Spec

(* What an action of PowerCycle can see of a step.                         *)
SeesNothing == UNCHANGED <<up, bits, online, published>>

(* light_sleep_task keeps the order that PowerCycle promises, whether the  *)
(* countdown or the boot-loop guard puts the device to sleep.              *)
THEOREM SleepFollowsCycle == Spec => ImplementsPowerCycle
  <1>1. Init => Cycle!CycleInit
    <2> SUFFICES ASSUME Init PROVE Cycle!CycleInit
      OBVIOUS
    <2>1. up = FALSE /\ online = TRUE /\ published = "NONE" /\ bits = {}
      BY Zenon DEF Init, LedgerInit
    <2>2. ("AWAKE" \in bits) = FALSE /\ ("SLEEP" \in bits) = FALSE
      BY <2>1
    <2>3. QED
      BY <2>1, <2>2, Zenon DEF Cycle!CycleInit
  <1>2. TypeOK /\ SleepInv /\ AwakeInv /\ [Next]_vars
          => [Cycle!CycleNext]_(Cycle!cycleVars)
    <2> SUFFICES ASSUME TypeOK, SleepInv, AwakeInv, [Next]_vars
                 PROVE  [Cycle!CycleNext]_(Cycle!cycleVars)
      OBVIOUS
    <2> USE DEF Dormant, Cycle!AwakeStates, Cycle!DormantStates
    <2>0. /\ up = TRUE \/ up = FALSE
          /\ online = TRUE \/ online = FALSE
          /\ up = TRUE <=> pc # "off"
      <3>1. up \in BOOLEAN /\ online \in BOOLEAN
        BY Zenon DEF TypeOK, LedgerTypeOK
      <3>2. pc = "off" <=> ~up
        BY Zenon DEF SleepInv
      <3>3. QED
        BY <3>1, <3>2
    <2>1. ASSUME SeesNothing
          PROVE  UNCHANGED Cycle!cycleVars
      BY <2>1 DEF SeesNothing, Cycle!cycleVars
    <2>2. CASE Boot
      BY <2>2, <2>0 DEF Boot, LedgerBoot, AwakeInv, Cycle!CycleNext, Cycle!ComeUp
    <2>3. ASSUME NEW reason \in ResetReasons, Down(reason)
          PROVE  Cycle!CycleNext
      <3>1. /\ up = TRUE /\ up' = FALSE /\ online' = TRUE
            /\ published' = "NONE" /\ bits' = {}
        BY <2>3, <2>0, Zenon DEF Down, LedgerReset
      <3>2. ("AWAKE" \in bits)' = FALSE /\ ("SLEEP" \in bits)' = FALSE
        BY <3>1
      <3>3. Cycle!StartAfresh
        BY <3>1, <3>2, Zenon DEF Cycle!StartAfresh
      <3>4. QED
        BY <3>3 DEF Cycle!CycleNext
    <2>4. CASE OtherTaskAsksRestart \/ Tick
      BY <2>4, <2>1 DEF OtherTaskAsksRestart, LedgerMark, taskVars, Tick, ledgerVars,
                        SeesNothing
    <2>5. CASE Sample
      <3>1. /\ UNCHANGED <<up, online, published>>
            /\ "AWAKE" \in bits' <=> "AWAKE" \in bits
            /\ "SLEEP" \in bits' <=> "SLEEP" \in bits
        BY <2>5 DEF Sample, SampleTaken, SampleFailed, SampleNotDue, ledgerVars
      <3>2. QED
        BY <3>1 DEF Cycle!cycleVars
    <2>6. CASE Decide
      <3> USE DEF Deciding, Move, Keeps, ledgerVars
      <3>1. CASE StayAwake \/ KeepCounting \/ StartCountdown \/ AbortCountdown
        <4>1. Cycle!Report
          BY <3>1, <2>0 DEF StayAwake, KeepCounting, StartCountdown, AbortCountdown,
                            AwakeInv, Cycle!Report
        <4>2. QED
          BY <4>1 DEF Cycle!CycleNext
      <3>2. CASE FallAsleep
        <4>1. Cycle!LetGo
          BY <3>2, <2>0 DEF FallAsleep, BitsOfSleep, AwakeInv, Cycle!LetGo
        <4>2. QED
          BY <4>1 DEF Cycle!CycleNext
      <3>3. CASE VoltageWake \/ StayAsleep \/ DropBack
        <4>1. Cycle!Bounce
          BY <3>3, <2>0 DEF VoltageWake, StayAsleep, DropBack, SleepInv, Cycle!Bounce
        <4>2. QED
          BY <4>1 DEF Cycle!CycleNext
      <3>4. CASE TimedWake \/ SkipDecision
        BY <3>4, <2>1 DEF TimedWake, AskRestart, LedgerMark, SkipDecision, SeesNothing
      <3>5. CASE StableWake
        <4>1. CASE Expired("wakeup")
          BY <3>5, <4>1, <2>1 DEF StableWake, AskRestart, LedgerMark, SeesNothing
        <4>2. CASE ~Expired("wakeup")
          <5>1. Cycle!Bounce
            BY <3>5, <4>2, <2>0 DEF StableWake, SleepInv, Cycle!Bounce
          <5>2. QED
            BY <5>1 DEF Cycle!CycleNext
        <4>3. QED
          BY <4>1, <4>2
      <3>6. QED
        BY <2>6, <3>1, <3>2, <3>3, <3>4, <3>5 DEF Decide
    <2>7. CASE Finish
      <3> USE DEF Move, Keeps, ledgerVars
      <3>1. CASE Shutdown
        <4>1. Cycle!TakeDown
          BY <3>1, <2>0 DEF Shutdown, SleepInv, Cycle!TakeDown
        <4>2. QED
          BY <4>1 DEF Cycle!CycleNext
      <3>2. CASE ArmTimedWake
        BY <3>2, <2>1 DEF ArmTimedWake, SleepInv, SeesNothing
      <3>3. CASE GuardTrips
        <4>1. Cycle!TakeDown
          BY <3>3, <2>0 DEF GuardTrips, BitsOfSleep, Cycle!TakeDown
        <4>2. QED
          BY <4>1 DEF Cycle!CycleNext
      <3>4. CASE GuardPasses \/ NapEnds \/ ElmAsleep \/ ElmAwake \/ Rest
        BY <3>4, <2>1 DEF GuardPasses, NapEnds, ElmAsleep, ElmAwake, Rest, SeesNothing
      <3>5. CASE ElmStuckAwake
        BY <3>5, <2>1 DEF ElmStuckAwake, AskRestart, LedgerMark, SeesNothing
      <3>6. CASE Restart
        BY <3>6, <2>3, SleepAssumption DEF Restart
      <3>7. QED
        BY <2>7, <3>1, <3>2, <3>3, <3>4, <3>5, <3>6 DEF Finish
    <2>8. CASE UNCHANGED vars
      BY <2>8, <2>1 DEF vars, ledgerVars, taskVars, SeesNothing
    <2>9. QED
      BY <2>2, <2>3, <2>4, <2>5, <2>6, <2>7, <2>8 DEF Next, EnvReset, TaskStep
  <1>3. QED
    BY <1>1, <1>2, TypeCorrect, SleepInvHolds, AwakeInvHolds, PTL
    DEF Spec, ImplementsPowerCycle, Cycle!CycleSpec

(* All that light_sleep_task does to the reset record is what RestartLedger*)
(* allows, so the record of restart_tracker.c may take the ledger's place. *)
THEOREM SleepUsesLedger == Spec => ImplementsLedger
  <1>1. Init => LedgerInit
    BY DEF Init
  <1>2. TypeOK /\ [Next]_vars => [LedgerNext]_ledgerVars
    <2> SUFFICES ASSUME [Next]_vars
                 PROVE  LedgerNext \/ UNCHANGED ledgerVars
      OBVIOUS
    <2>1. CASE Boot
      BY <2>1 DEF Boot, LedgerNext
    <2>2. ASSUME NEW reason \in ResetReasons, Down(reason)
          PROVE  LedgerNext
      BY <2>2 DEF Down, LedgerNext
    <2>3. CASE OtherTaskAsksRestart
      BY <2>3 DEF OtherTaskAsksRestart, LedgerNext
    <2>4. ASSUME NEW r \in Requests, AskRestart(r)
          PROVE  LedgerNext
      BY <2>4 DEF AskRestart, LedgerNext
    <2>5. CASE Tick \/ Sample
      BY <2>5 DEF Tick, Sample, SampleTaken, SampleFailed, SampleNotDue
    <2>6. CASE Decide
      <3> USE DEF Keeps
      <3>1. CASE StayAwake \/ KeepCounting \/ StartCountdown \/ AbortCountdown \/ FallAsleep
        BY <3>1 DEF StayAwake, KeepCounting, StartCountdown, AbortCountdown, FallAsleep
      <3>2. CASE VoltageWake \/ StayAsleep \/ DropBack \/ SkipDecision
        BY <3>2 DEF VoltageWake, StayAsleep, DropBack, SkipDecision
      <3>3. CASE TimedWake \/ StableWake
        BY <3>3, <2>4, SleepAssumption DEF TimedWake, StableWake
      <3>4. QED
        BY <2>6, <3>1, <3>2, <3>3 DEF Decide
    <2>7. CASE Finish
      <3>1. CASE Shutdown \/ ArmTimedWake \/ GuardTrips \/ GuardPasses \/ NapEnds
        BY <3>1 DEF Shutdown, ArmTimedWake, Keeps, GuardTrips, GuardPasses, NapEnds
      <3>2. CASE ElmAsleep \/ ElmAwake \/ Rest
        BY <3>2 DEF ElmAsleep, ElmAwake, Rest
      <3>3. CASE ElmStuckAwake
        BY <3>3, <2>4, SleepAssumption DEF ElmStuckAwake
      <3>4. CASE Restart
        BY <3>4, <2>2, SleepAssumption DEF Restart
      <3>5. QED
        BY <2>7, <3>1, <3>2, <3>3, <3>4 DEF Finish
    <2>8. CASE UNCHANGED vars
      BY <2>8 DEF vars
    <2>9. QED
      BY <2>1, <2>2, <2>3, <2>5, <2>6, <2>7, <2>8 DEF Next, EnvReset, TaskStep
  <1>3. QED
    BY <1>1, <1>2, TypeCorrect, PTL DEF Spec, ImplementsLedger, LedgerSpec

-----------------------------------------------------------------------------
(* Where sleep_voltage + 0.1f lies among the voltages the code can sample: *)
(* below sleep_voltage nothing wakes, two tenths above it everything does. *)
(* A voltage is never too low and high enough at once.                     *)
THEOREM WakeThreshold ==
    ASSUME NEW v \in Nat
    PROVE  /\ v >= SleepVoltage + 2 => Float(v) >= WakeupVoltage
           /\ v <= SleepVoltage => Float(v) < WakeupVoltage
  BY SleepAssumption DEF Float, WakeupVoltage

-----------------------------------------------------------------------------
(* The history (SleepHistory).  It only watches: every behaviour with it   *)
(* is one of SleepMode, so what was proved above holds there as well.      *)
LEMMA HistoryWatches == HSpec => Spec /\ []TypeOK /\ []SleepInv
  <1>1. HInit => Init
    BY DEF HInit
  <1>2. [HNext]_historyVars => [Next]_vars
    BY DEF HNext, historyVars
  <1>3. HSpec => Spec
    BY <1>1, <1>2, PTL DEF HSpec, Spec
  <1>4. QED
    BY <1>3, TypeCorrect, SleepInvHolds, PTL

(* What the history measures is in its range.                              *)
HistoryTypeOK ==
    /\ countdown \in 0..SleepTime /\ wakeable \in BOOLEAN
    /\ asleep \in 0..WakeInterval /\ goodSamples \in 0..2
    /\ awakeDozes \in 0..(ElmSleepRetries + 1)

(* The countdown and what is left on its timer make up sleep_time, however *)
(* late the task looks; a sample that is above the threshold has not been  *)
(* acted upon yet.                                                         *)
CountdownInv ==
    state = "LOW_VOLTAGE" =>
        /\ countdown + timers["sleep"] >= SleepTime
        /\ config.mode = 1 /\ wakeable => pc = "decide" /\ adcOk /\ AboveWakeup

(* The same of the timed wake-up, from the moment it is armed.  A device   *)
(* that the guard has put into its nap before that leaves it only if the   *)
(* timer was armed in this boot.                                           *)
IsArmed ==
    /\ config.wakeup = "periodic"
    /\ timerWakeup \/ (Dormant /\ pc \notin {"shutdown", "arm", "nap"})

ArmedInv == IsArmed => asleep + timers["periodic"] >= WakeInterval

(* The voltage that decides is a sample of this boot.                      *)
SampleInv == AboveWakeup => goodSamples > 0

(* elm327_sleep_retries counts the dozes that found the chip awake.        *)
RetryInv == pc # "restart" => awakeDozes = elmRetries

HistoryInv == HistoryTypeOK /\ CountdownInv /\ ArmedInv /\ SampleInv /\ RetryInv

(* What a step does to each of the five.                                   *)
LEMMA HistorySteps ==
    ASSUME HStep
    PROVE  /\ countdown' = IF ~up' \/ Started THEN 0
                           ELSE IF Ticked /\ state = "LOW_VOLTAGE"
                                  THEN Step(countdown, SleepTime)
                           ELSE countdown
           /\ wakeable' <=> /\ up' /\ ~Started
                            /\ wakeable \/ (Sampled /\ Float(voltage') >= WakeupVoltage)
           /\ wakeable' \in BOOLEAN
           /\ asleep' = IF ~up' \/ Armed THEN 0
                        ELSE IF Ticked THEN Step(asleep, WakeInterval)
                        ELSE asleep
           /\ goodSamples' = IF ~up' THEN 0
                             ELSE IF ~Sampled THEN goodSamples
                             ELSE IF Float(voltage') >= WakeupVoltage
                                    THEN Step(goodSamples, 2)
                             ELSE 0
           /\ awakeDozes' = IF ~up' THEN 0
                            ELSE IF pc # "doze" \/ pc' = "doze" THEN awakeDozes
                            ELSE IF elmRetries' > elmRetries \/ pc' = "restart"
                                   THEN Step(awakeDozes, ElmSleepRetries + 1)
                            ELSE 0
  <1>1. CASE up'
    BY <1>1, Zenon DEF HStep
  <1>2. CASE ~up'
    BY <1>2, Zenon DEF HStep
  <1>3. QED
    BY <1>1, <1>2

LEMMA HistoryInit == HInit => HistoryInv
  <1> SUFFICES ASSUME HInit PROVE HistoryInv
    OBVIOUS
  <1>1. wakeable \in BOOLEAN /\ ~wakeable
    BY Zenon DEF HInit
  <1>2. countdown = 0 /\ asleep = 0 /\ goodSamples = 0 /\ awakeDozes = 0
    BY Zenon DEF HInit
  <1>3. HistoryTypeOK
    BY <1>1, <1>2, SleepAssumption DEF HistoryTypeOK
  <1>4. Init
    BY Zenon DEF HInit
  <1>5. ~AboveWakeup
    BY <1>4, SleepAssumption, WakeThreshold DEF Init, AboveWakeup, Float, WakeupVoltage
  <1>6. QED
    BY <1>1, <1>2, <1>3, <1>4, <1>5
    DEF Init, HistoryInv, CountdownInv, ArmedInv, IsArmed, SampleInv, RetryInv, Dormant

(* The ranges, whatever happens.                                           *)
LEMMA HistoryTypeStep == HistoryTypeOK /\ HStep => HistoryTypeOK'
  <1> SUFFICES ASSUME HistoryTypeOK, HStep PROVE HistoryTypeOK'
    OBVIOUS
  <1>1. SleepTime \in Nat /\ WakeInterval \in Nat /\ ElmSleepRetries + 1 \in Nat
    BY SleepAssumption
  <1>2. countdown' \in 0..SleepTime
    BY <1>1, HistorySteps DEF HistoryTypeOK, Step, CappedAt
  <1>3. wakeable' \in BOOLEAN
    BY HistorySteps
  <1>4. asleep' \in 0..WakeInterval
    BY <1>1, HistorySteps DEF HistoryTypeOK, Step, CappedAt
  <1>5. goodSamples' \in 0..2
    BY HistorySteps DEF HistoryTypeOK, Step, CappedAt
  <1>6. awakeDozes' \in 0..(ElmSleepRetries + 1)
    BY <1>1, HistorySteps DEF HistoryTypeOK, Step, CappedAt
  <1>7. QED
    BY <1>2, <1>3, <1>4, <1>5, <1>6 DEF HistoryTypeOK

(* What a step may do to the countdown: begin it, count a second of it, or *)
(* leave its timer alone.                                                  *)
LEMMA CountdownSteps ==
    ASSUME TypeOK, SleepInv, SleepInv', Next, state' = "LOW_VOLTAGE"
    PROVE  /\ up'
           /\ \/ Started /\ timers'["sleep"] = SleepTime
              \/ /\ Tick /\ ~Started /\ state = "LOW_VOLTAGE"
                 /\ timers'["sleep"] = IF timers["sleep"] > 0 THEN timers["sleep"] - 1 ELSE 0
              \/ /\ ~Tick /\ ~Started /\ state = "LOW_VOLTAGE"
                 /\ timers'["sleep"] = timers["sleep"]
  <1> USE DEF TypeOK, States, Timers, Steps
  <1>1. up'
    BY DEF SleepInv
  <1>2. CASE Tick
    BY <1>1, <1>2 DEF Tick, Started
  <1> SUFFICES ASSUME ~Tick
               PROVE  \/ Started /\ timers'["sleep"] = SleepTime
                      \/ ~Started /\ state = "LOW_VOLTAGE" /\ timers'["sleep"] = timers["sleep"]
    BY <1>1, <1>2
  <1>3. CASE Boot
    BY <1>3 DEF Boot, LedgerBoot, SleepInv
  <1>4. ASSUME NEW reason \in ResetReasons, Down(reason)
        PROVE  FALSE
    BY <1>4 DEF Down
  <1>5. CASE OtherTaskAsksRestart
    BY <1>5 DEF OtherTaskAsksRestart, taskVars, Started
  <1>6. CASE Sample
    BY <1>6 DEF Sample, SampleTaken, SampleFailed, SampleNotDue, SetTimer, Started
  <1>7. CASE Decide
    <2> USE DEF Move, Keeps, Deciding, SetTimer, Started
    <2>1. CASE StayAwake \/ KeepCounting \/ AbortCountdown \/ FallAsleep
      BY <2>1 DEF StayAwake, KeepCounting, AbortCountdown, FallAsleep
    <2>2. CASE StartCountdown
      BY <2>2 DEF StartCountdown
    <2>3. CASE VoltageWake \/ StayAsleep \/ DropBack
      BY <2>3 DEF VoltageWake, StayAsleep, DropBack
    <2>4. CASE TimedWake \/ StableWake \/ SkipDecision
      BY <2>4 DEF TimedWake, StableWake, AskRestart, SkipDecision
    <2>5. QED
      BY <1>7, <2>1, <2>2, <2>3, <2>4 DEF Decide
  <1>8. CASE Finish
    <2> USE DEF Move, Keeps, SetTimer, Started
    <2>1. CASE Shutdown \/ ArmTimedWake
      BY <2>1 DEF Shutdown, ArmTimedWake, SleepInv
    <2>2. CASE GuardTrips \/ GuardPasses \/ NapEnds
      BY <2>2 DEF GuardTrips, GuardPasses, NapEnds
    <2>3. CASE ElmAsleep \/ ElmAwake \/ ElmStuckAwake \/ Rest
      BY <2>3 DEF ElmAsleep, ElmAwake, ElmStuckAwake, AskRestart, Rest
    <2>4. CASE Restart
      BY <2>4, <1>4, SleepAssumption DEF Restart
    <2>5. QED
      BY <1>8, <2>1, <2>2, <2>3, <2>4 DEF Finish
  <1>9. QED
    BY <1>2, <1>3, <1>4, <1>5, <1>6, <1>7, <1>8 DEF Next, EnvReset, TaskStep

(* A sample above the threshold, taken while the countdown runs, is acted  *)
(* upon in the same iteration: what is not a sample leaves it waiting only *)
(* if it is not a decision.                                                *)
LEMMA WakeableSteps ==
    ASSUME TypeOK, SleepInv, Next, state = "LOW_VOLTAGE", state' = "LOW_VOLTAGE",
           config.mode = 1, up'
    PROVE  /\ config' = config
           /\ Sampled => pc' = "decide" /\ adcOk'
           /\ pc = "decide" /\ adcOk /\ AboveWakeup =>
                pc' = "decide" /\ adcOk' /\ voltage' = voltage
  <1> USE DEF TypeOK, States, Steps
  <1>1. Sampled => pc' = "decide" /\ adcOk'
    BY DEF Sampled
  <1>2. ASSUME NEW reason \in ResetReasons, Down(reason)
        PROVE  FALSE
    BY <1>2 DEF Down, LedgerReset
  <1>3. CASE Boot
    BY <1>1, <1>3 DEF Boot, LedgerBoot, SleepInv
  <1>4. CASE OtherTaskAsksRestart \/ Tick
    BY <1>1, <1>4 DEF OtherTaskAsksRestart, taskVars, Tick
  <1>5. CASE Sample
    BY <1>1, <1>5 DEF Sample, SampleTaken, SampleFailed, SampleNotDue
  <1>6. CASE Decide
    <2> USE DEF Move, Keeps, Deciding
    <2>1. CASE StayAwake \/ KeepCounting \/ AbortCountdown \/ FallAsleep \/ StartCountdown
      BY <1>1, <2>1
      DEF StayAwake, KeepCounting, AbortCountdown, FallAsleep, StartCountdown, ShouldAbort
    <2>2. CASE VoltageWake \/ StayAsleep \/ DropBack
      BY <2>2 DEF VoltageWake, StayAsleep, DropBack
    <2>3. CASE TimedWake \/ StableWake
      BY <2>3 DEF TimedWake, StableWake
    <2>4. CASE SkipDecision
      BY <1>1, <2>4 DEF SkipDecision
    <2>5. QED
      BY <1>6, <2>1, <2>2, <2>3, <2>4 DEF Decide
  <1>7. CASE Finish
    <2>1. CASE Shutdown \/ ArmTimedWake
      BY <1>1, <2>1 DEF Shutdown, ArmTimedWake, Keeps
    <2>2. CASE GuardTrips \/ GuardPasses \/ NapEnds
      BY <1>1, <2>2 DEF GuardTrips, GuardPasses, NapEnds
    <2>3. CASE ElmAsleep \/ ElmAwake \/ ElmStuckAwake \/ Rest
      BY <1>1, <2>3 DEF ElmAsleep, ElmAwake, ElmStuckAwake, AskRestart, Rest
    <2>4. CASE Restart
      BY <2>4, <1>2, SleepAssumption DEF Restart
    <2>5. QED
      BY <1>7, <2>1, <2>2, <2>3, <2>4 DEF Finish
  <1>8. QED
    BY <1>2, <1>3, <1>4, <1>5, <1>6, <1>7 DEF Next, EnvReset, TaskStep

LEMMA CountdownStep ==
    ASSUME TypeOK, SleepInv, SleepInv', HistoryTypeOK, CountdownInv, Next, HStep
    PROVE  CountdownInv'
  <1> SUFFICES ASSUME state' = "LOW_VOLTAGE"
               PROVE  /\ countdown' + timers'["sleep"] >= SleepTime
                      /\ config'.mode = 1 /\ wakeable' =>
                           pc' = "decide" /\ adcOk' /\ AboveWakeup'
    BY DEF CountdownInv
  <1>1. SleepTime \in Nat /\ timers["sleep"] \in Nat /\ countdown \in 0..SleepTime
    BY SleepAssumption DEF TypeOK, Timers, HistoryTypeOK
  <1>2. CASE Started
    <2>1. timers'["sleep"] = SleepTime
      BY <1>2, CountdownSteps
    <2>2. countdown' = 0 /\ ~wakeable'
      BY <1>2, HistorySteps
    <2>3. QED
      BY <1>1, <2>1, <2>2
  <1>3. CASE ~Started
    <2>1. up' /\ state = "LOW_VOLTAGE"
      BY <1>3, CountdownSteps
    <2>2. countdown + timers["sleep"] >= SleepTime
      BY <2>1 DEF CountdownInv
    <2>3. countdown' + timers'["sleep"] >= SleepTime
      <3>1. CASE Tick
        <4>1. timers'["sleep"] = IF timers["sleep"] > 0 THEN timers["sleep"] - 1 ELSE 0
          BY <1>3, <3>1, CountdownSteps
        <4>2. countdown' = IF countdown + 1 < SleepTime THEN countdown + 1 ELSE SleepTime
          BY <1>3, <2>1, <3>1, HistorySteps DEF Ticked, Step, CappedAt
        <4>3. QED
          BY <1>1, <2>2, <4>1, <4>2
      <3>2. CASE ~Tick
        <4>1. timers'["sleep"] = timers["sleep"] /\ countdown' = countdown
          BY <1>3, <2>1, <3>2, CountdownSteps, HistorySteps DEF Ticked
        <4>2. QED
          BY <2>2, <4>1
      <3>3. QED
        BY <3>1, <3>2
    <2>4. ASSUME config'.mode = 1, wakeable'
          PROVE  pc' = "decide" /\ adcOk' /\ AboveWakeup'
      <3>1. config.mode = 1
        BY <2>4 DEF Next, Boot, EnvReset, Down, OtherTaskAsksRestart, taskVars, Tick,
                    TaskStep, Sample, SampleTaken, SampleFailed, SampleNotDue,
                    Decide, StayAwake, StartCountdown, KeepCounting, AbortCountdown,
                    FallAsleep, VoltageWake, StayAsleep, DropBack, TimedWake, StableWake,
                    SkipDecision, Keeps, AskRestart, Finish, Shutdown, ArmTimedWake,
                    GuardTrips, GuardPasses, NapEnds, ElmAsleep, ElmAwake, ElmStuckAwake,
                    Rest, Restart
      <3>2. /\ Sampled => pc' = "decide" /\ adcOk'
            /\ pc = "decide" /\ adcOk /\ AboveWakeup =>
                 pc' = "decide" /\ adcOk' /\ voltage' = voltage
        BY <2>1, <3>1, WakeableSteps
      <3>3. wakeable \/ (Sampled /\ Float(voltage') >= WakeupVoltage)
        BY <2>4, HistorySteps
      <3>4. CASE wakeable
        BY <2>1, <3>1, <3>2, <3>4 DEF CountdownInv, AboveWakeup
      <3>5. CASE Sampled /\ Float(voltage') >= WakeupVoltage
        BY <3>2, <3>5 DEF AboveWakeup
      <3>6. QED
        BY <3>3, <3>4, <3>5
    <2>5. QED
      BY <2>3, <2>4
  <1>4. QED
    BY <1>2, <1>3

(* Only a sample changes the voltage, but for a reset.                     *)
LEMMA SampleStep ==
    ASSUME TypeOK, SleepInv, SampleInv, HistoryTypeOK, Next, HStep
    PROVE  SampleInv'
  <1> USE DEF TypeOK, Steps
  <1>1. ASSUME NEW reason \in ResetReasons, Down(reason)
        PROVE  SampleInv'
    <2>1. voltage' = 0
      BY <1>1 DEF Down
    <2>2. Float(0) < WakeupVoltage
      BY WakeThreshold, SleepAssumption
    <2>3. QED
      BY <2>1, <2>2, WakeThreshold, SleepAssumption
      DEF SampleInv, AboveWakeup, Float, WakeupVoltage
  <1>2. ASSUME up', Sampled
        PROVE  SampleInv'
    BY <1>2, HistorySteps DEF SampleInv, AboveWakeup, HistoryTypeOK, Step, CappedAt
  <1>3. ASSUME up', ~Sampled, voltage' = voltage
        PROVE  SampleInv'
    BY <1>3, HistorySteps DEF SampleInv, AboveWakeup
  <1>4. \/ \E reason \in ResetReasons : Down(reason)
        \/ up' /\ Sampled
        \/ up' /\ voltage' = voltage
    <2>1. CASE Boot
      BY <2>1 DEF Boot, LedgerBoot
    <2>2. CASE EnvReset \/ Restart
      BY <2>2, SleepAssumption DEF EnvReset, Restart
    <2>3. CASE OtherTaskAsksRestart \/ Tick
      BY <2>3 DEF OtherTaskAsksRestart, LedgerMark, taskVars, Tick, ledgerVars
    <2>4. CASE Sample
      BY <2>4 DEF Sample, SampleTaken, SampleFailed, SampleNotDue, Sampled, Expired,
                  ledgerVars, SleepInv
    <2>5. CASE Decide
      BY <2>5 DEF Decide, StayAwake, StartCountdown, KeepCounting, AbortCountdown,
                  FallAsleep, VoltageWake, StayAsleep, DropBack, TimedWake, StableWake,
                  SkipDecision, Keeps, AskRestart, LedgerMark, Deciding, ledgerVars, SleepInv
    <2>6. CASE Finish /\ ~Restart
      BY <2>6 DEF Finish, Shutdown, ArmTimedWake, GuardTrips, GuardPasses, NapEnds,
                  ElmAsleep, ElmAwake, ElmStuckAwake, AskRestart, LedgerMark, Rest,
                  Keeps, ledgerVars, SleepInv
    <2>7. QED
      BY <2>1, <2>2, <2>3, <2>4, <2>5, <2>6 DEF Next, TaskStep
  <1>5. QED
    BY <1>1, <1>2, <1>3, <1>4

(* Who is armed has just been, or was before and its timer goes on.        *)
LEMMA ArmedSteps ==
    ASSUME TypeOK, SleepInv, Next, IsArmed'
    PROVE  /\ up'
           /\ \/ Armed /\ timers'["periodic"] = WakeInterval
              \/ /\ Tick /\ ~Armed /\ IsArmed
                 /\ timers'["periodic"] =
                      IF timers["periodic"] > 0 THEN timers["periodic"] - 1 ELSE 0
              \/ /\ ~Tick /\ ~Armed /\ IsArmed
                 /\ timers'["periodic"] = timers["periodic"]
  <1> USE DEF TypeOK, States, Timers, Steps, IsArmed, Dormant, Armed
  <1>1. CASE Tick
    BY <1>1 DEF Tick, ledgerVars
  <1> SUFFICES ASSUME ~Tick
               PROVE  /\ up'
                      /\ \/ Armed /\ timers'["periodic"] = WakeInterval
                         \/ ~Armed /\ IsArmed /\ timers'["periodic"] = timers["periodic"]
    BY <1>1
  <1>2. ASSUME NEW reason \in ResetReasons, Down(reason)
        PROVE  FALSE
    BY <1>2 DEF Down
  <1>3. CASE Boot
    BY <1>3 DEF Boot, LedgerBoot, SleepInv
  <1>4. CASE OtherTaskAsksRestart
    BY <1>4 DEF OtherTaskAsksRestart, LedgerMark, taskVars
  <1>5. CASE Sample
    BY <1>5 DEF Sample, SampleTaken, SampleFailed, SampleNotDue, SetTimer, ledgerVars, SleepInv
  <1>6. CASE Decide
    <2> USE DEF Move, Keeps, Deciding, SetTimer, ledgerVars, SleepInv
    <2>1. CASE StayAwake \/ KeepCounting \/ AbortCountdown
      BY <2>1 DEF StayAwake, KeepCounting, AbortCountdown
    <2>2. CASE StartCountdown \/ FallAsleep
      BY <2>2 DEF StartCountdown, FallAsleep
    <2>3. CASE VoltageWake \/ StayAsleep \/ DropBack
      BY <2>3 DEF VoltageWake, StayAsleep, DropBack
    <2>4. CASE TimedWake \/ StableWake
      BY <2>4 DEF TimedWake, StableWake, AskRestart, LedgerMark
    <2>5. CASE SkipDecision
      BY <2>5 DEF SkipDecision
    <2>6. QED
      BY <1>6, <2>1, <2>2, <2>3, <2>4, <2>5 DEF Decide
  <1>7. CASE Finish
    <2> USE DEF Move, Keeps, SetTimer, ledgerVars, SleepInv
    <2>1. CASE Shutdown
      BY <2>1 DEF Shutdown
    <2>2. CASE ArmTimedWake
      BY <2>2 DEF ArmTimedWake
    <2>3. CASE GuardTrips
      BY <2>3 DEF GuardTrips
    <2>4. CASE GuardPasses \/ NapEnds
      BY <2>4 DEF GuardPasses, NapEnds
    <2>5. CASE ElmAsleep \/ ElmAwake \/ ElmStuckAwake \/ Rest
      BY <2>5 DEF ElmAsleep, ElmAwake, ElmStuckAwake, AskRestart, LedgerMark, Rest
    <2>6. CASE Restart
      BY <2>6, <1>2, SleepAssumption DEF Restart
    <2>7. QED
      BY <1>7, <2>1, <2>2, <2>3, <2>4, <2>5, <2>6 DEF Finish
  <1>8. QED
    BY <1>2, <1>3, <1>4, <1>5, <1>6, <1>7 DEF Next, EnvReset, TaskStep

LEMMA ArmedStep ==
    ASSUME TypeOK, SleepInv, HistoryTypeOK, ArmedInv, Next, HStep
    PROVE  ArmedInv'
  <1> SUFFICES ASSUME IsArmed'
               PROVE  asleep' + timers'["periodic"] >= WakeInterval
    BY DEF ArmedInv
  <1>1. WakeInterval \in Nat /\ timers["periodic"] \in Nat /\ asleep \in 0..WakeInterval
    BY SleepAssumption DEF TypeOK, Timers, HistoryTypeOK
  <1>2. CASE Armed
    <2>1. timers'["periodic"] = WakeInterval
      BY <1>2, ArmedSteps
    <2>2. asleep' = 0
      BY <1>2, HistorySteps
    <2>3. QED
      BY <1>1, <2>1, <2>2
  <1>3. CASE Tick /\ ~Armed
    <2>1. timers'["periodic"] = IF timers["periodic"] > 0 THEN timers["periodic"] - 1 ELSE 0
      BY <1>3, ArmedSteps
    <2>2. asleep' = IF asleep + 1 < WakeInterval THEN asleep + 1 ELSE WakeInterval
      BY <1>3, ArmedSteps, HistorySteps DEF Ticked, Step, CappedAt
    <2>3. asleep + timers["periodic"] >= WakeInterval
      BY <1>3, ArmedSteps DEF ArmedInv
    <2>4. QED
      BY <1>1, <2>1, <2>2, <2>3
  <1>4. CASE ~Tick /\ ~Armed
    <2>1. asleep' = asleep /\ timers'["periodic"] = timers["periodic"] /\ IsArmed
      BY <1>4, ArmedSteps, HistorySteps DEF Ticked
    <2>2. QED
      BY <2>1 DEF ArmedInv
  <1>5. QED
    BY <1>2, <1>3, <1>4

(* The retries are counted where the chip was looked at, and nowhere else. *)
LEMMA RetryStep ==
    ASSUME TypeOK, SleepInv, HistoryTypeOK, RetryInv, Next, HStep
    PROVE  RetryInv'
  <1> USE DEF TypeOK, Steps
  <1>1. ASSUME NEW reason \in ResetReasons, Down(reason)
        PROVE  RetryInv'
    BY <1>1, HistorySteps DEF Down, LedgerReset, RetryInv
  <1>2. ASSUME up', elmRetries' = elmRetries, pc # "doze" \/ pc' = "doze",
               pc = "restart" => pc' = "restart"
        PROVE  RetryInv'
    BY <1>2, HistorySteps DEF RetryInv
  <1>3. CASE Boot
    BY <1>2, <1>3 DEF Boot, LedgerBoot, SleepInv
  <1>4. CASE EnvReset \/ Restart
    BY <1>1, <1>4, SleepAssumption DEF EnvReset, Restart
  <1>5. CASE OtherTaskAsksRestart \/ Tick
    BY <1>2, <1>5 DEF OtherTaskAsksRestart, LedgerMark, taskVars, Tick, ledgerVars
  <1>6. CASE Sample
    BY <1>2, <1>6 DEF Sample, SampleTaken, SampleFailed, SampleNotDue, ledgerVars, SleepInv
  <1>7. CASE Decide
    BY <1>2, <1>7 DEF Decide, StayAwake, StartCountdown, KeepCounting, AbortCountdown,
                      FallAsleep, VoltageWake, StayAsleep, DropBack, TimedWake, StableWake,
                      SkipDecision, Keeps, AskRestart, LedgerMark, Deciding, ledgerVars, SleepInv
  <1>8. CASE Shutdown \/ ArmTimedWake \/ GuardTrips \/ GuardPasses \/ NapEnds \/ Rest
    BY <1>2, <1>8 DEF Shutdown, ArmTimedWake, GuardTrips, GuardPasses, NapEnds, Rest,
                      Move, Keeps, ledgerVars, SleepInv
  <1>9. CASE ElmAsleep
    BY <1>9, HistorySteps DEF ElmAsleep, ledgerVars, SleepInv, RetryInv
  <1>10. CASE ElmAwake
    <2>1. up' /\ elmRetries' = elmRetries + 1 /\ elmRetries \in Nat
          /\ elmRetries + 1 <= ElmSleepRetries /\ pc = "doze" /\ pc' = "sample"
      BY <1>10, SleepAssumption DEF ElmAwake, RetriesLeft, ledgerVars, SleepInv
    <2>2. awakeDozes' = awakeDozes + 1 /\ awakeDozes = elmRetries
      BY <2>1, HistorySteps, SleepAssumption DEF Step, CappedAt, RetryInv
    <2>3. QED
      BY <2>1, <2>2 DEF RetryInv
  <1>11. CASE ElmStuckAwake
    BY <1>11 DEF ElmStuckAwake, AskRestart, RetryInv
  <1>12. QED
    BY <1>3, <1>4, <1>5, <1>6, <1>7, <1>8, <1>9, <1>10, <1>11 DEF Next, TaskStep, Finish

LEMMA HistoryInvHolds == HSpec => []HistoryInv
  <1>1. ASSUME TypeOK, SleepInv, SleepInv', HistoryInv, [HNext]_historyVars
        PROVE  HistoryInv'
    <2>1. CASE HNext
      <3>1. Next /\ HStep
        BY <2>1 DEF HNext
      <3>2. QED
        BY <1>1, <3>1, HistoryTypeStep, CountdownStep, ArmedStep, SampleStep, RetryStep
        DEF HistoryInv
    <2>2. CASE UNCHANGED historyVars
      <3>1. UNCHANGED vars /\ UNCHANGED history
        BY <2>2, Zenon DEF historyVars
      <3>2. /\ up' = up /\ pc' = pc /\ state' = state /\ config' = config
            /\ timers' = timers /\ voltage' = voltage /\ timerWakeup' = timerWakeup
            /\ elmRetries' = elmRetries /\ adcOk' = adcOk
        BY <3>1, Zenon DEF vars, taskVars, ledgerVars
      <3>3. /\ countdown' = countdown /\ wakeable' = wakeable /\ asleep' = asleep
            /\ goodSamples' = goodSamples /\ awakeDozes' = awakeDozes
        BY <3>1, Zenon DEF history
      <3>4. HistoryTypeOK' /\ RetryInv'
        BY <1>1, <3>2, <3>3, Zenon DEF HistoryInv, HistoryTypeOK, RetryInv
      <3>5. CountdownInv' /\ ArmedInv' /\ SampleInv'
        BY <1>1, <3>2, <3>3, Zenon
        DEF HistoryInv, CountdownInv, ArmedInv, IsArmed, SampleInv, Dormant, AboveWakeup
      <3>6. QED
        BY <3>4, <3>5 DEF HistoryInv
    <2>3. QED
      BY <1>1, <2>1, <2>2
  <1>2. QED
    BY <1>1, HistoryInit, HistoryWatches, PTL DEF HSpec

-----------------------------------------------------------------------------
(* The decision to sleep honours the countdown, whatever the settings and  *)
(* however late the task runs (light_sleep_task, STATE_LOW_VOLTAGE).       *)
THEOREM CountdownIsHonoured == HSpec => CountdownHonoured
  <1> DEFINE Honoured ==
        pc' = "shutdown" /\ pc # "shutdown" =>
           /\ countdown >= SleepTime
           /\ config.mode = 1 => ~wakeable
  <1>1. ASSUME TypeOK, SleepInv, HistoryInv, [HNext]_historyVars
        PROVE  [Honoured]_historyVars
    <2> SUFFICES ASSUME HNext, pc' = "shutdown", pc # "shutdown"
                 PROVE  /\ countdown >= SleepTime
                        /\ config.mode = 1 => ~wakeable
      BY <1>1
    <2>1. FallAsleep
      BY DEF HNext, Next, Boot, EnvReset, Down, OtherTaskAsksRestart, taskVars, Tick,
             TaskStep, Sample, SampleTaken, SampleFailed, SampleNotDue,
             Decide, StayAwake, StartCountdown, KeepCounting, AbortCountdown,
             VoltageWake, StayAsleep, DropBack, TimedWake, StableWake, SkipDecision,
             Move, AskRestart, Finish, Shutdown, ArmTimedWake, GuardTrips, GuardPasses,
             NapEnds, ElmAsleep, ElmAwake, ElmStuckAwake, Rest, Restart
    <2>2. /\ state = "LOW_VOLTAGE" /\ timers["sleep"] = 0
          /\ config.mode = 1 => ~AboveWakeup
      BY <2>1 DEF FallAsleep, Deciding, CountdownOver, Expired, ShouldAbort
    <2>3. countdown \in Nat
      BY <1>1, SleepAssumption DEF HistoryInv, HistoryTypeOK
    <2>4. QED
      BY <1>1, <2>2, <2>3 DEF HistoryInv, CountdownInv
  <1>2. QED
    BY <1>1, HistoryWatches, HistoryInvHolds, PTL DEF HSpec, CountdownHonoured

(* A wake-up has a reason: a sample above the threshold, or a whole        *)
(* wakeup_interval asleep on a battery that is not flat; a stale timer, a  *)
(* countdown or the guard's nap is none.                                   *)
THEOREM WakesForAReason == HSpec => WakeHasReason
  <1> DEFINE Reason ==
        Waking =>
          \/ goodSamples > 0
          \/ /\ voltage > CriticalVoltage
             /\ config.wakeup = "periodic" => asleep >= WakeInterval
  <1>1. ASSUME TypeOK, SleepInv, HistoryInv, [HNext]_historyVars
        PROVE  [Reason]_historyVars
    <2> SUFFICES ASSUME HNext, Waking
                 PROVE  \/ goodSamples > 0
                        \/ /\ voltage > CriticalVoltage
                           /\ config.wakeup = "periodic" => asleep >= WakeInterval
      BY <1>1
    <2>1. TimedWake \/ StableWake
      BY DEF Waking, HNext, Next, Boot, EnvReset, Down, OtherTaskAsksRestart, taskVars, Tick,
             TaskStep, Sample, SampleTaken, SampleFailed, SampleNotDue,
             Decide, StayAwake, StartCountdown, KeepCounting, AbortCountdown, FallAsleep,
             VoltageWake, StayAsleep, DropBack, SkipDecision,
             Move, AskRestart, LedgerMark, Finish, Shutdown, ArmTimedWake, GuardTrips,
             GuardPasses, NapEnds, ElmAsleep, ElmAwake, ElmStuckAwake, Rest, Restart
    <2>2. CASE StableWake
      BY <1>1, <2>2 DEF StableWake, HistoryInv, SampleInv
    <2>3. CASE TimedWake
      <3>1. /\ voltage > CriticalVoltage
            /\ config.wakeup = "periodic" => timers["periodic"] = 0 /\ IsArmed
        BY <2>3 DEF TimedWake, TimedWakeDue, Deciding, Expired, IsArmed, Dormant
      <3>2. asleep \in Nat
        BY <1>1, SleepAssumption DEF HistoryInv, HistoryTypeOK
      <3>3. QED
        BY <1>1, <3>1, <3>2 DEF HistoryInv, ArmedInv
    <2>4. QED
      BY <2>1, <2>2, <2>3
  <1>2. QED
    BY <1>1, HistoryWatches, HistoryInvHolds, PTL DEF HSpec, WakeHasReason

(* An internal-recovery restart is the last resort, for every number of    *)
(* retries (elm327_sleep_retries).                                         *)
THEOREM RecoveryComesLast == HSpec => RecoveryIsLastResort
  <1> DEFINE Last == pc = "doze" /\ pc' = "restart" => awakeDozes' = ElmSleepRetries + 1
  <1>1. ASSUME TypeOK, SleepInv, HistoryInv, [HNext]_historyVars
        PROVE  [Last]_historyVars
    <2> SUFFICES ASSUME HNext, pc = "doze", pc' = "restart"
                 PROVE  awakeDozes' = ElmSleepRetries + 1
      BY <1>1
    <2>1. Next /\ HStep
      BY DEF HNext
    <2>2. ElmStuckAwake
      BY <2>1 DEF Next, Boot, EnvReset, Down, OtherTaskAsksRestart, taskVars, Tick,
             TaskStep, Sample, SampleTaken, SampleFailed, SampleNotDue, Deciding,
             Decide, StayAwake, StartCountdown, KeepCounting, AbortCountdown, FallAsleep,
             VoltageWake, StayAsleep, DropBack, TimedWake, StableWake, SkipDecision,
             Finish, Shutdown, ArmTimedWake, GuardTrips,
             GuardPasses, NapEnds, ElmAsleep, ElmAwake, Rest, Restart
    <2>3. elmRetries = ElmSleepRetries /\ awakeDozes = elmRetries /\ up'
      BY <1>1, <2>2, SleepAssumption
      DEF ElmStuckAwake, AskRestart, LedgerMark, RetriesLeft, TypeOK, SleepInv, HistoryInv, RetryInv
    <2>4. awakeDozes' = Step(awakeDozes, ElmSleepRetries + 1)
      BY <2>1, <2>3, HistorySteps
    <2>5. QED
      BY <2>3, <2>4, SleepAssumption DEF Step, CappedAt
  <1>2. QED
    BY <1>1, HistoryWatches, HistoryInvHolds, PTL DEF HSpec, RecoveryIsLastResort
=============================================================================
