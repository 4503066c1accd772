--------------------------- MODULE PowerDownProofs ---------------------------
(***************************************************************************)
(* Safety of PowerDown for every queue size and every number of retries.   *)
(***************************************************************************)
EXTENDS PowerDown, TLAPS

(* The actions, one per line: what the proofs below go through.            *)
LEMMA Steps ==
    ASSUME Next
    PROVE  \/ \E t \in {"uart", "autopid", "terminal"} : RunCommand(t)
           \/ RunCommandDone("uart", "gate")
           \/ RunCommandDone("autopid", "gate")
           \/ RunCommandDone("terminal", "idle")
           \/ LockTimeout("uart", "lock", "gate")
           \/ LockTimeout("autopid", "lock", "gate")
           \/ LockTimeout("terminal", "lock", "idle")
           \/ LockTimeout("sleep", "lock", AfterElmSleep)
           \/ LockTimeout("sleep", "resetlock", "baudlock")
           \/ LockTimeout("sleep", "baudlock", "lock")
           \/ UartAwake \/ UartReceive \/ UartAccept \/ UartDrop
           \/ AutopidGates \/ SendPid \/ Answered \/ PidsDone \/ Monitor \/ NoMonitor
           \/ ClientSends \/ TerminalOpens \/ TerminalCloses \/ TerminalCommand
           \/ Publish \/ Sample \/ ClearAwake \/ AwaitStable
           \/ AnnounceSleep \/ AutopidIsIdle \/ IdleTimeout
           \/ SendStSleep \/ StSleepDone \/ TearDown
           \/ StayAsleep \/ DropBack \/ ElmAsleep \/ ElmAwake
           \/ HardReset \/ HardResetDone \/ SetBaudrate \/ BaudrateSet
           \/ Restart
BY DEF Next, SleepTask, Shutdown, Asleep, Uart, Autopid, Terminal, Wake, ElmStuckAwake

-----------------------------------------------------------------------------
(* Types.                                                                  *)
PcOK ==
    /\ pc \in [Tasks -> UNION {StepsOf(t) : t \in Tasks}]
    /\ \A t \in Tasks : pc[t] \in StepsOf(t)

LEMMA Places ==
    /\ StepsOf("sleep") = {"awake", "announce", "idle", "lock", "stsleep", "teardown",
                           "down", "doze", "resetlock", "hardreset", "baudlock",
                           "setbaud"}
    /\ StepsOf("uart") = {"gate", "receive", "check", "lock", "talk"}
    /\ StepsOf("autopid") = {"gate", "asleep", "volt", "lowvolt", "enabled", "off",
                             "poll", "await", "filter", "lock", "talk"}
    /\ StepsOf("terminal") = {"idle", "lock", "talk"}
BY DEF StepsOf

LEMMA GotoKeepsPc ==
    ASSUME PcOK, NEW t \in Tasks, NEW step \in StepsOf(t), Goto(t, step)
    PROVE  PcOK'
<1>1. step \in UNION {StepsOf(u) : u \in Tasks}
  OBVIOUS
<1>2. pc' \in [Tasks -> UNION {StepsOf(u) : u \in Tasks}]
  BY <1>1 DEF PcOK, Goto
<1>3. \A u \in Tasks : pc'[u] \in StepsOf(u)
  BY DEF PcOK, Goto
<1>4. QED
  BY <1>2, <1>3 DEF PcOK

LEMMA StartedPc == Started.pc \in [Tasks -> UNION {StepsOf(t) : t \in Tasks}]
                   /\ \A t \in Tasks : Started.pc[t] \in StepsOf(t)
<1>1. Started.pc = [t \in Tasks |-> CASE t = "sleep" -> "awake"
                                      [] t = "terminal" -> "idle"
                                      [] OTHER -> "gate"]
  BY DEF Started
<1>2. /\ Started.pc["sleep"] = "awake" /\ Started.pc["terminal"] = "idle"
      /\ Started.pc["uart"] = "gate" /\ Started.pc["autopid"] = "gate"
  BY <1>1 DEF Tasks
<1>3. \A t \in Tasks : Started.pc[t] \in StepsOf(t)
  BY <1>2, Places DEF Tasks
<1>4. QED
  BY <1>1, <1>3

LEMMA StartedPlaces ==
    /\ Started.pc["sleep"] = "awake" /\ Started.pc["terminal"] = "idle"
    /\ Started.pc["uart"] = "gate" /\ Started.pc["autopid"] = "gate"
<1>1. Started.pc = [t \in Tasks |-> CASE t = "sleep" -> "awake"
                                      [] t = "terminal" -> "idle"
                                      [] OTHER -> "gate"]
  BY DEF Started
<1>2. QED
  BY <1>1 DEF Tasks

LEMMA StartedData ==
    Started.bits = {"AWAKE", "AUTOPID_ENABLED"} /\ Started.published = "NONE"
<1> DEFINE places == [t \in Tasks |-> CASE t = "sleep" -> "awake"
                                         [] t = "terminal" -> "idle"
                                         [] OTHER -> "gate"]
<1>1. Started = [pc |-> places, bits |-> {"AWAKE", "AUTOPID_ENABLED"},
                 published |-> "NONE"]
  BY Zenon DEF Started
<1> HIDE DEF places
<1>2. QED
  BY <1>1

(* The rest of TypeOK.                                                     *)
DataOK ==
    /\ config \in [pausing : BOOLEAN, terminal : BOOLEAN]
    /\ bits \subseteq Bits
    /\ queue \in 0..QueueSize
    /\ mutex \in Tasks \cup {NoTask}
    /\ chip \in {"ready", "asleep"}
    /\ published \in {"NONE", "NORMAL", "SLEEPING", "WAKE_PENDING"}
    /\ online \in BOOLEAN
    /\ retries \in 0..ElmSleepRetries
    /\ handshake \in BOOLEAN
    /\ late \in 0..2

LEMMA TypeParts == TypeOK <=> PcOK /\ DataOK
BY DEF TypeOK, PcOK, DataOK

LEMMA TypeInit == Init => TypeOK
<1> SUFFICES ASSUME Init PROVE PcOK /\ DataOK
  BY TypeParts
<1>1. PcOK
  BY StartedPc DEF Init, PcOK
<1>2. DataOK
  <2>1. /\ config \in [pausing : BOOLEAN, terminal : BOOLEAN]
        /\ online \in BOOLEAN /\ handshake \in BOOLEAN
    BY Zenon DEF Init
  <2>2. bits \subseteq Bits /\ published \in {"NONE", "NORMAL", "SLEEPING", "WAKE_PENDING"}
    BY StartedData DEF Init, Bits
  <2>3. queue \in 0..QueueSize /\ retries \in 0..ElmSleepRetries /\ late \in 0..2
    BY PowerDownAssumption DEF Init
  <2>4. mutex \in Tasks \cup {NoTask} /\ chip \in {"ready", "asleep"}
    BY DEF Init
  <2>5. QED
    BY <2>1, <2>2, <2>3, <2>4 DEF DataOK
<1>3. QED
  BY <1>1, <1>2

LEMMA PcStep == PcOK /\ [Next]_vars => PcOK'
<1> SUFFICES ASSUME PcOK, [Next]_vars PROVE PcOK'
  OBVIOUS
<1> USE Places DEF Tasks
<1>1. ASSUME NEW t \in {"uart", "autopid", "terminal"}, RunCommand(t) PROVE PcOK'
  BY <1>1, GotoKeepsPc DEF RunCommand
<1>2. CASE RunCommandDone("uart", "gate")
  BY <1>2, GotoKeepsPc DEF RunCommandDone
<1>3. CASE RunCommandDone("autopid", "gate")
  BY <1>3, GotoKeepsPc DEF RunCommandDone
<1>4. CASE RunCommandDone("terminal", "idle")
  BY <1>4, GotoKeepsPc DEF RunCommandDone
<1>5. CASE LockTimeout("uart", "lock", "gate")
  BY <1>5, GotoKeepsPc DEF LockTimeout
<1>6. CASE LockTimeout("autopid", "lock", "gate")
  BY <1>6, GotoKeepsPc DEF LockTimeout
<1>7. CASE LockTimeout("terminal", "lock", "idle")
  BY <1>7, GotoKeepsPc DEF LockTimeout
<1>8. CASE LockTimeout("sleep", "lock", AfterElmSleep)
  BY <1>8, GotoKeepsPc DEF LockTimeout, AfterElmSleep
<1>9. CASE LockTimeout("sleep", "resetlock", "baudlock")
           \/ LockTimeout("sleep", "baudlock", "lock")
  BY <1>9, GotoKeepsPc DEF LockTimeout
<1>10. CASE UartAwake \/ UartReceive \/ UartAccept \/ UartDrop
  BY <1>10, GotoKeepsPc DEF UartAwake, UartReceive, UartAccept, UartDrop
<1>11. CASE AutopidGates
  BY <1>11, GotoKeepsPc DEF AutopidGates, Pass, Park, Unpark, AutopidGoes
<1>12. CASE SendPid \/ Answered \/ PidsDone \/ Monitor \/ NoMonitor
  BY <1>12, GotoKeepsPc
     DEF SendPid, Answered, PidsDone, Monitor, NoMonitor, Pass, AutopidGoes
<1>13. CASE ClientSends \/ TerminalOpens \/ TerminalCloses
  BY <1>13 DEF ClientSends, TerminalOpens, TerminalCloses, PcOK
<1>14. CASE TerminalCommand
  BY <1>14, GotoKeepsPc DEF TerminalCommand
<1>15. CASE Publish \/ Sample \/ AwaitStable
  BY <1>15 DEF Publish, Sample, AwaitStable, PcOK
<1>16. CASE ClearAwake
  BY <1>16, GotoKeepsPc DEF ClearAwake
<1>17. CASE AnnounceSleep \/ AutopidIsIdle \/ IdleTimeout
  BY <1>17, GotoKeepsPc DEF AnnounceSleep, AutopidIsIdle, IdleTimeout
<1>18. CASE SendStSleep \/ StSleepDone \/ TearDown
  BY <1>18, GotoKeepsPc DEF SendStSleep, StSleepDone, TearDown, AfterElmSleep
<1>19. CASE StayAsleep \/ DropBack \/ ElmAsleep \/ ElmAwake
  BY <1>19, GotoKeepsPc DEF StayAsleep, DropBack, ElmAsleep, ElmAwake
<1>20. CASE HardReset \/ HardResetDone \/ SetBaudrate \/ BaudrateSet
  BY <1>20, GotoKeepsPc DEF HardReset, HardResetDone, SetBaudrate, BaudrateSet
<1>21. CASE Restart
  BY <1>21, StartedPc DEF Restart, PcOK
<1>22. CASE UNCHANGED vars
  BY <1>22 DEF vars, PcOK
<1>23. QED
  BY <1>1, <1>2, <1>3, <1>4, <1>5, <1>6, <1>7, <1>8, <1>9, <1>10, <1>11, <1>12,
     <1>13, <1>14, <1>15, <1>16, <1>17, <1>18, <1>19, <1>20, <1>21, <1>22, Steps

LEMMA DataStep == TypeOK /\ [Next]_vars => DataOK'
<1> SUFFICES ASSUME PcOK, DataOK, [Next]_vars PROVE DataOK'
  BY TypeParts
<1> USE PowerDownAssumption DEF DataOK
<1>1. ASSUME NEW t \in {"uart", "autopid", "terminal"}, RunCommand(t) PROVE DataOK'
  BY <1>1 DEF RunCommand, WriteCommand, Take, Tasks
<1>2. CASE \/ RunCommandDone("uart", "gate") \/ RunCommandDone("autopid", "gate")
           \/ RunCommandDone("terminal", "idle")
  BY <1>2 DEF RunCommandDone, Give
<1>3. CASE \/ LockTimeout("uart", "lock", "gate") \/ LockTimeout("autopid", "lock", "gate")
           \/ LockTimeout("terminal", "lock", "idle")
           \/ LockTimeout("sleep", "lock", AfterElmSleep)
           \/ LockTimeout("sleep", "resetlock", "baudlock")
           \/ LockTimeout("sleep", "baudlock", "lock")
  BY <1>3 DEF LockTimeout
<1>4. CASE UartAwake \/ UartReceive \/ UartAccept \/ UartDrop
  BY <1>4 DEF UartAwake, UartReceive, UartAccept, UartDrop, UartKeeps
<1>5. CASE AutopidGates
  BY <1>5 DEF AutopidGates, Pass, Park, Unpark, AutopidGoes, AutopidKeeps, Bits
<1>6. CASE SendPid \/ Answered \/ PidsDone \/ Monitor \/ NoMonitor
  BY <1>6 DEF SendPid, Answered, PidsDone, Monitor, NoMonitor, Pass, Enqueue,
              AutopidGoes, AutopidKeeps
<1>7. CASE ClientSends \/ TerminalOpens \/ TerminalCloses \/ TerminalCommand
  <2>1. bits' \subseteq Bits
    BY <1>7 DEF ClientSends, TerminalOpens, TerminalCloses, TerminalCommand, Bits
  <2>2. UNCHANGED <<config, mutex, chip, published, online, retries, handshake, late>>
    BY <1>7 DEF ClientSends, TerminalOpens, TerminalCloses, TerminalCommand
  <2>3. CASE ClientSends
    <3>1. Enqueue
      BY <2>3 DEF ClientSends
    <3>2. QED
      BY <2>1, <2>2, <3>1 DEF Enqueue
  <2>4. CASE TerminalOpens \/ TerminalCloses \/ TerminalCommand
    <3>1. UNCHANGED queue
      BY <2>4 DEF TerminalOpens, TerminalCloses, TerminalCommand
    <3>2. QED
      BY <2>1, <2>2, <3>1
  <2>5. QED
    BY <1>7, <2>3, <2>4
<1>8. CASE Publish \/ Sample \/ AwaitStable \/ ClearAwake
  BY <1>8 DEF Publish, Sample, AwaitStable, ClearAwake, SleepKeeps, Bits
<1>9. CASE AnnounceSleep \/ AutopidIsIdle \/ IdleTimeout
  BY <1>9 DEF AnnounceSleep, AutopidIsIdle, IdleTimeout, SleepKeeps, SleepOnlyMoves, Bits
<1>10. CASE SendStSleep \/ StSleepDone \/ TearDown
  BY <1>10 DEF SendStSleep, StSleepDone, TearDown, SleepKeeps, Take, Give, Tasks
<1>11. CASE StayAsleep \/ DropBack \/ ElmAsleep \/ ElmAwake
  BY <1>11 DEF StayAsleep, DropBack, ElmAsleep, ElmAwake, SleepKeeps, SleepOnlyMoves
<1>12. CASE HardReset \/ HardResetDone \/ SetBaudrate \/ BaudrateSet
  BY <1>12 DEF HardReset, HardResetDone, SetBaudrate, BaudrateSet, SleepKeeps, Take, Give, Tasks
<1>13. CASE Restart
  <2>1. config' \in [pausing : BOOLEAN, terminal : BOOLEAN]
    BY <1>13 DEF Restart
  <2>2. online' \in BOOLEAN /\ handshake' \in BOOLEAN
    BY <1>13, Zenon DEF Restart
  <2>3. bits' \subseteq Bits /\ published' \in {"NONE", "NORMAL", "SLEEPING", "WAKE_PENDING"}
    BY <1>13, StartedData DEF Restart, Bits
  <2>4. queue' \in 0..QueueSize /\ retries' \in 0..ElmSleepRetries /\ late' \in 0..2
    BY <1>13 DEF Restart
  <2>5. mutex' \in Tasks \cup {NoTask} /\ chip' \in {"ready", "asleep"}
    BY <1>13 DEF Restart
  <2>6. QED
    BY <2>1, <2>2, <2>3, <2>4, <2>5
<1>14. CASE UNCHANGED vars
  BY <1>14 DEF vars
<1>15. QED
  BY <1>1, <1>2, <1>3, <1>4, <1>5, <1>6, <1>7, <1>8, <1>9, <1>10, <1>11, <1>12,
     <1>13, <1>14, Steps

(* Every variable keeps its type: the command queue and the retries stay   *)
(* within their bounds.                                                    *)
THEOREM TypeCorrect == Spec => []TypeOK
<1>1. TypeOK /\ [Next]_vars => TypeOK'
  BY PcStep, DataStep, TypeParts DEF TypeOK, PcOK, DataOK
<1>2. QED
  BY TypeInit, <1>1, PTL DEF Spec

-----------------------------------------------------------------------------
(* The mutex of UART 1.                                                    *)
LEMMA DialogueStep == PcOK /\ OneDialogue /\ [Next]_vars => OneDialogue'
<1> SUFFICES ASSUME PcOK, OneDialogue, [Next]_vars PROVE OneDialogue'
  OBVIOUS
<1> USE DEF Tasks, OneDialogue, PcOK, Goto, At, NoTask
<1>1. ASSUME NEW t \in {"uart", "autopid", "terminal"}, RunCommand(t) PROVE OneDialogue'
  BY <1>1 DEF RunCommand, WriteCommand, Take
<1>2. CASE \/ RunCommandDone("uart", "gate") \/ RunCommandDone("autopid", "gate")
           \/ RunCommandDone("terminal", "idle")
  BY <1>2 DEF RunCommandDone, Give
<1>3. CASE \/ LockTimeout("uart", "lock", "gate") \/ LockTimeout("autopid", "lock", "gate")
           \/ LockTimeout("terminal", "lock", "idle")
           \/ LockTimeout("sleep", "lock", AfterElmSleep)
           \/ LockTimeout("sleep", "resetlock", "baudlock")
           \/ LockTimeout("sleep", "baudlock", "lock")
  BY <1>3 DEF LockTimeout, AfterElmSleep
<1>4. CASE UartAwake \/ UartReceive \/ UartAccept \/ UartDrop
  BY <1>4 DEF UartAwake, UartReceive, UartAccept, UartDrop, UartKeeps
<1>5. CASE AutopidGates
  BY <1>5 DEF AutopidGates, Pass, Park, Unpark, AutopidGoes, AutopidKeeps
<1>6. CASE SendPid \/ Answered \/ PidsDone \/ Monitor \/ NoMonitor
  BY <1>6 DEF SendPid, Answered, PidsDone, Monitor, NoMonitor, Pass,
              AutopidGoes, AutopidKeeps
<1>7. CASE ClientSends \/ TerminalOpens \/ TerminalCloses \/ TerminalCommand
  BY <1>7 DEF ClientSends, TerminalOpens, TerminalCloses, TerminalCommand
<1>8. CASE Publish \/ Sample \/ AwaitStable \/ ClearAwake
  BY <1>8 DEF Publish, Sample, AwaitStable, ClearAwake
<1>9. CASE AnnounceSleep \/ AutopidIsIdle \/ IdleTimeout
  BY <1>9 DEF AnnounceSleep, AutopidIsIdle, IdleTimeout, SleepOnlyMoves
<1>10. CASE SendStSleep \/ StSleepDone \/ TearDown
  BY <1>10 DEF SendStSleep, StSleepDone, TearDown, Take, Give, AfterElmSleep
<1>11. CASE StayAsleep \/ DropBack \/ ElmAsleep \/ ElmAwake
  BY <1>11 DEF StayAsleep, DropBack, ElmAsleep, ElmAwake, SleepOnlyMoves
<1>12. CASE HardReset \/ HardResetDone \/ SetBaudrate \/ BaudrateSet
  BY <1>12 DEF HardReset, HardResetDone, SetBaudrate, BaudrateSet, Take, Give
<1>13. CASE Restart
  BY <1>13, StartedPlaces DEF Restart
<1>14. CASE UNCHANGED vars
  BY <1>14 DEF vars
<1>15. QED
  BY <1>1, <1>2, <1>3, <1>4, <1>5, <1>6, <1>7, <1>8, <1>9, <1>10, <1>11, <1>12,
     <1>13, <1>14, Steps

(* Who holds the mutex of UART 1 is in a dialogue with the chip, and nobody*)
(* else is, however the waits for it end.                                  *)
THEOREM DialogueExclusive == Spec => []OneDialogue
<1>1. Init => OneDialogue
  BY StartedPlaces DEF Init, OneDialogue, Tasks, NoTask
<1>2. QED
  BY TypeCorrect, <1>1, DialogueStep, TypeParts, PTL DEF Spec

-----------------------------------------------------------------------------
(* The command in hand when DEV_AWAKE goes.  Afterwards the worker is in   *)
(* its dialogue or before a gate that only a boot opens.                   *)
StragglerInv ==
    /\ late \in 0..1
    /\ "AWAKE" \in bits => late = 0
    /\ late = 1 => pc["uart"] \in {"talk", "gate"}

LEMMA StragglerStep == PcOK /\ StragglerInv /\ [Next]_vars => StragglerInv'
<1> SUFFICES ASSUME PcOK, StragglerInv, [Next]_vars PROVE StragglerInv'
  OBVIOUS
<1> USE DEF Tasks, StragglerInv, PcOK, Goto, At
<1>1. ASSUME NEW t \in {"uart", "autopid", "terminal"}, RunCommand(t) PROVE StragglerInv'
  BY <1>1 DEF RunCommand, WriteCommand
<1>2. CASE \/ RunCommandDone("uart", "gate") \/ RunCommandDone("autopid", "gate")
           \/ RunCommandDone("terminal", "idle")
  BY <1>2 DEF RunCommandDone
<1>3. CASE \/ LockTimeout("uart", "lock", "gate") \/ LockTimeout("autopid", "lock", "gate")
           \/ LockTimeout("terminal", "lock", "idle")
           \/ LockTimeout("sleep", "lock", AfterElmSleep)
           \/ LockTimeout("sleep", "resetlock", "baudlock")
           \/ LockTimeout("sleep", "baudlock", "lock")
  BY <1>3 DEF LockTimeout
<1>4. CASE UartAwake \/ UartReceive \/ UartAccept \/ UartDrop
  BY <1>4 DEF UartAwake, UartReceive, UartAccept, UartDrop, UartKeeps
<1>5. CASE AutopidGates
  BY <1>5 DEF AutopidGates, Pass, Park, Unpark, AutopidGoes, AutopidKeeps, MayPoll
<1>6. CASE SendPid \/ Answered \/ PidsDone \/ Monitor \/ NoMonitor
  BY <1>6 DEF SendPid, Answered, PidsDone, Monitor, NoMonitor, Pass,
              AutopidGoes, AutopidKeeps
<1>7. CASE ClientSends \/ TerminalOpens \/ TerminalCloses \/ TerminalCommand
  BY <1>7 DEF ClientSends, TerminalOpens, TerminalCloses, TerminalCommand
<1>8. CASE Publish \/ Sample \/ AwaitStable \/ ClearAwake
  BY <1>8 DEF Publish, Sample, AwaitStable, ClearAwake, SleepKeeps
<1>9. CASE AnnounceSleep \/ AutopidIsIdle \/ IdleTimeout
  BY <1>9 DEF AnnounceSleep, AutopidIsIdle, IdleTimeout, SleepKeeps, SleepOnlyMoves
<1>10. CASE SendStSleep \/ StSleepDone \/ TearDown
  BY <1>10 DEF SendStSleep, StSleepDone, TearDown, SleepKeeps
<1>11. CASE StayAsleep \/ DropBack \/ ElmAsleep \/ ElmAwake
  BY <1>11 DEF StayAsleep, DropBack, ElmAsleep, ElmAwake, SleepKeeps, SleepOnlyMoves
<1>12. CASE HardReset \/ HardResetDone \/ SetBaudrate \/ BaudrateSet
  BY <1>12 DEF HardReset, HardResetDone, SetBaudrate, BaudrateSet, SleepKeeps
<1>13. CASE Restart
  BY <1>13, StartedData, StartedPlaces DEF Restart
<1>14. CASE UNCHANGED vars
  BY <1>14 DEF vars
<1>15. QED
  BY <1>1, <1>2, <1>3, <1>4, <1>5, <1>6, <1>7, <1>8, <1>9, <1>10, <1>11, <1>12,
     <1>13, <1>14, Steps

(* Of all the commands in the queue the worker executes at most one after  *)
(* DEV_AWAKE has gone.                                                     *)
THEOREM StragglerAlone == Spec => []OneStraggler
<1>1. Init => StragglerInv
  BY StartedData DEF Init, StragglerInv
<1>2. StragglerInv => OneStraggler
  BY DEF StragglerInv, OneStraggler
<1>3. QED
  BY TypeCorrect, <1>1, <1>2, StragglerStep, TypeParts, PTL DEF Spec

-----------------------------------------------------------------------------
(* The handshake.  Without the low-voltage pause and the terminal there is *)
(* a single place where autopid declares itself idle, and no way out of it.*)
Quiet == config.pausing = FALSE /\ config.terminal = FALSE

ParkInv ==
    /\ config.terminal = FALSE => "AUTOPID_ENABLED" \in bits
    /\ Quiet => pc["autopid"] \notin {"lowvolt", "off"}
    /\ Quiet /\ "AUTOPID_IDLE" \in bits => pc["autopid"] = "asleep"
    /\ Quiet /\ handshake = TRUE => pc["autopid"] = "asleep"

LEMMA ParkStep == TypeOK /\ ParkInv /\ [Next]_vars => ParkInv'
<1> SUFFICES ASSUME PcOK, config \in [pausing : BOOLEAN, terminal : BOOLEAN],
                    ParkInv, [Next]_vars
             PROVE  ParkInv'
  BY TypeParts DEF DataOK
<1> USE DEF Tasks, ParkInv, PcOK, Goto, At, Quiet
<1>1. ASSUME NEW t \in {"uart", "autopid", "terminal"}, RunCommand(t) PROVE ParkInv'
  BY <1>1 DEF RunCommand, WriteCommand
<1>2. CASE \/ RunCommandDone("uart", "gate") \/ RunCommandDone("autopid", "gate")
           \/ RunCommandDone("terminal", "idle")
  BY <1>2 DEF RunCommandDone
<1>3. CASE \/ LockTimeout("uart", "lock", "gate") \/ LockTimeout("autopid", "lock", "gate")
           \/ LockTimeout("terminal", "lock", "idle")
           \/ LockTimeout("sleep", "lock", AfterElmSleep)
           \/ LockTimeout("sleep", "resetlock", "baudlock")
           \/ LockTimeout("sleep", "baudlock", "lock")
  BY <1>3 DEF LockTimeout
<1>4. CASE UartAwake \/ UartReceive \/ UartAccept \/ UartDrop
  BY <1>4 DEF UartAwake, UartReceive, UartAccept, UartDrop, UartKeeps
<1>5. CASE AutopidGates
  BY <1>5 DEF AutopidGates, Pass, Park, Unpark, AutopidGoes, AutopidKeeps, MayPoll
<1>6. CASE SendPid \/ Answered \/ PidsDone \/ Monitor \/ NoMonitor
  BY <1>6 DEF SendPid, Answered, PidsDone, Monitor, NoMonitor, Pass,
              AutopidGoes, AutopidKeeps
<1>7. CASE ClientSends \/ TerminalOpens \/ TerminalCloses \/ TerminalCommand
  BY <1>7 DEF ClientSends, TerminalOpens, TerminalCloses, TerminalCommand
<1>8. CASE Publish \/ Sample \/ AwaitStable \/ ClearAwake
  BY <1>8 DEF Publish, Sample, AwaitStable, ClearAwake, SleepKeeps
<1>9. CASE AnnounceSleep \/ AutopidIsIdle \/ IdleTimeout
  BY <1>9 DEF AnnounceSleep, AutopidIsIdle, IdleTimeout, SleepKeeps, SleepOnlyMoves
<1>10. CASE SendStSleep \/ StSleepDone \/ TearDown
  BY <1>10 DEF SendStSleep, StSleepDone, TearDown, SleepKeeps
<1>11. CASE StayAsleep \/ DropBack \/ ElmAsleep \/ ElmAwake
  BY <1>11 DEF StayAsleep, DropBack, ElmAsleep, ElmAwake, SleepKeeps, SleepOnlyMoves
<1>12. CASE HardReset \/ HardResetDone \/ SetBaudrate \/ BaudrateSet
  BY <1>12 DEF HardReset, HardResetDone, SetBaudrate, BaudrateSet, SleepKeeps
<1>13. CASE Restart
  BY <1>13, StartedData, StartedPlaces DEF Restart
<1>14. CASE UNCHANGED vars
  BY <1>14 DEF vars
<1>15. QED
  BY <1>1, <1>2, <1>3, <1>4, <1>5, <1>6, <1>7, <1>8, <1>9, <1>10, <1>11, <1>12,
     <1>13, <1>14, Steps

(* Where polling does not pause on low voltage and the web terminal is not *)
(* used, a shutdown that saw DEV_AUTOPID_IDLE has autopid parked for good. *)
THEOREM HandshakeCorrect == Spec => []HandshakeParksAutopid
<1>1. Init => ParkInv
  <2> SUFFICES ASSUME Init PROVE ParkInv
    OBVIOUS
  <2>1. pc["autopid"] = "gate" /\ bits = {"AWAKE", "AUTOPID_ENABLED"}
    BY StartedPlaces, StartedData DEF Init
  <2>2. ~(handshake = TRUE)
    BY Zenon DEF Init
  <2>3. QED
    BY <2>1, <2>2 DEF ParkInv
<1>2. TypeOK /\ ParkInv => HandshakeParksAutopid
  <2> SUFFICES ASSUME TypeOK, ParkInv, handshake, ~config.pausing, ~config.terminal
               PROVE  pc["autopid"] = "asleep"
    BY DEF HandshakeParksAutopid, At
  <2>1. handshake \in BOOLEAN /\ config.pausing \in BOOLEAN /\ config.terminal \in BOOLEAN
    BY DEF TypeOK
  <2>2. handshake = TRUE /\ config.pausing = FALSE /\ config.terminal = FALSE
    BY <2>1, Zenon
  <2>3. QED
    BY <2>2 DEF ParkInv, Quiet
<1>3. QED
  BY TypeCorrect, <1>1, <1>2, ParkStep, PTL DEF Spec

-----------------------------------------------------------------------------
(* The shutdown as the other tasks see it: what has been done, by where    *)
(* light_sleep_task is.  Nobody else touches its two bits.                 *)
StageInv ==
    /\ "AWAKE" \in bits <=> pc["sleep"] = "awake"
    /\ "SLEEP" \in bits <=> pc["sleep"] \notin {"awake", "announce"}
    /\ online = TRUE <=> published \in {"NONE", "NORMAL"}
    /\ pc["sleep"] \in {"awake", "announce", "idle", "teardown"} => online = TRUE
    /\ pc["sleep"] \in {"down", "doze", "resetlock", "hardreset", "baudlock", "setbaud"}
         => online = FALSE

LEMMA StageStep == PcOK /\ StageInv /\ [Next]_vars => StageInv'
<1> SUFFICES ASSUME PcOK, StageInv, [Next]_vars PROVE StageInv'
  OBVIOUS
<1> USE DEF Tasks, StageInv, PcOK, Goto, At
<1>1. ASSUME NEW t \in {"uart", "autopid", "terminal"}, RunCommand(t) PROVE StageInv'
  BY <1>1 DEF RunCommand, WriteCommand
<1>2. CASE \/ RunCommandDone("uart", "gate") \/ RunCommandDone("autopid", "gate")
           \/ RunCommandDone("terminal", "idle")
  BY <1>2 DEF RunCommandDone
<1>3. CASE \/ LockTimeout("uart", "lock", "gate") \/ LockTimeout("autopid", "lock", "gate")
           \/ LockTimeout("terminal", "lock", "idle")
           \/ LockTimeout("sleep", "lock", AfterElmSleep)
           \/ LockTimeout("sleep", "resetlock", "baudlock")
           \/ LockTimeout("sleep", "baudlock", "lock")
  BY <1>3 DEF LockTimeout, AfterElmSleep
<1>4. CASE UartAwake \/ UartReceive \/ UartAccept \/ UartDrop
  BY <1>4 DEF UartAwake, UartReceive, UartAccept, UartDrop, UartKeeps
<1>5. CASE AutopidGates
  BY <1>5 DEF AutopidGates, Pass, Park, Unpark, AutopidGoes, AutopidKeeps
<1>6. CASE SendPid \/ Answered \/ PidsDone \/ Monitor \/ NoMonitor
  BY <1>6 DEF SendPid, Answered, PidsDone, Monitor, NoMonitor, Pass,
              AutopidGoes, AutopidKeeps
<1>7. CASE ClientSends \/ TerminalOpens \/ TerminalCloses \/ TerminalCommand
  BY <1>7 DEF ClientSends, TerminalOpens, TerminalCloses, TerminalCommand
<1>8. CASE Publish \/ Sample \/ AwaitStable \/ ClearAwake
  BY <1>8 DEF Publish, Sample, AwaitStable, ClearAwake
<1>9. CASE AnnounceSleep \/ AutopidIsIdle \/ IdleTimeout
  BY <1>9 DEF AnnounceSleep, AutopidIsIdle, IdleTimeout, SleepOnlyMoves
<1>10. CASE SendStSleep \/ StSleepDone \/ TearDown
  BY <1>10 DEF SendStSleep, StSleepDone, TearDown, AfterElmSleep
<1>11. CASE StayAsleep \/ DropBack \/ ElmAsleep \/ ElmAwake
  BY <1>11 DEF StayAsleep, DropBack, ElmAsleep, ElmAwake, SleepOnlyMoves
<1>12. CASE HardReset \/ HardResetDone \/ SetBaudrate \/ BaudrateSet
  BY <1>12 DEF HardReset, HardResetDone, SetBaudrate, BaudrateSet
<1>13. CASE Restart
  BY <1>13, StartedData, StartedPlaces DEF Restart
<1>14. CASE UNCHANGED vars
  BY <1>14 DEF vars
<1>15. QED
  BY <1>1, <1>2, <1>3, <1>4, <1>5, <1>6, <1>7, <1>8, <1>9, <1>10, <1>11, <1>12,
     <1>13, <1>14, Steps

(* Every other step leaves what PowerCycle sees as it is.                  *)
SeesNothing ==
    /\ UNCHANGED <<online, published>>
    /\ "AWAKE" \in bits' <=> "AWAKE" \in bits
    /\ "SLEEP" \in bits' <=> "SLEEP" \in bits

LEMMA Seen ==
    ASSUME [Next]_vars
    PROVE  \/ SeesNothing
           \/ Publish \/ ClearAwake \/ AnnounceSleep \/ TearDown
           \/ AwaitStable \/ DropBack \/ Restart
<1> USE DEF SeesNothing
<1>1. ASSUME NEW t \in {"uart", "autopid", "terminal"}, RunCommand(t) PROVE SeesNothing
  BY <1>1 DEF RunCommand, WriteCommand
<1>2. CASE \/ RunCommandDone("uart", "gate") \/ RunCommandDone("autopid", "gate")
           \/ RunCommandDone("terminal", "idle")
  BY <1>2 DEF RunCommandDone
<1>3. CASE \/ LockTimeout("uart", "lock", "gate") \/ LockTimeout("autopid", "lock", "gate")
           \/ LockTimeout("terminal", "lock", "idle")
           \/ LockTimeout("sleep", "lock", AfterElmSleep)
           \/ LockTimeout("sleep", "resetlock", "baudlock")
           \/ LockTimeout("sleep", "baudlock", "lock")
  BY <1>3 DEF LockTimeout, AfterElmSleep
<1>4. CASE UartAwake \/ UartReceive \/ UartAccept \/ UartDrop
  BY <1>4 DEF UartAwake, UartReceive, UartAccept, UartDrop, UartKeeps
<1>5. CASE AutopidGates
  BY <1>5 DEF AutopidGates, Pass, Park, Unpark, AutopidGoes, AutopidKeeps
<1>6. CASE SendPid \/ Answered \/ PidsDone \/ Monitor \/ NoMonitor
  BY <1>6 DEF SendPid, Answered, PidsDone, Monitor, NoMonitor, Pass,
              AutopidGoes, AutopidKeeps
<1>7. CASE ClientSends \/ TerminalOpens \/ TerminalCloses \/ TerminalCommand
  BY <1>7 DEF ClientSends, TerminalOpens, TerminalCloses, TerminalCommand
<1>8. CASE Sample \/ AutopidIsIdle \/ IdleTimeout
  BY <1>8 DEF Sample, AutopidIsIdle, IdleTimeout, SleepOnlyMoves
<1>9. CASE SendStSleep \/ StSleepDone \/ StayAsleep \/ ElmAsleep \/ ElmAwake
  BY <1>9 DEF SendStSleep, StSleepDone, StayAsleep, ElmAsleep, ElmAwake, SleepOnlyMoves
<1>10. CASE HardReset \/ HardResetDone \/ SetBaudrate \/ BaudrateSet
  BY <1>10 DEF HardReset, HardResetDone, SetBaudrate, BaudrateSet
<1>11. CASE UNCHANGED vars
  BY <1>11 DEF vars
<1>12. QED
  BY <1>1, <1>2, <1>3, <1>4, <1>5, <1>6, <1>7, <1>8, <1>9, <1>10, <1>11, Steps

(* However the other tasks come in between the steps of the shutdown, they *)
(* see DEV_AWAKE go, then DEV_SLEEP come, then the interfaces go together  *)
(* with the news, and a way back by a restart only.                        *)
THEOREM ShutdownFollowsCycle == Spec => ImplementsPowerCycle
<1>1. Init => StageInv
  BY StartedPlaces, StartedData DEF Init, StageInv
<1>2. Init => Cycle!CycleInit
  <2> SUFFICES ASSUME Init PROVE Cycle!CycleInit
    OBVIOUS
  <2>1. online = TRUE /\ published = "NONE" /\ bits = {"AWAKE", "AUTOPID_ENABLED"}
    BY StartedData, Zenon DEF Init
  <2>2. ("AWAKE" \in bits) = TRUE /\ ("SLEEP" \in bits) = FALSE
    BY <2>1
  <2>3. QED
    BY <2>1, <2>2, Zenon DEF Cycle!CycleInit
<1>3. PcOK /\ StageInv /\ [Next]_vars => [Cycle!CycleNext]_(Cycle!cycleVars)
  <2> SUFFICES ASSUME PcOK, StageInv, [Next]_vars
               PROVE  [Cycle!CycleNext]_(Cycle!cycleVars)
    OBVIOUS
  <2> USE DEF StageInv, At
  <2>1. CASE SeesNothing
    BY <2>1 DEF SeesNothing, Cycle!cycleVars
  <2>2. CASE Publish
    <3>1. Cycle!Report
      BY <2>2 DEF Publish, Cycle!Report, Cycle!AwakeStates
    <3>2. QED
      BY <3>1 DEF Cycle!CycleNext
  <2>3. CASE ClearAwake \/ AnnounceSleep
    <3>1. Cycle!LetGo
      BY <2>3 DEF ClearAwake, AnnounceSleep, Cycle!LetGo
    <3>2. QED
      BY <3>1 DEF Cycle!CycleNext
  <2>4. CASE TearDown
    <3>1. Cycle!TakeDown
      BY <2>4 DEF TearDown, Cycle!TakeDown
    <3>2. QED
      BY <3>1 DEF Cycle!CycleNext
  <2>5. CASE AwaitStable \/ DropBack
    <3>1. Cycle!Bounce
      BY <2>5 DEF AwaitStable, DropBack, Cycle!Bounce, Cycle!DormantStates
    <3>2. QED
      BY <3>1 DEF Cycle!CycleNext
  <2>6. CASE Restart
    <3>1. online' = TRUE /\ published' = "NONE" /\ bits' = {"AWAKE", "AUTOPID_ENABLED"}
      BY <2>6, StartedData, Zenon DEF Restart
    <3>2. ("AWAKE" \in bits)' = TRUE /\ ("SLEEP" \in bits)' = FALSE
      BY <3>1
    <3>3. Cycle!StartAfresh
      BY <3>1, <3>2, Zenon DEF Cycle!StartAfresh
    <3>4. QED
      BY <3>3 DEF Cycle!CycleNext
  <2>7. QED
    BY <2>1, <2>2, <2>3, <2>4, <2>5, <2>6, Seen
<1>4. QED
  BY <1>1, <1>2, <1>3, TypeCorrect, TypeParts, StageStep, PTL
  DEF Spec, ImplementsPowerCycle, Cycle!CycleSpec

-----------------------------------------------------------------------------
(* The UART and its queue.  What the worker has follows from its place.    *)
LEMMA InHandIs ==
    /\ pc["uart"] \in {"check", "lock"} => InHand = "command"
    /\ pc["uart"] = "talk" => InHand = "dialogue"
    /\ pc["uart"] \notin {"check", "lock", "talk"} => InHand = "empty"
    /\ pc'["uart"] \in {"check", "lock"} => InHand' = "command"
    /\ pc'["uart"] = "talk" => InHand' = "dialogue"
    /\ pc'["uart"] \notin {"check", "lock", "talk"} => InHand' = "empty"
BY DEF InHand

LEMMA InHandStays == pc'["uart"] = pc["uart"] => InHand' = InHand
BY DEF InHand

(* In the shutdown, too, commands leave the queue one by one, and the mutex*)
(* is given back by who took it.                                           *)
THEOREM ShutdownUsesChannel == Spec => ImplementsChannel
<1>1. Init => Channel!ChannelInit
  BY StartedPlaces DEF Init, Channel!ChannelInit, InHand
<1>2. TypeOK /\ [Next]_vars => [Channel!ChannelNext]_(Channel!channelVars)
  <2> SUFFICES ASSUME PcOK, DataOK, [Next]_vars
               PROVE  [Channel!ChannelNext]_(Channel!channelVars)
    BY TypeParts
  <2> USE DEF Tasks, PcOK, Goto, At
  <2>1. ASSUME UNCHANGED <<queue, mutex>>, pc'["uart"] = pc["uart"]
        PROVE  UNCHANGED Channel!channelVars
    BY <2>1, InHandStays DEF Channel!channelVars
  <2>2. ASSUME Enqueue, UNCHANGED mutex, pc'["uart"] = pc["uart"]
        PROVE  Channel!ChannelNext
    BY <2>2, InHandStays DEF Enqueue, Channel!ChannelNext, Channel!Queue
  <2>3. ASSUME NEW t \in Tasks \ {"uart"}, Take(t), UNCHANGED queue,
               pc'["uart"] = pc["uart"]
        PROVE  Channel!ChannelNext
    BY <2>3, InHandStays DEF Take, Channel!ChannelNext, Channel!Borrow
  <2>4. ASSUME NEW t \in Tasks \ {"uart"}, Give(t), UNCHANGED queue,
               pc'["uart"] = pc["uart"]
        PROVE  Channel!ChannelNext
    BY <2>4, InHandStays DEF Give, Channel!ChannelNext, Channel!Return
  <2>5. CASE RunCommand("uart")
    <3>1. Channel!Execute
      BY <2>5, InHandIs DEF RunCommand, WriteCommand, Take, Channel!Execute
    <3>2. QED
      BY <3>1 DEF Channel!ChannelNext
  <2>6. CASE RunCommandDone("uart", "gate")
    <3>1. Channel!Finish
      BY <2>6, InHandIs DEF RunCommandDone, Give, Channel!Finish
    <3>2. QED
      BY <3>1 DEF Channel!ChannelNext
  <2>7. CASE LockTimeout("uart", "lock", "gate") \/ UartDrop
    <3>1. Channel!Discard
      BY <2>7, InHandIs DEF LockTimeout, UartDrop, UartKeeps, Channel!Discard
    <3>2. QED
      BY <3>1 DEF Channel!ChannelNext
  <2>8. CASE UartReceive
    <3>1. Channel!Fetch
      BY <2>8, InHandIs DEF UartReceive, UartKeeps, Channel!Fetch
    <3>2. QED
      BY <3>1 DEF Channel!ChannelNext
  <2>9. CASE UartAwake \/ UartAccept
    <3>1. UNCHANGED <<queue, mutex>> /\ InHand' = InHand
      BY <2>9, InHandIs DEF UartAwake, UartAccept, UartKeeps
    <3>2. QED
      BY <3>1 DEF Channel!channelVars
  <2>10. ASSUME NEW t \in {"autopid", "terminal"}, RunCommand(t)
         PROVE  Channel!ChannelNext
    BY <2>10, <2>3 DEF RunCommand, WriteCommand
  <2>11. CASE RunCommandDone("autopid", "gate") \/ RunCommandDone("terminal", "idle")
    BY <2>11, <2>4 DEF RunCommandDone
  <2>12. CASE \/ LockTimeout("autopid", "lock", "gate")
              \/ LockTimeout("terminal", "lock", "idle")
              \/ LockTimeout("sleep", "lock", AfterElmSleep)
              \/ LockTimeout("sleep", "resetlock", "baudlock")
              \/ LockTimeout("sleep", "baudlock", "lock")
    BY <2>12, <2>1 DEF LockTimeout
  <2>13. CASE AutopidGates \/ Answered \/ PidsDone \/ NoMonitor
    BY <2>13, <2>1 DEF AutopidGates, Pass, Park, Unpark, Answered, PidsDone, NoMonitor,
                       AutopidGoes, AutopidKeeps
  <2>14. CASE SendPid \/ Monitor \/ ClientSends
    BY <2>14, <2>2 DEF SendPid, Monitor, ClientSends, AutopidGoes, AutopidKeeps
  <2>15. CASE TerminalOpens \/ TerminalCloses \/ TerminalCommand
    BY <2>15, <2>1 DEF TerminalOpens, TerminalCloses, TerminalCommand
  <2>16. CASE Publish \/ Sample \/ ClearAwake \/ AwaitStable \/ AnnounceSleep
    BY <2>16, <2>1 DEF Publish, Sample, ClearAwake, AwaitStable, AnnounceSleep, SleepKeeps
  <2>17. CASE AutopidIsIdle \/ IdleTimeout \/ TearDown \/ StayAsleep \/ DropBack
    BY <2>17, <2>1 DEF AutopidIsIdle, IdleTimeout, TearDown, StayAsleep, DropBack,
                       SleepKeeps, SleepOnlyMoves
  <2>18. CASE ElmAsleep \/ ElmAwake
    BY <2>18, <2>1 DEF ElmAsleep, ElmAwake, SleepKeeps
  <2>19. CASE SendStSleep \/ HardReset \/ SetBaudrate
    BY <2>19, <2>3 DEF SendStSleep, HardReset, SetBaudrate, SleepKeeps
  <2>20. CASE StSleepDone \/ HardResetDone \/ BaudrateSet
    BY <2>20, <2>4 DEF StSleepDone, HardResetDone, BaudrateSet, SleepKeeps
  <2>21. CASE Restart
    <3>1. Channel!StartAgain
      BY <2>21, InHandIs, StartedPlaces DEF Restart, Channel!StartAgain
    <3>2. QED
      BY <3>1 DEF Channel!ChannelNext
  <2>22. CASE UNCHANGED vars
    BY <2>22, <2>1 DEF vars
  <2>23. QED
    BY <2>5, <2>6, <2>7, <2>8, <2>9, <2>10, <2>11, <2>12, <2>13, <2>14, <2>15, <2>16,
       <2>17, <2>18, <2>19, <2>20, <2>21, <2>22, Steps
<1>3. QED
  BY <1>1, <1>2, TypeCorrect, PTL
  DEF Spec, ImplementsChannel, Channel!ChannelSpec
=============================================================================
