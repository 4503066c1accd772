------------------------- MODULE AutopidGroupsProofs -------------------------
(***************************************************************************)
(* For any number of groups: AutopidGroups keeps its types, the mutex has  *)
(* the holder each task believes it has, and an order received by MQTT     *)
(* stands until another order or its own time ends it.                     *)
(***************************************************************************)
EXTENDS AutopidGroups, TLAPS

(* What the mutex protects: who is inside it holds it.                     *)
MutexInv ==
    /\ pc \in Locked <=> lock = "autopid"
    /\ processing = "update" <=> lock = "processing"
    /\ order.at = "set" <=> lock = "mqtt"

(* The task is at a group wherever it looks at one.                        *)
AtGroup ==
    pc \in {"expire", "period", "poll", "gate", "gateBack", "query", "queryBack"}
        => next \in DOMAIN config.groups

(* The time found to be over is still over when the flag is cleared.       *)
ExpireInv == pc = "expire" => Group \in elapsed \ forever

IInv == TypeOK /\ MutexInv /\ AtGroup /\ ExpireInv

USE DEF NoTask, NoOrder

LEMMA ConfigTyped ==
    ASSUME config \in Configs
    PROVE  /\ config.groups \in Seq(Groups)
           /\ Len(config.groups) \in Nat
           /\ DOMAIN config.groups = 1..Len(config.groups)
           /\ config.changes \subseteq Surroundings
           /\ \A i \in DOMAIN config.groups : config.groups[i] \in Groups
<1>1. config \in ConfigType
  BY GroupsAssumption DEF GroupsAssumption
<1>. QED
  BY <1>1 DEF ConfigType

LEMMA InitInv == Init => IInv
<1>. SUFFICES ASSUME Init PROVE IInv
  OBVIOUS
<1>1. Len(config.groups) \in Nat
  BY ConfigTyped DEF Init
<1>2. MaxVoltage \in 0..MaxVoltage /\ Periodic \subseteq Groups
  BY GroupsAssumption DEF GroupsAssumption
<1>3. around \in AroundType
  BY <1>2 DEF Init, AroundType
<1>4. TypeOK
  <2>1. next \in 1..Len(config.groups) + 1
    BY <1>1 DEF Init
  <2>2. /\ config \in Configs /\ pc \in Gates /\ verdict \in Verdicts /\ hold \in Holds
        /\ order \in OrderType /\ lock = NoTask /\ processing = "wait"
        /\ due \subseteq Groups /\ cooling \subseteq Groups
        /\ active \subseteq Groups /\ forever \subseteq Groups /\ elapsed \subseteq Groups
    BY <1>2 DEF Init, Gates, Verdicts, Holds, OrderType
  <2>3. {polled, paused, idle, notified, rpm, document, supply, boot} \subseteq BOOLEAN
    BY DEF Init
  <2>. QED
    BY <1>3, <2>1, <2>2, <2>3 DEF TypeOK
<1>5. MutexInv /\ AtGroup /\ ExpireInv
  BY DEF Init, MutexInv, AtGroup, ExpireInv, Locked
<1>. QED
  BY <1>4, <1>5 DEF IInv

(* Skipping a group stays within the list, and leaves the places at which  *)
(* there is one.                                                           *)
LEMMA SkipTyped ==
    ASSUME TypeOK, next \in DOMAIN config.groups, Skip
    PROVE  next' \in 1..Len(config.groups) + 1 /\ pc' = "group"
BY ConfigTyped DEF TypeOK, Skip

LEMMA GateStep ==
    ASSUME IInv, AwakeGate \/ VoltageGate \/ EnabledGate
    PROVE  IInv'
<1>1. /\ pc \in Gates /\ pc' \in Gates \cup {"evaluate"} /\ idle' \in BOOLEAN
      /\ UNCHANGED <<config, around, next, verdict, polled, paused, lock, groupVars, order,
                     notified, processing, carVars, document, timeVars>>
  BY DEF IInv, TypeOK, AwakeGate, VoltageGate, EnabledGate, Gate, Go, Gates
<1>2. TypeOK'
  BY <1>1 DEF IInv, TypeOK, Gates, Unlocked, groupVars, carVars, timeVars
<1>. QED
  BY <1>1, <1>2 DEF IInv, MutexInv, AtGroup, ExpireInv, Gates, Locked, groupVars

LEMMA EvaluateStep == ASSUME IInv, Evaluate PROVE IInv'
<1>1. hold' \in Holds
  BY DEF IInv, TypeOK, Evaluate, SetHold, Holds
<1>2. paused' \in BOOLEAN
  BY DEF Evaluate
<1>3. /\ pc = "evaluate" /\ pc' \in {"filters", "take"}
      /\ UNCHANGED <<config, around, next, verdict, polled, idle, lock, groupVars, order,
                     notified, processing, carVars, document, boot>>
  BY DEF Evaluate, Go
<1>4. TypeOK'
  BY <1>1, <1>2, <1>3 DEF IInv, TypeOK, Unlocked, groupVars, carVars
<1>. QED
  BY <1>3, <1>4 DEF IInv, MutexInv, AtGroup, ExpireInv, Locked, groupVars

LEMMA CheckStep == ASSUME IInv, Check PROVE IInv'
<1>. USE DEF IInv
<1>1. next \in DOMAIN config.groups
  BY ConfigTyped DEF TypeOK, Check, Last
<1>2. /\ pc' \in {"group", "period", "expire", "gate"}
      /\ lock' = (IF pc' = "gate" THEN NoTask ELSE lock)
      /\ \/ next' = next
         \/ next' = next + 1 /\ pc' = "group"
      /\ pc' = "expire" => next' = next /\ Group \in elapsed \ forever
  BY DEF Check, CheckAlways, CheckVoltage, CheckEngine, CheckOrder, CheckCustom, Skip,
         GiveMutex
<1>3. /\ pc = "group"
      /\ UNCHANGED <<config, around, verdict, polled, paused, idle, groupVars, order,
                     notified, processing, carVars, document, timeVars>>
  BY DEF Check
<1>4. next' \in 1..Len(config.groups) + 1
  BY <1>1, <1>2, ConfigTyped DEF TypeOK
<1>5. lock = "autopid"
  BY <1>3 DEF MutexInv, Locked
<1>6. TypeOK'
  BY <1>2, <1>3, <1>4, <1>5 DEF TypeOK, Locked, Unlocked, groupVars, carVars, timeVars
<1>7. MutexInv'
  BY <1>2, <1>3, <1>5 DEF MutexInv, Locked
<1>8. AtGroup' /\ ExpireInv'
  BY <1>1, <1>2, <1>3 DEF AtGroup, ExpireInv, Group, groupVars
<1>. QED
  BY <1>6, <1>7, <1>8

LEMMA PassStep ==
    ASSUME IInv, Expire \/ Period \/ Poll \/ GroupsDone \/ Notify \/ Answer
    PROVE  IInv'
<1>. USE DEF IInv
<1>1. CASE Expire
  <2>1. next \in DOMAIN config.groups /\ lock = "autopid" /\ pc = "expire"
    BY <1>1 DEF Expire, AtGroup, MutexInv, Locked
  <2>2. next' \in 1..Len(config.groups) + 1 /\ pc' = "group"
    BY <1>1, <2>1, SkipTyped DEF Expire
  <2>3. TypeOK'
    BY <1>1, <2>2 DEF Expire, TypeOK, Locked, carVars, timeVars
  <2>. QED
    BY <1>1, <2>1, <2>2, <2>3 DEF Expire, MutexInv, AtGroup, ExpireInv, Locked
<1>2. CASE Period
  <2>1. next \in DOMAIN config.groups /\ lock = "autopid" /\ pc = "period"
    BY <1>2 DEF Period, AtGroup, MutexInv, Locked
  <2>2. /\ next' \in 1..Len(config.groups) + 1
        /\ pc' \in {"group", "poll"}
        /\ pc' = "poll" => next' = next
        /\ polled' \in BOOLEAN /\ due' \subseteq Groups
    BY <1>2, <2>1, SkipTyped DEF Period, TypeOK, Skip
  <2>3. TypeOK'
    BY <1>2, <2>2 DEF Period, TypeOK, Locked, carVars, timeVars
  <2>. QED
    BY <1>2, <2>1, <2>2, <2>3 DEF Period, MutexInv, AtGroup, ExpireInv, Locked
<1>3. CASE Poll
  <2>1. TypeOK'
    BY <1>3 DEF Poll, GiveMutex, TypeOK, Unlocked, groupVars, carVars, timeVars
  <2>. QED
    BY <1>3, <2>1 DEF Poll, GiveMutex, MutexInv, AtGroup, ExpireInv, Locked
<1>4. CASE GroupsDone
  <2>1. TypeOK'
    BY <1>4 DEF GroupsDone, GiveMutex, TypeOK, Unlocked, groupVars, carVars, timeVars
  <2>. QED
    BY <1>4, <2>1 DEF GroupsDone, GiveMutex, MutexInv, AtGroup, ExpireInv, Locked
<1>5. CASE Notify
  <2>1. TypeOK'
    BY <1>5 DEF Notify, Go, TypeOK, Unlocked, groupVars, carVars, timeVars
  <2>. QED
    BY <1>5, <2>1 DEF Notify, Go, MutexInv, AtGroup, ExpireInv, Locked
<1>6. CASE Answer
  <2>1. verdict' \in Verdicts
    BY <1>6 DEF Answer, Verdicts
  <2>2. TypeOK'
    BY <1>6, <2>1 DEF Answer, Go, TypeOK, Unlocked, groupVars, carVars, timeVars
  <2>. QED
    BY <1>6, <2>2 DEF Answer, Go, MutexInv, AtGroup, ExpireInv, Locked
<1>. QED
  BY <1>1, <1>2, <1>3, <1>4, <1>5, <1>6

LEMMA WaitStep == ASSUME IInv, Waiting PROVE IInv'
<1>. USE DEF IInv
<1>1. CASE Take
  <2>1. 1 \in 1..Len(config.groups) + 1
    BY ConfigTyped DEF TypeOK
  <2>2. TypeOK'
    BY <1>1, <2>1 DEF Take, TakeMutex, TypeOK, Locked, groupVars, carVars, timeVars
  <2>. QED
    BY <1>1, <2>2 DEF Take, TakeMutex, MutexInv, AtGroup, ExpireInv, Locked
<1>2. CASE GateBack
  <2>1. next \in DOMAIN config.groups /\ pc = "gateBack" /\ Group \in Groups
    BY <1>2, ConfigTyped DEF GateBack, AtGroup, TypeOK, Group
  <2>2. /\ next' \in 1..Len(config.groups) + 1 /\ cooling' \subseteq Groups
        /\ pc' \in {"group", "period"}
        /\ pc' = "period" => next' = next
    BY <1>2, <2>1, SkipTyped DEF GateBack, TypeOK, Skip
  <2>3. TypeOK'
    BY <1>2, <2>2 DEF GateBack, TypeOK, Locked, carVars, timeVars
  <2>. QED
    BY <1>2, <2>1, <2>2, <2>3 DEF GateBack, MutexInv, AtGroup, ExpireInv, Locked
<1>3. CASE QueryBack
  <2>1. next \in DOMAIN config.groups /\ pc = "queryBack"
    BY <1>3 DEF QueryBack, AtGroup
  <2>2. next' \in 1..Len(config.groups) + 1 /\ pc' = "group"
    BY <1>3, <2>1, SkipTyped DEF QueryBack
  <2>3. rpm' \in BOOLEAN /\ supply' \in BOOLEAN
    BY <1>3 DEF QueryBack, FileRpm, TypeOK, carVars
  <2>4. TypeOK'
    BY <1>3, <2>2, <2>3 DEF QueryBack, TypeOK, Locked, groupVars, timeVars
  <2>. QED
    BY <1>3, <2>1, <2>2, <2>4 DEF QueryBack, MutexInv, AtGroup, ExpireInv, Locked
<1>4. CASE Listen
  <2>1. TypeOK'
    BY <1>4 DEF Listen, TakeMutex, TypeOK, Locked, groupVars, carVars, timeVars
  <2>. QED
    BY <1>4, <2>1 DEF Listen, TakeMutex, MutexInv, AtGroup, ExpireInv, Locked
<1>. QED
  BY <1>1, <1>2, <1>3, <1>4 DEF Waiting

LEMMA FilterStep == ASSUME IInv, Filters \/ Monitor PROVE IInv'
<1>. USE DEF IInv
<1>1. CASE Filters
  <2>1. TypeOK'
    BY <1>1 DEF Filters, Go, TypeOK, Unlocked, Gates, groupVars, carVars, timeVars
  <2>. QED
    BY <1>1, <2>1 DEF Filters, Go, MutexInv, AtGroup, ExpireInv, Locked
<1>2. CASE Monitor
  <2>1. TypeOK'
    BY <1>2 DEF Monitor, GiveMutex, TypeOK, Gates, groupVars, carVars, timeVars
  <2>. QED
    BY <1>2, <2>1 DEF Monitor, GiveMutex, MutexInv, AtGroup, ExpireInv, Locked
<1>. QED
  BY <1>1, <1>2

LEMMA ProcessingStep == ASSUME IInv, Processing PROVE IInv'
<1>. USE DEF IInv
<1>. USE DEF Process, groupVars, taskVars, carVars, timeVars
<1>1. CASE TakeNotification
  BY <1>1 DEF TakeNotification, TypeOK, MutexInv, AtGroup, ExpireInv, Group
<1>2. CASE LockToUpdate
  BY <1>2 DEF LockToUpdate, TypeOK, MutexInv, AtGroup, ExpireInv, Group, Locked
<1>3. CASE GiveUpUpdate
  BY <1>3 DEF GiveUpUpdate, TypeOK, MutexInv, AtGroup, ExpireInv, Group
<1>4. CASE Update
  BY <1>4 DEF Update, TypeOK, MutexInv, AtGroup, ExpireInv, Group
<1>5. CASE Publish
  BY <1>5 DEF Publish, TypeOK, MutexInv, AtGroup, ExpireInv, Group
<1>. QED
  BY <1>1, <1>2, <1>3, <1>4, <1>5 DEF Processing

LEMMA OrderStep == ASSUME IInv, Ordering PROVE IInv'
<1>. USE DEF IInv, Command
<1>. USE DEF groupVars, taskVars, carVars, timeVars
<1>1. CASE ReceiveOrder
  <2>1. order' \in OrderType /\ order'.at = "lock" /\ order.at = "idle"
    BY <1>1, ConfigTyped DEF ReceiveOrder, OrderType, TypeOK
  <2>2. UNCHANGED <<config, around, taskVars, lock, groupVars, notified, processing,
                    carVars, document, timeVars>>
    BY <1>1 DEF ReceiveOrder
  <2>3. TypeOK'
    BY <2>1, <2>2 DEF TypeOK
  <2>. QED
    BY <2>1, <2>2, <2>3 DEF MutexInv, AtGroup, ExpireInv, Group
<1>2. CASE LockForOrder
  <2>1. order' \in OrderType /\ order'.at = "set" /\ order.at = "lock"
    BY <1>2 DEF LockForOrder, OrderType, TypeOK
  <2>2. /\ lock = NoTask /\ lock' = "mqtt"
        /\ UNCHANGED <<config, around, taskVars, groupVars, notified, processing, carVars,
                       document, timeVars>>
    BY <1>2 DEF LockForOrder
  <2>3. TypeOK'
    BY <2>1, <2>2 DEF TypeOK
  <2>. QED
    BY <2>1, <2>2, <2>3 DEF MutexInv, AtGroup, ExpireInv, Group
<1>3. CASE DropOrder
  <2>1. order' = NoOrder /\ order.at = "lock"
    BY <1>3 DEF DropOrder
  <2>2. UNCHANGED <<config, around, taskVars, lock, groupVars, notified, processing,
                    carVars, document, timeVars>>
    BY <1>3 DEF DropOrder
  <2>3. TypeOK'
    BY <2>1, <2>2 DEF TypeOK, OrderType
  <2>. QED
    BY <2>1, <2>2, <2>3 DEF MutexInv, AtGroup, ExpireInv, Group
<1>4. CASE SetGroup
  <2>1. order.at = "set" /\ order' = NoOrder /\ lock = "mqtt" /\ lock' = NoTask
    BY <1>4 DEF SetGroup, MutexInv
  <2>2. order.group \in Groups
    BY <2>1 DEF TypeOK, OrderType
  <2>3. active' \subseteq Groups /\ forever' \subseteq Groups /\ elapsed' \subseteq Groups
    BY <1>4, <2>2 DEF SetGroup, TypeOK
  <2>4. UNCHANGED <<config, around, taskVars, due, cooling, notified, processing, carVars,
                    document, timeVars>>
    BY <1>4 DEF SetGroup
  <2>5. TypeOK'
    BY <2>1, <2>3, <2>4 DEF TypeOK, OrderType
  <2>6. pc # "expire"
    BY <2>1 DEF MutexInv, Locked
  <2>. QED
    BY <2>1, <2>4, <2>5, <2>6 DEF MutexInv, AtGroup, ExpireInv
<1>. QED
  BY <1>1, <1>2, <1>3, <1>4 DEF Ordering

LEMMA TimeStep == ASSUME IInv, Time PROVE IInv'
<1>. USE DEF IInv
<1>1. /\ TimePasses /\ elapsed \subseteq elapsed' /\ elapsed' \subseteq Groups
      /\ due' \subseteq Groups /\ cooling' \subseteq Groups
      /\ boot' \in BOOLEAN /\ hold' \in Holds
  BY GroupsAssumption DEF GroupsAssumption, Time, PeriodOver, CoolingOver, OrderOver,
     BootOver, HoldOver, TypeOK, timeVars, Holds
<1>2. TypeOK'
  BY <1>1 DEF TypeOK, TimePasses, taskVars, carVars
<1>. QED
  BY <1>1, <1>2 DEF TimePasses, MutexInv, AtGroup, ExpireInv, Group, taskVars

LEMMA ChangeStep == ASSUME IInv, Change PROVE IInv'
<1>. USE DEF IInv
<1>1. around' \in AroundType
  <2>1. ASSUME NEW what \in Switches, around' = [around EXCEPT ![what] = ~@]
        PROVE  around' \in AroundType
    BY <2>1 DEF TypeOK, AroundType, Switches
  <2>2. ASSUME NEW level \in 0..MaxVoltage,
               around' = [around EXCEPT !.voltage = level]
        PROVE  around' \in AroundType
    BY <2>2 DEF TypeOK, AroundType
  <2>. QED
    BY <2>1, <2>2 DEF Change
<1>2. UNCHANGED <<config, taskVars, lock, groupVars, order, notified, processing, carVars,
                  document, timeVars>>
  BY DEF Change
<1>3. TypeOK'
  BY <1>1, <1>2 DEF TypeOK, taskVars, groupVars, carVars, timeVars
<1>. QED
  BY <1>2, <1>3 DEF MutexInv, AtGroup, ExpireInv, Group, taskVars, groupVars

LEMMA NextInv == IInv /\ [Next]_vars => IInv'
<1>. SUFFICES ASSUME IInv, [Next]_vars PROVE IInv'
  OBVIOUS
<1>1. CASE Autopid
  BY <1>1, GateStep, EvaluateStep, CheckStep, PassStep, FilterStep DEF Autopid
<1>2. CASE Waiting \/ Processing \/ Ordering
  BY <1>2, WaitStep, ProcessingStep, OrderStep
<1>3. CASE Time \/ Change
  BY <1>3, TimeStep, ChangeStep
<1>4. CASE UNCHANGED vars
  BY <1>4 DEF vars, IInv, TypeOK, MutexInv, AtGroup, ExpireInv, Group, taskVars, groupVars,
              carVars, timeVars
<1>. QED
  BY <1>1, <1>2, <1>3, <1>4 DEF Next

LEMMA Invariant == Spec => []IInv
BY InitInv, NextInv, PTL DEF Spec

(* Every variable keeps its type; the index of the group never leaves the  *)
(* list by more than one.                                                  *)
THEOREM TypeCorrect == Spec => []TypeOK
<1>1. IInv => TypeOK
  BY DEF IInv
<1>. QED
  BY <1>1, Invariant, PTL

(* The three tasks exclude each other wherever they believe they do.       *)
THEOREM MutexCorrect == Spec => []MutexInv
<1>1. IInv => MutexInv
  BY DEF IInv
<1>. QED
  BY <1>1, Invariant, PTL

(* Only two actions take a group out of the active ones.                   *)
LEMMA OrderStandsStep ==
    ASSUME IInv, Next, NEW g \in active \ active'
    PROVE  \/ order.at = "set" /\ order.group = g /\ ~order.on /\ order' = NoOrder
           \/ g \in elapsed \ forever
<1>1. CASE Expire
  BY <1>1 DEF Expire, IInv, ExpireInv
<1>2. CASE SetGroup
  BY <1>2 DEF SetGroup, Command
<1>3. CASE Autopid /\ ~Expire
  <2>1. active' = active
    BY <1>3 DEF Autopid, AwakeGate, VoltageGate, EnabledGate, Gate, Evaluate, Check, Answer,
       Period, Poll, GroupsDone, Notify, Filters, Monitor, groupVars
  <2>. QED
    BY <2>1
<1>4. CASE Waiting \/ Processing
  <2>1. active' = active
    BY <1>4 DEF Waiting, Take, GateBack, QueryBack, Listen, Processing, TakeNotification,
       LockToUpdate, GiveUpUpdate, Update, Publish, Process, groupVars
  <2>. QED
    BY <2>1
<1>5. CASE ReceiveOrder \/ LockForOrder \/ DropOrder \/ Time \/ Change
  <2>1. active' = active
    BY <1>5 DEF ReceiveOrder, LockForOrder, DropOrder, Time, PeriodOver, CoolingOver,
       OrderOver, BootOver, HoldOver, TimePasses, Change, groupVars
  <2>. QED
    BY <2>1
<1>. QED
  BY <1>1, <1>2, <1>3, <1>4, <1>5 DEF Next, Ordering

(* Whatever the groups, the orders and the interleaving: an order stands   *)
(* until another order or its own time ends it.                            *)
THEOREM OrdersStand == Spec => OrderStands
<1>1. IInv /\ [Next]_vars =>
        [\A g \in active \ active' :
           \/ order.at = "set" /\ order.group = g /\ ~order.on /\ order' = NoOrder
           \/ g \in elapsed \ forever]_vars
  BY OrderStandsStep
<1>. QED
  BY <1>1, Invariant, PTL DEF Spec, OrderStands
=============================================================================
