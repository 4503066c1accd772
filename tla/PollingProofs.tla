---------------------------- MODULE PollingProofs ----------------------------
(***************************************************************************)
(* Safety of Polling for every list of PIDs, every length of the queues    *)
(* and any number of init and scan commands.                               *)
(***************************************************************************)
EXTENDS Polling, TLAPS

(* Bounded sequences under the operations of a queue.                      *)
LEMMA AppendBounded ==
    ASSUME NEW S, NEW n \in Nat, NEW s \in BoundedSeq(S, n), Len(s) < n, NEW e \in S
    PROVE  Append(s, e) \in BoundedSeq(S, n)
BY DEF BoundedSeq

LEMMA TakeBounded ==
    ASSUME NEW S, NEW n \in Nat, NEW s \in BoundedSeq(S, n), s # <<>>
    PROVE  Head(s) \in S /\ Tail(s) \in BoundedSeq(S, n)
BY DEF BoundedSeq

LEMMA EmptyBounded ==
    ASSUME NEW S, NEW n \in Nat
    PROVE  <<>> \in BoundedSeq(S, n)
BY DEF BoundedSeq

LEMMA Sizes == CmdQueueSize \in Nat /\ AnswerQueueSize \in Nat
BY PollingAssumption

-----------------------------------------------------------------------------
(* Types.                                                                  *)
(* What the worker holds, by where it is; and the task that executes a PID *)
(* is at one.                                                              *)
WorkerInv ==
    /\ working = "receive" => worker = NoCommand
    /\ working \in {"lock", "talk"} => worker \in Command
    /\ working = "post" => worker \in Answer /\ worker.what # "QUIET"

AtPid == polling \in {"init", "flush", "await", "file"} => next <= Len(PidList)

TypeInv == TypeOK /\ WorkerInv /\ AtPid

LEMMA CurrentPid ==
    ASSUME next \in 1..Len(PidList) + 1, next <= Len(PidList)
    PROVE  /\ current \in Pids /\ Type[current] \in Types
           /\ next + 1 \in 1..Len(PidList) + 1
<1>1. next \in 1..Len(PidList)
  BY PollingAssumption
<1>2. current \in Pids
  BY <1>1 DEF Pids, current
<1>3. QED
  BY <1>1, <1>2, PollingAssumption

(* Records with the same fields are equal.                                 *)
LEMMA OldAnswer ==
    ASSUME NEW a \in Answer
    PROVE  Old(a) = [what |-> a.what, fresh |-> FALSE, verdict |-> a.verdict]
<1> DEFINE o == [a EXCEPT !.fresh = FALSE]
           r == [what |-> a.what, fresh |-> FALSE, verdict |-> a.verdict]
<1>1. o.what = r.what /\ o.fresh = r.fresh /\ o.verdict = r.verdict
  BY DEF Answer
<1>2. DOMAIN o = {"what", "fresh", "verdict"} /\ o = [i \in DOMAIN o |-> o[i]]
  BY DEF Answer
<1>3. DOMAIN r = {"what", "fresh", "verdict"} /\ r = [i \in DOMAIN r |-> r[i]]
  OBVIOUS
<1> HIDE DEF o, r
<1>4. o = r
  BY <1>1, <1>2, <1>3
<1>5. QED
  BY <1>4 DEF Old, o, r

LEMMA OldCommand ==
    ASSUME NEW S, NEW c \in [what : S, fresh : BOOLEAN]
    PROVE  Old(c) = [what |-> c.what, fresh |-> FALSE]
<1> DEFINE o == [c EXCEPT !.fresh = FALSE]
           r == [what |-> c.what, fresh |-> FALSE]
<1>1. o.what = r.what /\ o.fresh = r.fresh
  OBVIOUS
<1>2. DOMAIN o = {"what", "fresh"} /\ o = [i \in DOMAIN o |-> o[i]]
  OBVIOUS
<1>3. DOMAIN r = {"what", "fresh"} /\ r = [i \in DOMAIN r |-> r[i]]
  OBVIOUS
<1> HIDE DEF o, r
<1>4. o = r
  BY <1>1, <1>2, <1>3
<1>5. QED
  BY <1>4 DEF Old, o, r

LEMMA OldItems ==
    /\ \A c \in Command : Old(c) \in Command /\ Old(c).what = c.what
    /\ \A a \in Answer : Old(a) \in Answer /\ Old(a).what = a.what
    /\ Old(NoCommand) = NoCommand
<1>1. ASSUME NEW c \in Command PROVE Old(c) \in Command /\ Old(c).what = c.what
  <2>1. c \in [what : Pids \cup Others, fresh : BOOLEAN]
    BY DEF Command
  <2>2. Old(c) = [what |-> c.what, fresh |-> FALSE]
    BY <2>1, OldCommand
  <2>3. QED
    BY <2>1, <2>2 DEF Command
<1>2. ASSUME NEW a \in Answer PROVE Old(a) \in Answer /\ Old(a).what = a.what
  <2>1. Old(a) = [what |-> a.what, fresh |-> FALSE, verdict |-> a.verdict]
    BY OldAnswer
  <2>2. a.what \in Pids \cup Others /\ a.verdict \in Verdicts
    BY DEF Answer
  <2>3. QED
    BY <2>1, <2>2 DEF Answer
<1>3. NoCommand \in [what : {Nothing}, fresh : BOOLEAN] /\ NoCommand.what = Nothing
  BY DEF NoCommand
<1>4. Old(NoCommand) = NoCommand
  BY <1>3, OldCommand DEF NoCommand
<1>5. QED
  BY <1>1, <1>2, <1>4

LEMMA OldWorker ==
    ASSUME WorkerInv, TypeOK
    PROVE  /\ Old(worker) \in Command \cup Answer \cup {NoCommand}
           /\ working = "receive" => Old(worker) = NoCommand
           /\ working \in {"lock", "talk"} => Old(worker) \in Command
           /\ working = "post" => Old(worker) \in Answer /\ Old(worker).what # "QUIET"
BY OldItems DEF WorkerInv, TypeOK, WorkPlaces

LEMMA OldCommandsOK ==
    ASSUME commands \in BoundedSeq(Command, CmdQueueSize)
    PROVE  /\ OldCommands \in BoundedSeq(Command, CmdQueueSize)
           /\ Len(OldCommands) = Len(commands)
<1>1. commands \in Seq(Command) /\ Len(commands) <= CmdQueueSize
  BY DEF BoundedSeq
<1>2. DOMAIN commands = 1..Len(commands)
  BY <1>1
<1>3. \A i \in 1..Len(commands) : Old(commands[i]) \in Command
  BY <1>1, OldItems
<1>4. OldCommands \in Seq(Command) /\ Len(OldCommands) = Len(commands)
  BY <1>1, <1>2, <1>3 DEF OldCommands
<1>5. QED
  BY <1>1, <1>4 DEF BoundedSeq

LEMMA EnqueueOK ==
    ASSUME commands \in BoundedSeq(Command, CmdQueueSize),
           NEW what \in Pids \cup Others, NEW fresh \in BOOLEAN, Enqueue(what, fresh)
    PROVE  commands' \in BoundedSeq(Command, CmdQueueSize)
<1>1. [what |-> what, fresh |-> fresh] \in Command
  BY DEF Command
<1>2. QED
  BY <1>1, AppendBounded, Sizes DEF Enqueue

LEMMA WorkerTypes == ASSUME TypeInv, Worker PROVE TypeInv'
<1> USE DEF TypeInv, TypeOK, WorkerInv, AtPid, PollPlaces, WorkPlaces,
            ServePlaces, Work, WorkerDone
<1>1. CASE WorkerReceive
  <2>1. /\ Head(commands) \in Command
        /\ Tail(commands) \in BoundedSeq(Command, CmdQueueSize)
    BY <1>1, TakeBounded, Sizes DEF WorkerReceive
  <2>2. QED
    BY <1>1, <2>1 DEF WorkerReceive
<1>2. CASE WorkerTalks \/ WorkerDrops \/ WorkerSilent \/ WorkerPostFails
  BY <1>2 DEF WorkerTalks, WorkerDrops, WorkerSilent, WorkerPostFails
<1>3. CASE WorkerParses
  <2>1. worker \in Command
    BY <1>3 DEF WorkerParses
  <2>2. VerdictsOf(worker.what) \subseteq Verdicts
    BY DEF VerdictsOf, Verdicts
  <2>3. worker' \in Answer /\ worker'.what # "QUIET"
    BY <1>3, <2>1, <2>2 DEF WorkerParses, Command, Answer
  <2>4. QED
    BY <1>3, <2>3 DEF WorkerParses
<1>4. CASE WorkerPosts
  <2>1. answers' \in BoundedSeq(Answer, AnswerQueueSize)
    BY <1>4, AppendBounded, Sizes DEF WorkerPosts
  <2>2. QED
    BY <1>4, <2>1 DEF WorkerPosts
<1>5. QED
  BY <1>1, <1>2, <1>3, <1>4 DEF Worker

(* Only Flush touches what the worker has; every step is at a PID or goes  *)
(* to one.                                                                 *)
LEMMA AutopidTypes == ASSUME TypeInv, Autopid PROVE TypeInv'
<1> USE DEF PollPlaces, Poll, Executed, Lock, Unlock, chipVars, fileVars, passVars,
            turnVars
<1>1. TypeOK /\ WorkerInv /\ AtPid
  BY DEF TypeInv
<1>2. CASE Flush
  <2>1. /\ commands' \in BoundedSeq(Command, CmdQueueSize)
        /\ answers' \in BoundedSeq(Answer, AnswerQueueSize)
    BY <1>1, <1>2, OldCommandsOK, EmptyBounded, Sizes DEF Flush, TypeOK
  <2>2. WorkerInv' /\ worker' \in Command \cup Answer \cup {NoCommand}
    BY <1>1, <1>2, OldWorker DEF Flush, WorkerInv
  <2>3. clean' \in BOOLEAN
    BY <1>2 DEF Flush, NothingOnItsWay
  <2>4. TypeOK' /\ AtPid'
    BY <1>1, <1>2, <2>1, <2>2, <2>3 DEF Flush, TypeOK, AtPid
  <2>5. QED
    BY <2>2, <2>4 DEF TypeInv
<1>3. ASSUME PassPaused PROVE TypeOK' /\ AtPid'
  BY <1>1, <1>3 DEF PassPaused, TypeOK, AtPid
<1>4. ASSUME PassBegins PROVE TypeOK' /\ AtPid'
  BY <1>1, <1>4, PollingAssumption DEF PassBegins, TypeOK, AtPid
<1>5. ASSUME Skip PROVE TypeOK' /\ AtPid'
  BY <1>1, <1>5 DEF Skip, TypeOK, AtPid
<1>6. ASSUME Select PROVE TypeOK' /\ AtPid'
  BY <1>1, <1>6, CurrentPid, PollingAssumption DEF Select, TypeOK, AtPid
<1>7. ASSUME SendAt PROVE TypeOK' /\ AtPid'
  <2>1. commands' \in BoundedSeq(Command, CmdQueueSize)
    BY <1>1, <1>7, EnqueueOK DEF SendAt, Others, TypeOK, AtPid
  <2>2. QED
    BY <1>1, <1>7, <2>1 DEF SendAt, TypeOK, AtPid
<1>8. ASSUME Send PROVE TypeOK' /\ AtPid'
  <2>1. commands' \in BoundedSeq(Command, CmdQueueSize)
    BY <1>1, <1>8, EnqueueOK, CurrentPid DEF Send, TypeOK, AtPid
  <2>2. QED
    BY <1>1, <1>8, <2>1 DEF Send, TypeOK, AtPid
<1>9. ASSUME Receive PROVE TypeOK' /\ AtPid'
  <2>1. /\ Head(answers) \in Answer
        /\ Tail(answers) \in BoundedSeq(Answer, AnswerQueueSize)
    BY <1>1, <1>9, TakeBounded, Sizes DEF Receive, TypeOK, AtPid
  <2>2. QED
    BY <1>1, <1>9, <2>1 DEF Receive, TypeOK, AtPid
<1>10. ASSUME ReceiveTimeout PROVE TypeOK' /\ AtPid'
  BY <1>1, <1>10 DEF ReceiveTimeout, TypeOK, AtPid
<1>11. ASSUME PidFails PROVE TypeOK' /\ AtPid'
  <2>1. /\ status' \in [Pids -> Statuses] /\ ecu' \in BOOLEAN
        /\ next' \in 1..Len(PidList) + 1
    BY <1>1, <1>11, CurrentPid DEF PidFails, Statuses, TypeOK, AtPid
  <2>2. clean' \in BOOLEAN /\ taken' = Timeout
    BY <1>11, Zenon DEF PidFails
  <2>3. /\ Poll("file", "visit") /\ Lock
        /\ UNCHANGED <<chipVars, answers, filterDue, paused, lastType, toSend>>
    BY <1>11, Zenon DEF PidFails
  <2>4. QED
    BY <1>1, <2>1, <2>2, <2>3 DEF TypeOK, AtPid
<1>12. ASSUME CrosstalkDropped PROVE TypeOK' /\ AtPid'
  <2>1. /\ status' \in [Pids -> Statuses] /\ ecu' \in BOOLEAN
        /\ next' \in 1..Len(PidList) + 1
    BY <1>1, <1>12, CurrentPid DEF CrosstalkDropped, Statuses, TypeOK, AtPid
  <2>2. clean' \in BOOLEAN /\ taken' = Timeout
    BY <1>12, Zenon DEF CrosstalkDropped
  <2>3. /\ Poll("file", "visit") /\ Lock
        /\ UNCHANGED <<chipVars, answers, filterDue, paused, lastType, toSend>>
    BY <1>12, Zenon DEF CrosstalkDropped
  <2>4. QED
    BY <1>1, <2>1, <2>2, <2>3 DEF TypeOK, AtPid
<1>13. ASSUME PidFiled PROVE TypeOK' /\ AtPid'
  <2>1. /\ status' \in [Pids -> Statuses] /\ ecu' \in BOOLEAN
        /\ next' \in 1..Len(PidList) + 1
    BY <1>1, <1>13, CurrentPid DEF PidFiled, Statuses, Origin, TypeOK, AtPid
  <2>2. clean' \in BOOLEAN /\ taken' = Timeout
    BY <1>13, Zenon DEF PidFiled
  <2>3. /\ Poll("file", "visit") /\ Lock
        /\ UNCHANGED <<chipVars, answers, filterDue, paused, lastType, toSend>>
    BY <1>13, Zenon DEF PidFiled
  <2>4. QED
    BY <1>1, <2>1, <2>2, <2>3 DEF TypeOK, AtPid
<1>14. ASSUME PassEnds PROVE TypeOK' /\ AtPid'
  BY <1>1, <1>14 DEF PassEnds, TypeOK, AtPid
<1>15. ASSUME NoFilters PROVE TypeOK' /\ AtPid'
  BY <1>1, <1>15 DEF NoFilters, TypeOK, AtPid
<1>16. ASSUME Drain PROVE TypeOK' /\ AtPid'
  BY <1>1, <1>16, EmptyBounded, Sizes DEF Drain, TypeOK, AtPid
<1>17. ASSUME FilterNotDue PROVE TypeOK' /\ AtPid'
  BY <1>1, <1>17 DEF FilterNotDue, TypeOK, AtPid
<1>18. ASSUME Monitor PROVE TypeOK' /\ AtPid'
  BY <1>1, <1>18 DEF Monitor, TypeOK, AtPid
<1>19. ASSUME Listen PROVE TypeOK' /\ AtPid'
  BY <1>1, <1>19 DEF Listen, TypeOK, AtPid
<1>20. ASSUME HearFrame PROVE TypeOK' /\ AtPid'
  <2>1. [what |-> "FRAME", fresh |-> FALSE, verdict |-> "data"] \in Answer
    BY DEF Answer, Others, Verdicts
  <2>2. answers' \in BoundedSeq(Answer, AnswerQueueSize)
    BY <1>1, <1>20, <2>1, AppendBounded, Sizes DEF HearFrame, TypeOK, AtPid
  <2>3. QED
    BY <1>1, <1>20, <2>2 DEF HearFrame, TypeOK, AtPid
<1>21. ASSUME ListenEnds PROVE TypeOK' /\ AtPid'
  BY <1>1, <1>21 DEF ListenEnds, TypeOK, AtPid
<1>22. ASSUME ListenFails PROVE TypeOK' /\ AtPid'
  BY <1>1, <1>22 DEF ListenFails, TypeOK, AtPid
<1>23. ASSUME Decode PROVE TypeOK' /\ AtPid'
  <2>1. Tail(answers) \in BoundedSeq(Answer, AnswerQueueSize)
    BY <1>1, <1>23, TakeBounded, Sizes DEF Decode, TypeOK, AtPid
  <2>2. /\ answers' \in BoundedSeq(Answer, AnswerQueueSize)
        /\ filterDue' \in BOOLEAN
    BY <1>1, <1>23, <2>1, Zenon DEF Decode
  <2>3. /\ Poll("decode", "decode")
        /\ UNCHANGED <<lock, chipVars, status, ecu, passVars, turnVars, toSend>>
    BY <1>1, <1>23, Zenon DEF Decode
  <2>4. QED
    BY <1>1, <2>2, <2>3 DEF TypeOK, AtPid
<1>24. ASSUME Restore PROVE TypeOK' /\ AtPid'
  BY <1>1, <1>24 DEF Restore, TypeOK, AtPid
<1>25. ASSUME MonitorEnds PROVE TypeOK' /\ AtPid'
  <2>1. filterDue' \in BOOLEAN
    BY <1>1, <1>25, Zenon DEF MonitorEnds
  <2>2. /\ Poll("restore", "check") /\ Unlock
        /\ UNCHANGED <<chipVars, answers, status, ecu, passVars, turnVars, toSend>>
    BY <1>1, <1>25, Zenon DEF MonitorEnds
  <2>3. QED
    BY <1>1, <2>1, <2>2 DEF TypeOK, AtPid
<1>26. ASSUME CheckNotDue PROVE TypeOK' /\ AtPid'
  <2>1. paused' \in BOOLEAN
    BY <1>1, <1>26, Zenon DEF CheckNotDue
  <2>2. Poll("check", "loop") /\ UNCHANGED <<lock, chipVars, answers, fileVars, next,
                                             lastType, turnVars, toSend>>
    BY <1>1, <1>26, Zenon DEF CheckNotDue
  <2>3. QED
    BY <1>1, <2>1, <2>2 DEF TypeOK, AtPid
<1>27. ASSUME CheckDue PROVE TypeOK' /\ AtPid'
  BY <1>1, <1>27 DEF CheckDue, TypeOK, AtPid
<1>28. ASSUME CheckEcu PROVE TypeOK' /\ AtPid'
  BY <1>1, <1>28 DEF CheckEcu, AllParametersFailed, TypeOK, AtPid
<1>29. ASSUME Autopid, ~Flush PROVE UNCHANGED <<working, worker>>
  BY <1>29 DEF Autopid, PassPaused, PassBegins, Skip, Select, SendAt, Send, Receive,
     ReceiveTimeout, PidFails, CrosstalkDropped, PidFiled, PassEnds, NoFilters,
        Drain, FilterNotDue, Monitor, Listen, HearFrame, ListenEnds, ListenFails,
           Decode, Restore, MonitorEnds, CheckNotDue, CheckDue, CheckEcu
<1>30. ASSUME ~Flush PROVE TypeOK' /\ AtPid'
  BY <1>30, <1>3, <1>4, <1>5, <1>6, <1>7, <1>8, <1>9, <1>10, <1>11, <1>12, <1>13,
     <1>14, <1>15, <1>16, <1>17, <1>18, <1>19, <1>20, <1>21, <1>22, <1>23, <1>24,
        <1>25, <1>26, <1>27, <1>28 DEF Autopid
<1>31. QED
  BY <1>1, <1>2, <1>29, <1>30 DEF TypeInv, WorkerInv

(* A request of the web server touches neither the worker nor autopid.     *)
LEMMA HttpTypes == ASSUME TypeInv, Http PROVE TypeInv'
<1> DEFINE
      Same == UNCHANGED <<polling, working, worker, paused, next, taken, toSend,
                          lastType, status, ecu, filterDue>>
      Theirs == /\ serving' \in ServePlaces /\ lock' \in {"autopid", "http", NoTask}
                /\ uart' \in {"autopid", "http", "worker", NoTask}
                /\ commands' \in BoundedSeq(Command, CmdQueueSize)
                /\ answers' \in BoundedSeq(Answer, AnswerQueueSize)
                /\ toAsk' \in Nat /\ clean' \in BOOLEAN
<1> USE DEF Serve, Unlock, chipVars, fileVars, passVars, turnVars, ServePlaces
<1>1. TypeOK /\ WorkerInv /\ AtPid
  BY DEF TypeInv
<1>2. ASSUME ScanBegins \/ ScanConfigured \/ ScanDrained \/ ScanTimeout \/ ScanEnds
      PROVE  Same /\ Theirs
  BY <1>1, <1>2, PollingAssumption DEF TypeOK, ScanBegins, ScanConfigured,
     ScanDrained, ScanTimeout, ScanEnds
<1>3. ASSUME SendQuietly PROVE Same /\ Theirs
  <2>1. commands' \in BoundedSeq(Command, CmdQueueSize)
    BY <1>1, <1>3, EnqueueOK DEF TypeOK, SendQuietly, Others
  <2>2. QED
    BY <1>1, <1>3, <2>1 DEF TypeOK, SendQuietly
<1>4. ASSUME ScanAsks PROVE Same /\ Theirs
  <2>1. commands' \in BoundedSeq(Command, CmdQueueSize)
    BY <1>1, <1>4, EnqueueOK DEF TypeOK, ScanAsks, Others
  <2>2. Same /\ serving' = "answer" /\ clean' = FALSE /\ UNCHANGED <<lock, uart, answers>>
    BY <1>4 DEF ScanAsks
  <2>3. toAsk' \in Nat
    BY <1>1, <1>4 DEF TypeOK, ScanAsks
  <2>4. QED
    BY <1>1, <2>1, <2>2, <2>3 DEF TypeOK
<1>5. ASSUME ScanDrains \/ ScanReceives PROVE Same /\ Theirs
  <2>1. Tail(answers) \in BoundedSeq(Answer, AnswerQueueSize)
    BY <1>1, <1>5, TakeBounded, Sizes DEF TypeOK, ScanDrains, ScanReceives
  <2>2. QED
    BY <1>1, <1>5, <2>1 DEF TypeOK, ScanDrains, ScanReceives
<1>6. ASSUME TestBegins \/ TestListens \/ TestHeard \/ TestRestores \/ TestEnds
      PROVE  Same /\ Theirs
  BY <1>1, <1>6, PollingAssumption DEF TypeOK, TestBegins, TestEnds, TestListens,
     TestHeard, TestRestores
<1>7. Same /\ Theirs
  BY <1>2, <1>3, <1>4, <1>5, <1>6 DEF Http, HttpGoesOn
<1>8. QED
  BY <1>1, <1>7 DEF TypeInv, TypeOK, WorkerInv, AtPid

LEMMA TypeStep == TypeInv /\ [Next]_vars => TypeInv'
<1> SUFFICES ASSUME TypeInv, [Next]_vars PROVE TypeInv'
  OBVIOUS
<1>1. CASE Next
  BY <1>1, WorkerTypes, AutopidTypes, HttpTypes DEF Next
<1>2. CASE UNCHANGED vars
  BY <1>2 DEF vars, TypeInv, TypeOK, WorkerInv, AtPid
<1>3. QED
  BY <1>1, <1>2

LEMMA TypeInit == Init => TypeInv
<1> SUFFICES ASSUME Init PROVE TypeInv
  OBVIOUS
<1>1. /\ commands \in BoundedSeq(Command, CmdQueueSize)
      /\ answers \in BoundedSeq(Answer, AnswerQueueSize)
  BY EmptyBounded, Sizes DEF Init
<1>2. next \in 1..Len(PidList) + 1
  BY PollingAssumption DEF Init
<1>3. WorkerInv /\ AtPid
  BY DEF Init, WorkerInv, AtPid
<1>4. TypeOK
  BY <1>1, <1>2 DEF Init, TypeOK, PollPlaces, WorkPlaces, ServePlaces, Statuses
<1>5. QED
  BY <1>3, <1>4 DEF TypeInv

(* Every variable keeps its type; no queue is ever overrun.                *)
THEOREM TypeCorrect == Spec => []TypeOK
<1>1. TypeInv => TypeOK
  BY DEF TypeInv
<1>2. QED
  BY TypeInit, TypeStep, <1>1, PTL DEF Spec

-----------------------------------------------------------------------------
(* The mutex of autopid_config.                                            *)
(* The owner is known by where the tasks are: the worker never takes the   *)
(* mutex, and each of the others has it exactly in its places.             *)
LEMMA OwnerStep == OneOwner /\ [Next]_vars => OneOwner'
<1> SUFFICES ASSUME OneOwner, [Next]_vars PROVE OneOwner'
  OBVIOUS
<1> USE DEF OneOwner, Poll, Executed, Lock, Unlock, Serve, NoTask,
            chipVars, fileVars, passVars, turnVars
<1>1. CASE Worker
  <2>1. UNCHANGED <<polling, serving, lock>>
    BY <1>1 DEF Worker, WorkerReceive, WorkerTalks, WorkerDrops, WorkerSilent,
       WorkerParses, WorkerPosts, WorkerPostFails, WorkerDone, Work
  <2>2. QED
    BY <2>1
<1>2. CASE PassPaused \/ PassBegins \/ Skip \/ Select \/ PassEnds
  BY <1>2 DEF PassPaused, PassBegins, Skip, Select, PassEnds
<1>3. CASE SendAt \/ Flush \/ Send \/ Receive \/ ReceiveTimeout
  BY <1>3 DEF SendAt, Flush, Send, Receive, ReceiveTimeout
<1>4. CASE PidFails \/ CrosstalkDropped \/ PidFiled
  BY <1>4 DEF PidFails, CrosstalkDropped, PidFiled
<1>5. CASE NoFilters \/ Drain \/ FilterNotDue \/ Monitor
  BY <1>5 DEF NoFilters, Drain, FilterNotDue, Monitor
<1>6. CASE Listen \/ HearFrame \/ ListenEnds \/ ListenFails
  BY <1>6 DEF Listen, HearFrame, ListenEnds, ListenFails
<1>7. CASE Decode \/ Restore \/ MonitorEnds
  BY <1>7 DEF Decode, Restore, MonitorEnds
<1>8. CASE CheckNotDue \/ CheckDue \/ CheckEcu
  BY <1>8 DEF CheckNotDue, CheckDue, CheckEcu
<1>9. CASE ScanBegins \/ ScanConfigured \/ ScanDrains \/ ScanDrained
  BY <1>9 DEF ScanBegins, ScanConfigured, ScanDrains, ScanDrained
<1>10. CASE SendQuietly \/ ScanAsks \/ ScanReceives \/ ScanTimeout \/ ScanEnds
  BY <1>10 DEF SendQuietly, ScanAsks, ScanReceives, ScanTimeout, ScanEnds
<1>11. CASE TestBegins \/ TestListens \/ TestHeard \/ TestRestores \/ TestEnds
  BY <1>11 DEF TestBegins, TestEnds, TestListens, TestHeard, TestRestores
<1>12. CASE UNCHANGED vars
  BY <1>12 DEF vars
<1>13. QED
  BY <1>1, <1>2, <1>3, <1>4, <1>5, <1>6, <1>7, <1>8, <1>9, <1>10, <1>11, <1>12
     DEF Next, Autopid, Http, HttpGoesOn

(* The polling task and the web server have the configuration in turn, for *)
(* however many PIDs, commands and queue places.                           *)
THEOREM OwnerCorrect == Spec => []OneOwner
<1>1. Init => OneOwner
  BY DEF Init, OneOwner, NoTask
<1>2. QED
  BY <1>1, OwnerStep, PTL DEF Spec

-----------------------------------------------------------------------------
(* Values of "22" PIDs.                                                    *)
(* Only PidFiled accepts an answer, and for such a PID after HasDid.       *)
LEMMA DidStep == TypeInv /\ OwnDid /\ [Next]_vars => OwnDid'
<1> SUFFICES ASSUME TypeInv, OwnDid, [Next]_vars PROVE OwnDid'
  OBVIOUS
<1>1. status \in [Pids -> Statuses] /\ Validated \subseteq Pids
  BY PollingAssumption DEF TypeInv, TypeOK
<1>2. CASE PidFails
  BY <1>1, <1>2 DEF PidFails, OwnDid
<1>3. CASE PidFiled
  <2>1. PICK s \in {Origin(taken, current), "failed"} :
          status' = [status EXCEPT ![current] = s]
    BY <1>3 DEF PidFiled
  <2>2. current \in Validated => s # "foreign"
    BY <1>3, <2>1 DEF PidFiled, HasDid, Origin
  <2>3. QED
    BY <1>1, <2>1, <2>2 DEF OwnDid
<1>4. ASSUME UNCHANGED status PROVE OwnDid'
  BY <1>4 DEF OwnDid
<1>5. CASE Worker \/ Http
  <2>1. UNCHANGED status
    BY <1>5 DEF Worker, WorkerReceive, WorkerTalks, WorkerDrops, WorkerSilent,
       WorkerParses, WorkerPosts, WorkerPostFails, WorkerDone, Work,
       Http, HttpGoesOn, ScanBegins, ScanConfigured, ScanDrains, ScanDrained,
       SendQuietly, ScanAsks, ScanReceives, ScanTimeout, ScanEnds,
       TestBegins, TestEnds, TestListens, TestHeard, TestRestores, Serve, fileVars
  <2>2. QED
    BY <1>4, <2>1
<1>6. CASE Autopid /\ ~PidFails /\ ~PidFiled
  <2>1. UNCHANGED status
    BY <1>6 DEF Autopid, PassPaused, PassBegins, Skip, Select, PassEnds,
       SendAt, Flush, Send, Receive, ReceiveTimeout, CrosstalkDropped,
       NoFilters, Drain, FilterNotDue, Monitor, Listen, HearFrame, ListenEnds,
       ListenFails, Decode, Restore, MonitorEnds, CheckNotDue, CheckDue, CheckEcu,
       fileVars
  <2>2. QED
    BY <1>4, <2>1
<1>7. CASE UNCHANGED vars
  BY <1>4, <1>7 DEF vars
<1>8. QED
  BY <1>2, <1>3, <1>5, <1>6, <1>7 DEF Next

(* No late answer, init command's answer, frame or answer to a scan is     *)
(* ever the value of a "22" PID.                                           *)
THEOREM DidCorrect == Spec => []OwnDid
<1>1. Init => OwnDid
  BY PollingAssumption DEF Init, OwnDid
<1>2. QED
  BY <1>1, TypeInit, TypeStep, DidStep, PTL DEF Spec

-----------------------------------------------------------------------------
(* Clean executions.                                                       *)
(* Once the queue is empty and nothing is on its way to it, all that can   *)
(* get on the way is the command itself and commands whose answers do not  *)
(* reach the queue.                                                        *)
OwnItem(x) == x.what = current /\ x.fresh = TRUE
Harmless(x) == x.what \in {"QUIET", Nothing} \/ OwnItem(x)

OnlyOwn ==
    /\ polling \in {"flush", "await", "file"}
    /\ \A i \in 1..Len(commands) : Harmless(commands[i])
    /\ Harmless(worker)
    /\ \A i \in 1..Len(answers) : OwnItem(answers[i])
    /\ polling = "file" => taken = Timeout \/ OwnItem(taken)

CleanInv == clean = TRUE => OnlyOwn

LEMMA HarmlessIsOwn ==
    ASSUME NEW x, x.what \in Pids \cup Others, x.what # "QUIET", Harmless(x)
    PROVE  OwnItem(x)
<1>1. Nothing \notin Pids \cup Others
  BY PollingAssumption DEF Nothing, Others
<1>2. QED
  BY <1>1 DEF Harmless

LEMMA TailItems ==
    ASSUME NEW S, NEW q \in Seq(S), q # <<>>
    PROVE  /\ Head(q) = q[1] /\ 1 \in 1..Len(q)
           /\ \A i \in 1..Len(Tail(q)) : Tail(q)[i] = q[i + 1] /\ i + 1 \in 1..Len(q)
OBVIOUS

LEMMA AppendItems ==
    ASSUME NEW S, NEW q \in Seq(S), NEW e
    PROVE  \A i \in 1..Len(Append(q, e)) :
             \/ i \in 1..Len(q) /\ Append(q, e)[i] = q[i]
             \/ Append(q, e)[i] = e
OBVIOUS

(* The worker passes on what it was given.                                 *)
LEMMA WorkerClean ==
    ASSUME TypeInv, OnlyOwn, Worker
    PROVE  OnlyOwn'
<1> USE DEF Work, WorkerDone
<1>1. /\ commands \in Seq(Command) /\ answers \in Seq(Answer)
      /\ WorkerInv
  BY DEF TypeInv, TypeOK, BoundedSeq
<1>2. UNCHANGED <<polling, next, taken>>
  BY DEF Worker, WorkerReceive, WorkerTalks, WorkerDrops, WorkerSilent,
     WorkerParses, WorkerPosts, WorkerPostFails
<1>3. \A x : Harmless(x)' = Harmless(x) /\ OwnItem(x)' = OwnItem(x)
  BY <1>2 DEF Harmless, OwnItem, current
<1>4. Harmless(NoCommand)
  BY DEF Harmless, NoCommand
<1>5. ASSUME \A i \in 1..Len(commands') : Harmless(commands'[i]), Harmless(worker'),
             \A i \in 1..Len(answers') : OwnItem(answers'[i])
      PROVE  OnlyOwn'
  BY <1>2, <1>5 DEF OnlyOwn, Harmless, OwnItem, current
<1>6. CASE WorkerReceive
  BY <1>1, <1>5, <1>6, TailItems DEF WorkerReceive, OnlyOwn
<1>7. CASE WorkerTalks \/ WorkerDrops \/ WorkerSilent \/ WorkerPostFails
  BY <1>4, <1>5, <1>7 DEF WorkerTalks, WorkerDrops, WorkerSilent, WorkerPostFails, OnlyOwn
<1>8. CASE WorkerParses
  <2>1. OwnItem(worker)
    BY <1>1, <1>8, HarmlessIsOwn DEF WorkerParses, WorkerInv, Command, OnlyOwn
  <2>2. worker'.what = worker.what /\ worker'.fresh = worker.fresh
    BY <1>8 DEF WorkerParses
  <2>3. Harmless(worker')
    BY <2>1, <2>2 DEF Harmless, OwnItem
  <2>4. QED
    BY <1>5, <1>8, <2>3 DEF WorkerParses, OnlyOwn
<1>9. CASE WorkerPosts
  <2>1. OwnItem(worker)
    BY <1>1, <1>9, HarmlessIsOwn DEF WorkerPosts, WorkerInv, Answer, OnlyOwn
  <2>2. QED
    BY <1>1, <1>4, <1>5, <1>9, <2>1, AppendItems DEF WorkerPosts, OnlyOwn
<1>10. QED
  BY <1>6, <1>7, <1>8, <1>9 DEF Worker

(* Of autopid's own steps only three are left while it executes a PID.     *)
LEMMA AutopidClean ==
    ASSUME TypeInv, CleanInv, Autopid, clean' = TRUE
    PROVE  OnlyOwn'
<1> USE DEF Poll, chipVars, fileVars, passVars, turnVars
<1>1. commands \in Seq(Command) /\ answers \in Seq(Answer)
  BY DEF TypeInv, TypeOK, BoundedSeq
<1>2. CASE Flush
  <2>1. NothingOnItsWay /\ answers' = <<>> /\ polling' = "flush"
    BY <1>2 DEF Flush
  <2>2. worker' = NoCommand
    BY <1>2, <2>1, OldItems DEF Flush, NothingOnItsWay
  <2>3. Len(commands') = 0
    BY <1>2, <2>1, OldCommandsOK DEF Flush, NothingOnItsWay, TypeInv, TypeOK
  <2>4. QED
    BY <2>1, <2>2, <2>3 DEF OnlyOwn, Harmless, NoCommand
<1>3. CASE Send
  <2>1. OnlyOwn /\ UNCHANGED <<next, worker, answers>> /\ polling' = "await"
    BY <1>3 DEF Send, CleanInv
  <2>2. commands' = Append(commands, [what |-> current, fresh |-> TRUE])
    BY <1>3 DEF Send, Enqueue
  <2>3. Harmless([what |-> current, fresh |-> TRUE])
    BY DEF Harmless, OwnItem
  <2>4. \A i \in 1..Len(commands') : Harmless(commands'[i])
    BY <1>1, <2>1, <2>2, <2>3, AppendItems DEF OnlyOwn
  <2>5. QED
    BY <2>1, <2>4 DEF OnlyOwn, Harmless, OwnItem, current
<1>4. CASE Receive
  <2>1. OnlyOwn /\ UNCHANGED <<next, worker, commands>> /\ polling' = "file"
    BY <1>4 DEF Receive, CleanInv
  <2>2. OwnItem(taken') /\ \A i \in 1..Len(answers') : OwnItem(answers'[i])
    BY <1>1, <1>4, <2>1, TailItems DEF Receive, OnlyOwn
  <2>3. QED
    BY <2>1, <2>2 DEF OnlyOwn, Harmless, OwnItem, current
<1>5. CASE ReceiveTimeout
  <2>1. /\ OnlyOwn /\ UNCHANGED <<next, worker, commands, answers>>
        /\ polling' = "file" /\ taken' = Timeout
    BY <1>5 DEF ReceiveTimeout, CleanInv
  <2>2. QED
    BY <2>1 DEF OnlyOwn, Harmless, OwnItem, current
<1>6. CASE PidFails \/ CrosstalkDropped \/ PidFiled
  BY <1>6 DEF PidFails, CrosstalkDropped, PidFiled, Executed
<1>7. CASE PassPaused \/ PassBegins \/ PassEnds \/ Skip \/ Select \/ SendAt
  BY <1>7 DEF PassPaused, PassBegins, PassEnds, Skip, Select, SendAt, CleanInv, OnlyOwn
<1>8. CASE NoFilters \/ Drain \/ FilterNotDue \/ Monitor
  BY <1>8 DEF NoFilters, Drain, FilterNotDue, Monitor, CleanInv, OnlyOwn
<1>9. CASE Listen \/ HearFrame \/ ListenEnds \/ ListenFails
  BY <1>9 DEF Listen, HearFrame, ListenEnds, ListenFails, CleanInv, OnlyOwn
<1>10. CASE Decode \/ Restore \/ MonitorEnds
  BY <1>10 DEF Decode, Restore, MonitorEnds, CleanInv, OnlyOwn
<1>11. CASE CheckNotDue \/ CheckDue \/ CheckEcu
  BY <1>11 DEF CheckNotDue, CheckDue, CheckEcu, CleanInv, OnlyOwn
<1>12. QED
  BY <1>2, <1>3, <1>4, <1>5, <1>6, <1>7, <1>8, <1>9, <1>10, <1>11 DEF Autopid

(* A test adds only quiet commands, a scan ends the execution's cleanness. *)
LEMMA HttpClean ==
    ASSUME TypeInv, CleanInv, Http, clean' = TRUE
    PROVE  OnlyOwn'
<1> USE DEF Serve, chipVars, fileVars, passVars, turnVars
<1>1. commands \in Seq(Command) /\ answers \in Seq(Answer)
  BY DEF TypeInv, TypeOK, BoundedSeq
<1>2. CASE SendQuietly
  <2>1. OnlyOwn /\ UNCHANGED <<polling, next, taken, worker, answers>>
    BY <1>2 DEF SendQuietly, CleanInv
  <2>2. commands' = Append(commands, [what |-> "QUIET", fresh |-> FALSE])
    BY <1>2 DEF SendQuietly, Enqueue
  <2>3. Harmless([what |-> "QUIET", fresh |-> FALSE])
    BY DEF Harmless
  <2>4. \A i \in 1..Len(commands') : Harmless(commands'[i])
    BY <1>1, <2>1, <2>2, <2>3, AppendItems DEF OnlyOwn
  <2>5. QED
    BY <2>1, <2>4 DEF OnlyOwn, Harmless, OwnItem, current
<1>3. CASE ScanDrains \/ ScanReceives
  <2>1. OnlyOwn /\ UNCHANGED <<polling, next, taken, worker, commands>>
    BY <1>3 DEF ScanDrains, ScanReceives, CleanInv
  <2>2. answers # <<>> /\ answers' = Tail(answers)
    BY <1>3 DEF ScanDrains, ScanReceives
  <2>3. UNCHANGED current
    BY <2>1 DEF current
  <2>4. \A i \in 1..Len(answers') : OwnItem(answers'[i])
    BY <1>1, <2>1, <2>2, TailItems DEF OnlyOwn
  <2>5. QED
    BY <2>1, <2>3, <2>4 DEF OnlyOwn, Harmless, OwnItem
<1>4. CASE ScanAsks
  BY <1>4 DEF ScanAsks
<1>5. ASSUME UNCHANGED <<polling, next, taken, worker, commands, answers, clean>>
      PROVE  OnlyOwn'
  BY <1>5 DEF CleanInv, OnlyOwn, Harmless, OwnItem, current
<1>6. CASE ScanBegins \/ ScanConfigured \/ ScanDrained \/ ScanTimeout \/ ScanEnds
  BY <1>5, <1>6 DEF ScanBegins, ScanConfigured, ScanDrained, ScanTimeout, ScanEnds
<1>7. CASE TestBegins \/ TestListens \/ TestHeard \/ TestRestores \/ TestEnds
  BY <1>5, <1>7 DEF TestBegins, TestEnds, TestListens, TestHeard, TestRestores
<1>8. QED
  BY <1>2, <1>3, <1>4, <1>6, <1>7 DEF Http, HttpGoesOn

(* An execution that began with nothing on its way takes its own answer or *)
(* none, whatever the other tasks send meanwhile.                          *)
THEOREM CleanCorrect == Spec => []CleanExchange
<1>1. Init => CleanInv
  BY DEF Init, CleanInv
<1>2. TypeInv /\ CleanInv /\ [Next]_vars => CleanInv'
  <2> SUFFICES ASSUME TypeInv, CleanInv, [Next]_vars, clean' = TRUE PROVE OnlyOwn'
    BY DEF CleanInv
  <2>1. CASE Worker
    <3>1. UNCHANGED clean
      BY <2>1 DEF Worker, WorkerReceive, WorkerTalks, WorkerDrops, WorkerSilent,
         WorkerParses, WorkerPosts, WorkerPostFails, WorkerDone, Work
    <3>2. QED
      BY <2>1, <3>1, WorkerClean DEF CleanInv
  <2>2. CASE UNCHANGED vars
    BY <2>2 DEF vars, CleanInv, OnlyOwn, Harmless, OwnItem, current
  <2>3. QED
    BY <2>1, <2>2, AutopidClean, HttpClean DEF Next
<1>3. TypeInv /\ CleanInv => CleanExchange
  <2> SUFFICES ASSUME TypeInv, CleanInv, polling = "file", clean, taken # Timeout
               PROVE  taken.what = current /\ taken.fresh
    BY DEF CleanExchange
  <2>1. clean = TRUE
    BY Zenon DEF TypeInv, TypeOK
  <2>2. QED
    BY <2>1 DEF CleanInv, OnlyOwn, OwnItem
<1>4. QED
  BY <1>1, <1>2, <1>3, TypeInit, TypeStep, PTL DEF Spec

-----------------------------------------------------------------------------
(* The UART and its queue.  Who has the mutex is in a dialogue.            *)
UartInv ==
    /\ working \in {"talk", "post"} <=> uart = "worker"
    /\ polling = "heard" <=> uart = "autopid"
    /\ serving = "listen" <=> uart = "http"

LEMMA UartStep == UartInv /\ [Next]_vars => UartInv'
<1> SUFFICES ASSUME UartInv, [Next]_vars PROVE UartInv'
  OBVIOUS
<1> USE DEF UartInv, Poll, Executed, Serve, NoTask, Work, WorkerDone,
            chipVars, fileVars, passVars, turnVars
<1>1. CASE WorkerReceive \/ WorkerTalks \/ WorkerDrops \/ WorkerSilent
  BY <1>1 DEF WorkerReceive, WorkerTalks, WorkerDrops, WorkerSilent
<1>2. CASE WorkerParses \/ WorkerPosts \/ WorkerPostFails
  BY <1>2 DEF WorkerParses, WorkerPosts, WorkerPostFails
<1>3. CASE PassPaused \/ PassBegins \/ Skip \/ Select \/ PassEnds
  BY <1>3 DEF PassPaused, PassBegins, Skip, Select, PassEnds
<1>4. CASE SendAt \/ Flush \/ Send \/ Receive \/ ReceiveTimeout
  BY <1>4 DEF SendAt, Flush, Send, Receive, ReceiveTimeout
<1>5. CASE PidFails \/ CrosstalkDropped \/ PidFiled
  BY <1>5 DEF PidFails, CrosstalkDropped, PidFiled
<1>6. CASE NoFilters \/ Drain \/ FilterNotDue \/ Monitor
  BY <1>6 DEF NoFilters, Drain, FilterNotDue, Monitor
<1>7. CASE Listen \/ HearFrame \/ ListenEnds \/ ListenFails
  BY <1>7 DEF Listen, HearFrame, ListenEnds, ListenFails
<1>8. CASE Decode \/ Restore \/ MonitorEnds
  BY <1>8 DEF Decode, Restore, MonitorEnds
<1>9. CASE CheckNotDue \/ CheckDue \/ CheckEcu
  BY <1>9 DEF CheckNotDue, CheckDue, CheckEcu
<1>10. CASE ScanBegins \/ ScanConfigured \/ ScanDrains \/ ScanDrained
  BY <1>10 DEF ScanBegins, ScanConfigured, ScanDrains, ScanDrained
<1>11. CASE SendQuietly \/ ScanAsks \/ ScanReceives \/ ScanTimeout \/ ScanEnds
  BY <1>11 DEF SendQuietly, ScanAsks, ScanReceives, ScanTimeout, ScanEnds
<1>12. CASE TestBegins \/ TestListens \/ TestHeard \/ TestRestores \/ TestEnds
  BY <1>12 DEF TestBegins, TestEnds, TestListens, TestHeard, TestRestores
<1>13. CASE UNCHANGED vars
  BY <1>13 DEF vars
<1>14. QED
  BY <1>1, <1>2, <1>3, <1>4, <1>5, <1>6, <1>7, <1>8, <1>9, <1>10, <1>11, <1>12, <1>13
     DEF Next, Worker, Autopid, Http, HttpGoesOn

LEMMA UartInvHolds == Spec => []UartInv
<1>1. Init => UartInv
  BY DEF Init, UartInv, NoTask
<1>2. QED
  BY <1>1, UartStep, PTL DEF Spec

(* The commands counted.                                                   *)
LEMMA EnqueueCounts ==
    ASSUME commands \in BoundedSeq(Command, CmdQueueSize),
           NEW what, NEW fresh, Enqueue(what, fresh)
    PROVE  Len(commands) < CmdQueueSize /\ Len(commands') = Len(commands) + 1
<1>1. commands \in Seq(Command)
  BY DEF BoundedSeq
<1>2. QED
  BY <1>1 DEF Enqueue

LEMMA HeadCounts ==
    ASSUME commands \in BoundedSeq(Command, CmdQueueSize), commands # <<>>
    PROVE  Len(commands) > 0 /\ Len(Tail(commands)) = Len(commands) - 1
<1>1. commands \in Seq(Command)
  BY DEF BoundedSeq
<1>2. QED
  BY <1>1

(* The worker, the polling task and the web server use the queue and the   *)
(* mutex as UartChannel promises, and a flush leaves the commands in their *)
(* places.                                                                 *)
THEOREM PollingUsesChannel == Spec => ImplementsChannel
<1>1. Init => Channel!ChannelInit
  BY DEF Init, Channel!ChannelInit, InHand
<1>2. TypeInv /\ UartInv /\ [Next]_vars => [Channel!ChannelNext]_(Channel!channelVars)
  <2> SUFFICES ASSUME TypeInv, UartInv, [Next]_vars
               PROVE  [Channel!ChannelNext]_(Channel!channelVars)
    OBVIOUS
  <2> USE DEF Poll, Executed, Serve, Work, WorkerDone, InHand, UartInv,
              chipVars, fileVars, passVars, turnVars
  <2>0. commands \in BoundedSeq(Command, CmdQueueSize)
    BY DEF TypeInv, TypeOK
  <2>1. ASSUME UNCHANGED <<working, commands, uart>>
        PROVE  UNCHANGED Channel!channelVars
    BY <2>1 DEF Channel!channelVars
  <2>2. ASSUME NEW what, NEW fresh, Enqueue(what, fresh), UNCHANGED <<working, uart>>
        PROVE  Channel!ChannelNext
    <3>1. Channel!Queue
      BY <2>0, <2>2, EnqueueCounts DEF Channel!Queue
    <3>2. QED
      BY <3>1 DEF Channel!ChannelNext
  <2>3. CASE WorkerReceive
    <3>1. Channel!Fetch
      BY <2>0, <2>3, HeadCounts DEF WorkerReceive, Channel!Fetch
    <3>2. QED
      BY <3>1 DEF Channel!ChannelNext
  <2>4. CASE WorkerTalks
    <3>1. Channel!Execute
      BY <2>4 DEF WorkerTalks, Channel!Execute
    <3>2. QED
      BY <3>1 DEF Channel!ChannelNext
  <2>5. CASE WorkerDrops
    <3>1. Channel!Discard
      BY <2>5 DEF WorkerDrops, Channel!Discard
    <3>2. QED
      BY <3>1 DEF Channel!ChannelNext
  <2>6. CASE WorkerSilent \/ WorkerPosts \/ WorkerPostFails
    <3>1. Channel!Finish
      BY <2>6 DEF WorkerSilent, WorkerPosts, WorkerPostFails, Channel!Finish
    <3>2. QED
      BY <3>1 DEF Channel!ChannelNext
  <2>7. CASE WorkerParses
    BY <2>7 DEF WorkerParses, Channel!channelVars
  <2>8. CASE Flush
    <3>1. Len(commands') = Len(commands) /\ UNCHANGED <<working, uart>>
      BY <2>0, <2>8, OldCommandsOK DEF Flush
    <3>2. QED
      BY <3>1 DEF Channel!channelVars
  <2>9. CASE SendAt \/ Send \/ SendQuietly \/ ScanAsks
    BY <2>9, <2>2 DEF SendAt, Send, SendQuietly, ScanAsks
  <2>10. CASE Listen \/ TestListens
    <3>1. Channel!Borrow
      BY <2>10 DEF Listen, TestListens, Channel!Borrow
    <3>2. QED
      BY <3>1 DEF Channel!ChannelNext
  <2>11. CASE ListenEnds \/ TestHeard
    <3>1. Channel!Return
      BY <2>11 DEF ListenEnds, TestHeard, Channel!Return
    <3>2. QED
      BY <3>1 DEF Channel!ChannelNext
  <2>12. CASE PassPaused \/ PassBegins \/ Skip \/ Select \/ PassEnds
    BY <2>12, <2>1 DEF PassPaused, PassBegins, Skip, Select, PassEnds
  <2>13. CASE Receive \/ ReceiveTimeout \/ PidFails \/ CrosstalkDropped \/ PidFiled
    BY <2>13, <2>1 DEF Receive, ReceiveTimeout, PidFails, CrosstalkDropped, PidFiled
  <2>14. CASE NoFilters \/ Drain \/ FilterNotDue \/ Monitor \/ HearFrame \/ ListenFails
    BY <2>14, <2>1 DEF NoFilters, Drain, FilterNotDue, Monitor, HearFrame, ListenFails
  <2>15. CASE Decode \/ Restore \/ MonitorEnds \/ CheckNotDue \/ CheckDue \/ CheckEcu
    BY <2>15, <2>1 DEF Decode, Restore, MonitorEnds, CheckNotDue, CheckDue, CheckEcu
  <2>16. CASE ScanBegins \/ ScanConfigured \/ ScanDrains \/ ScanDrained
    BY <2>16, <2>1 DEF ScanBegins, ScanConfigured, ScanDrains, ScanDrained
  <2>17. CASE ScanReceives \/ ScanTimeout \/ ScanEnds
    BY <2>17, <2>1 DEF ScanReceives, ScanTimeout, ScanEnds
  <2>18. CASE TestBegins \/ TestRestores \/ TestEnds
    BY <2>18, <2>1 DEF TestBegins, TestRestores, TestEnds
  <2>19. CASE UNCHANGED vars
    BY <2>19, <2>1 DEF vars
  <2>20. QED
    BY <2>3, <2>4, <2>5, <2>6, <2>7, <2>8, <2>9, <2>10, <2>11, <2>12, <2>13, <2>14,
       <2>15, <2>16, <2>17, <2>18, <2>19 DEF Next, Worker, Autopid, Http, HttpGoesOn
<1>3. QED
  BY <1>1, <1>2, TypeInit, TypeStep, UartInvHolds, PTL
  DEF Spec, ImplementsChannel, Channel!ChannelSpec
=============================================================================
