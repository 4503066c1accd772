------------------------------- MODULE Polling -------------------------------
(***************************************************************************)
(* The polling of the car: autopid_task (components/autopid/autopid.c)     *)
(* goes through the PIDs that are due, hands each command to the UART      *)
(* worker of the OBD chip (uart1_event_task, main/elm327.c) and waits for  *)
(* the answer the worker's callback puts on autopidQueue; then it listens  *)
(* for the frames of the CAN filters.  Requests of the web server - a scan *)
(* for standard PIDs, the tests of a PID and of a CAN filter - use the     *)
(* same worker, the same queue and the mutex of autopid_config.            *)
(*                                                                         *)
(* Nothing on autopidQueue says which command it answers.  The model tags  *)
(* every command and answer with what it belongs to; the code cannot see   *)
(* the tags, only the DID a "22" answer carries.  A wait with a timeout    *)
(* may end either way, and a timer may have expired or not whenever it is  *)
(* looked at.  One parameter per PID and one CAN filter stand for any      *)
(* number.                                                                 *)
(***************************************************************************)
EXTENDS Naturals, Sequences

CONSTANTS
    PidList,     \* the enabled PIDs of the flat list, in order
    Type,        \* pid_type of each
    Validated,   \* the PIDs whose command is "22" and a DID
    InitLength,  \* commands in the init string of a PID type
    CmdQueueSize,    \* ELM327_CMD_QUEUE_SIZE (100)
    AnswerQueueSize, \* QUEUE_SIZE (10)
    ScanCommands     \* the commands a scan sends (6)

Types == {"PID_STD", "PID_CUSTOM", "PID_SPECIFIC"}
Pids == {PidList[i] : i \in 1..Len(PidList)}
Nothing == "nothing"
Others == {"AT", "SUPPORT", "QUIET", "FRAME"}

ASSUME PollingAssumption ==
    /\ PidList \in Seq(Pids)
    /\ Type \in [Pids -> Types]
    /\ Validated \subseteq Pids
    /\ Pids \cap (Others \cup {Nothing}) = {}
    /\ InitLength \in Nat /\ ScanCommands \in Nat
    /\ CmdQueueSize \in Nat \ {0} /\ AnswerQueueSize \in Nat \ {0}

VARIABLES
    polling,   \* where autopid_task is,
    working,   \* the UART worker,
    serving,   \* and the web server
    lock,      \* holder of autopid_config->mutex
    uart,      \* holder of xuart1_semaphore
    commands,  \* elm327_cmd_queue
    worker,    \* the command the worker has, and what it knows of the answer
    answers,   \* autopidQueue
    paused,    \* pid_polling_paused
    next,      \* index of the PID this pass is at
    taken,     \* what it took from autopidQueue, or Timeout
    toSend,    \* AT commands autopid has yet to send,
    toAsk,     \* and commands the web server has
    lastType,  \* previous_pid_type
    status,    \* of each PID: "failed", or whose answer it last accepted
    ecu,       \* ECU_CONNECTED_BIT
    filterDue, \* no frame has been decoded since the filter was found due
    clean      \* history: this execution began with nothing on its way

vars == <<polling, working, serving, lock, uart, commands, worker, answers, paused, next,
          taken, toSend, toAsk, lastType, status, ecu, filterDue, clean>>

NoTask == "nobody"
PollPlaces == {"loop", "visit", "init", "flush", "await", "file", "filters", "monitor",
               "listen", "heard", "decode", "restore", "check", "ecu"}
WorkPlaces == {"receive", "lock", "talk", "post"}
ServePlaces == {"idle", "config", "drain", "ask", "answer", "test", "listen",
                "restore"}

(* fresh: the command of the execution that is going on                    *)
Command == [what : Pids \cup Others, fresh : BOOLEAN]
(* "data": bytes the caller asked for; "refused": bytes without the DID of *)
(* a "22" command; "error": "NO DATA", an error text, or no bytes at all   *)
Verdicts == {"data", "refused", "error"}
Answer == [what : Pids \cup Others, fresh : BOOLEAN, verdict : Verdicts]
NoCommand == [what |-> Nothing, fresh |-> FALSE]
Timeout == [what |-> Nothing, fresh |-> FALSE, verdict |-> "error"]
Statuses == {"failed", "own", "foreign"}

BoundedSeq(S, n) == {s \in Seq(S) : Len(s) <= n}

TypeOK ==
    /\ polling \in PollPlaces /\ working \in WorkPlaces /\ serving \in ServePlaces
    /\ lock \in {"autopid", "http", NoTask}
    /\ uart \in {"autopid", "http", "worker", NoTask}
    /\ commands \in BoundedSeq(Command, CmdQueueSize)
    /\ worker \in Command \cup Answer \cup {NoCommand}
    /\ answers \in BoundedSeq(Answer, AnswerQueueSize)
    /\ paused \in BOOLEAN /\ next \in 1..Len(PidList) + 1
    /\ taken \in Answer \cup {Timeout}
    /\ toSend \in Nat /\ toAsk \in Nat
    /\ lastType \in Types \cup {"PID_MAX"}
    /\ status \in [Pids -> Statuses]
    /\ ecu \in BOOLEAN /\ filterDue \in BOOLEAN
    /\ clean \in BOOLEAN

Init ==
    /\ polling = "loop" /\ working = "receive" /\ serving = "idle"
    /\ lock = NoTask /\ uart = NoTask
    /\ commands = <<>> /\ worker = NoCommand /\ answers = <<>>
    /\ paused = FALSE /\ next = Len(PidList) + 1 /\ taken = Timeout
    /\ toSend = 0 /\ toAsk = 0
    /\ lastType = "PID_MAX"
    /\ status = [p \in Pids |-> "own"]
    /\ ecu = FALSE /\ filterDue = FALSE
    /\ clean = FALSE

-----------------------------------------------------------------------------
(* Commands and answers.                                                   *)

(* seeded fault: a full queue is not waited for                            *)
EnqueueUnbounded(what, fresh) ==
    commands' = Append(commands, [what |-> what, fresh |-> fresh])

(* elm327_process_cmd: the caller blocks while the queue is full.          *)
Enqueue(what, fresh) ==
    /\ Len(commands) < CmdQueueSize
    /\ commands' = Append(commands, [what |-> what, fresh |-> fresh])

Old(item) == [item EXCEPT !.fresh = FALSE]
OldCommands == [i \in DOMAIN commands |-> Old(commands[i])]

NothingOnItsWay == commands = <<>> /\ worker = NoCommand

VerdictsOf(what) ==
    IF what \in Validated THEN Verdicts ELSE {"data", "error"}

Failed(a) == a.verdict = "error"
(* seeded fault: the DID is not looked for                                 *)
HasAnyDid(a, p) == a.verdict = "data"
HasDid(a, p) == a.what = p /\ a.verdict = "data"
Origin(a, p) == IF a.what = p THEN "own" ELSE "foreign"

-----------------------------------------------------------------------------
(* uart1_event_task                                                        *)
Work(from, to) ==
    /\ working = from /\ working' = to
    /\ UNCHANGED <<polling, serving, lock, paused, next, taken, toSend, toAsk, lastType,
                   status, ecu, filterDue, clean>>

WorkerReceive ==
    /\ Work("receive", "lock") /\ commands # <<>>
    /\ worker' = Head(commands) /\ commands' = Tail(commands)
    /\ UNCHANGED <<uart, answers>>

WorkerTalks ==
    /\ Work("lock", "talk") /\ uart = NoTask
    /\ uart' = "worker"
    /\ UNCHANGED <<commands, worker, answers>>

(* The mutex is not to be had in time, or the chip is not ready.           *)
WorkerDrops ==
    /\ Work("lock", "receive")
    /\ worker' = NoCommand
    /\ UNCHANGED <<uart, commands, answers>>

WorkerDone(from) ==
    /\ Work(from, "receive")
    /\ worker' = NoCommand /\ uart' = NoTask
    /\ UNCHANGED commands

(* No prompt within ELM327_CMD_TIMEOUT_MS, a bare STOPPED, or a command    *)
(* whose callback does not put the answer on autopidQueue.                 *)
WorkerSilent == WorkerDone("talk") /\ UNCHANGED answers

(* The prompt has come: autopid_parser makes a response of the text.       *)
WorkerParses ==
    /\ Work("talk", "post") /\ worker.what # "QUIET"
    /\ \E v \in VerdictsOf(worker.what) :
         worker' = [what |-> worker.what, fresh |-> worker.fresh, verdict |-> v]
    /\ UNCHANGED <<uart, commands, answers>>

WorkerPosts ==
    /\ WorkerDone("post") /\ Len(answers) < AnswerQueueSize
    /\ answers' = Append(answers, worker)

(* xQueueSend gives up after 1 s on a full queue.                          *)
WorkerPostFails ==
    /\ WorkerDone("post") /\ Len(answers) = AnswerQueueSize
    /\ UNCHANGED answers

Worker ==
    \/ WorkerReceive \/ WorkerTalks \/ WorkerDrops \/ WorkerSilent
    \/ WorkerParses \/ WorkerPosts \/ WorkerPostFails

-----------------------------------------------------------------------------
(* autopid_task: the PIDs.                                                 *)
Poll(from, to) ==
    polling = from /\ polling' = to /\ UNCHANGED <<working, serving, toAsk>>
Lock == lock = NoTask /\ lock' = "autopid"
Unlock == lock' = NoTask
chipVars == <<uart, commands, worker>>
fileVars == <<status, ecu, filterDue>>
passVars == <<paused, next, lastType>>
turnVars == <<taken, clean>>
current == PidList[next]

(* autopid_pause_should_pause_pid_polling says so: nothing is polled, and  *)
(* the init strings are sent again afterwards.                             *)
PassPaused ==
    /\ Poll("loop", "filters")
    /\ paused' = TRUE /\ lastType' = "PID_MAX"
    /\ UNCHANGED <<lock, chipVars, answers, fileVars, next, turnVars, toSend>>

PassBegins ==
    /\ Poll("loop", "visit") /\ Lock
    /\ next' = 1
    /\ UNCHANGED <<chipVars, answers, fileVars, paused, lastType, turnVars, toSend>>

(* Its timer has not expired.                                              *)
Skip ==
    /\ Poll("visit", "visit") /\ next <= Len(PidList)
    /\ next' = next + 1
    /\ UNCHANGED <<lock, chipVars, answers, fileVars, paused, lastType, turnVars, toSend>>

Select ==
    /\ Poll("visit", "init") /\ next <= Len(PidList)
    /\ lastType' = Type[current]
    /\ toSend' = IF Type[current] = lastType THEN 0 ELSE InitLength
    /\ UNCHANGED <<lock, chipVars, answers, fileVars, paused, next, turnVars>>

(* send_commands: a command every few milliseconds, no answer awaited.     *)
SendAt ==
    /\ polling \in {"init", "listen", "decode", "restore"} /\ toSend > 0
    /\ Enqueue("AT", FALSE)
    /\ toSend' = toSend - 1
    /\ UNCHANGED <<polling, working, serving, toAsk, lock, uart, worker, answers, fileVars,
                   passVars, turnVars>>

AllSent == toSend = 0

(* seeded fault: the queue is not emptied                                  *)
FlushNothing ==
    /\ Poll("init", "flush") /\ AllSent
    /\ commands' = OldCommands /\ worker' = Old(worker)
    /\ clean' = NothingOnItsWay
    /\ UNCHANGED <<lock, uart, answers, fileVars, passVars, taken, toSend>>

(* execute_pid: what is on the queue is thrown away; what is on its way to *)
(* it, with the worker or before it, is not.                               *)
Flush ==
    /\ Poll("init", "flush") /\ AllSent
    /\ answers' = <<>>
    /\ commands' = OldCommands /\ worker' = Old(worker)
    /\ clean' = NothingOnItsWay
    /\ UNCHANGED <<lock, uart, fileVars, passVars, taken, toSend>>

(* The command is queued, and the configuration is anyone's until the      *)
(* answer is there.                                                        *)
Send ==
    /\ Poll("flush", "await")
    /\ Enqueue(current, TRUE) /\ Unlock
    /\ UNCHANGED <<uart, worker, answers, fileVars, passVars, turnVars, toSend>>

Receive ==
    /\ Poll("await", "file") /\ answers # <<>>
    /\ taken' = Head(answers) /\ answers' = Tail(answers)
    /\ UNCHANGED <<lock, chipVars, fileVars, passVars, clean, toSend>>

(* seeded fault: the answer is waited for as long as it takes              *)
ReceiveTimeoutNever ==
    /\ Poll("await", "file") /\ FALSE
    /\ UNCHANGED <<lock, chipVars, answers, fileVars, passVars, turnVars, toSend>>

ReceiveTimeout ==
    /\ Poll("await", "file") /\ answers = <<>>
    /\ taken' = Timeout
    /\ UNCHANGED <<lock, chipVars, answers, fileVars, passVars, clean, toSend>>

Executed ==
    /\ Poll("file", "visit") /\ Lock
    /\ next' = next + 1 /\ taken' = Timeout /\ clean' = FALSE
    /\ UNCHANGED <<chipVars, answers, filterDue, paused, lastType, toSend>>

(* seeded fault: only an error counts as a failure, no answer does not     *)
PidFailsOnError ==
    /\ Executed /\ Failed(taken)
    /\ status' = IF taken = Timeout THEN status ELSE [status EXCEPT ![current] = "failed"]
    /\ UNCHANGED ecu

PidFails ==
    /\ Executed /\ Failed(taken)
    /\ status' = [status EXCEPT ![current] = "failed"]
    /\ UNCHANGED ecu

(* The answer to a "22" command does not have its DID: it is dropped and   *)
(* the PID stays as it was.                                                *)
CrosstalkDropped ==
    /\ Executed /\ ~Failed(taken)
    /\ current \in Validated /\ ~HasDid(taken, current)
    /\ UNCHANGED <<status, ecu>>

(* An expression that does not evaluate on these bytes fails its parameter. *)
PidFiled ==
    /\ Executed /\ ~Failed(taken)
    /\ current \in Validated => HasDid(taken, current)
    /\ \E s \in {Origin(taken, current), "failed"} : status' = [status EXCEPT ![current] = s]
    /\ ecu' = TRUE

PassEnds ==
    /\ Poll("visit", "filters") /\ next > Len(PidList)
    /\ Unlock
    /\ UNCHANGED <<chipVars, answers, fileVars, passVars, turnVars, toSend>>

-----------------------------------------------------------------------------
(* autopid_task: the CAN filters.                                          *)
(* There are none, or the device sleeps or has autopid disabled.           *)
NoFilters ==
    /\ Poll("filters", "check")
    /\ UNCHANGED <<lock, chipVars, answers, fileVars, passVars, turnVars, toSend>>

Drain ==
    /\ Poll("filters", "monitor")
    /\ answers' = <<>>
    /\ UNCHANGED <<lock, chipVars, fileVars, passVars, turnVars, toSend>>

FilterNotDue ==
    /\ Poll("monitor", "check") /\ lock = NoTask
    /\ UNCHANGED <<lock, chipVars, answers, fileVars, passVars, turnVars, toSend>>

(* ATCRA with the frame's id, and ATCAF0; ATTP before them when the id is  *)
(* not of the protocol's width.                                            *)
Monitor ==
    /\ Poll("monitor", "listen") /\ Lock
    /\ filterDue' = TRUE
    /\ toSend' \in {2, 3}
    /\ UNCHANGED <<chipVars, answers, status, ecu, passVars, turnVars>>

(* elm327_run_command with ATMA: the polling task talks to the chip.       *)
Listen ==
    /\ Poll("listen", "heard") /\ AllSent
    /\ uart = NoTask /\ uart' = "autopid"
    /\ UNCHANGED <<lock, commands, worker, answers, fileVars, passVars, turnVars,
                   toSend>>

(* autopid_atma_parser: a frame that finds the queue full is lost.         *)
HearFrame ==
    /\ Poll("heard", "heard") /\ Len(answers) < AnswerQueueSize
    /\ answers' = Append(answers, [what |-> "FRAME", fresh |-> FALSE, verdict |-> "data"])
    /\ UNCHANGED <<lock, chipVars, fileVars, passVars, turnVars, toSend>>

(* Then ATCAF1.                                                            *)
ListenEnds ==
    /\ Poll("heard", "decode")
    /\ uart' = NoTask
    /\ toSend' = 1
    /\ UNCHANGED <<lock, commands, worker, answers, fileVars, passVars, turnVars>>

ListenFails ==
    /\ Poll("listen", "decode") /\ AllSent /\ uart # NoTask
    /\ toSend' = 1
    /\ UNCHANGED <<lock, chipVars, answers, fileVars, passVars, turnVars>>

(* process_can_filter_frame takes whatever is on the queue; the first that *)
(* finds the parameter due is decoded.                                     *)
Decode ==
    /\ Poll("decode", "decode") /\ AllSent /\ answers # <<>>
    /\ answers' = Tail(answers)
    /\ filterDue' = FALSE
    /\ UNCHANGED <<lock, chipVars, status, ecu, passVars, turnVars, toSend>>

(* ATCRA: every frame again.                                               *)
Restore ==
    /\ Poll("decode", "restore") /\ AllSent /\ answers = <<>>
    /\ toSend' = 1
    /\ UNCHANGED <<lock, chipVars, answers, fileVars, passVars, turnVars>>

MonitorEnds ==
    /\ Poll("restore", "check") /\ AllSent
    /\ Unlock /\ filterDue' = FALSE
    /\ UNCHANGED <<chipVars, answers, status, ecu, passVars, turnVars, toSend>>

-----------------------------------------------------------------------------
(* autopid_task: is the ECU there?                                         *)
AllParametersFailed == \A p \in Pids : status[p] = "failed"

CheckNotDue ==
    /\ Poll("check", "loop")
    /\ paused' = FALSE
    /\ UNCHANGED <<lock, chipVars, answers, fileVars, next, lastType, turnVars, toSend>>

CheckDue ==
    /\ Poll("check", "ecu") /\ ~paused
    /\ UNCHANGED <<lock, chipVars, answers, fileVars, passVars, turnVars, toSend>>

CheckEcu ==
    /\ Poll("ecu", "loop") /\ lock = NoTask
    /\ ecu' = ~AllParametersFailed
    /\ UNCHANGED <<lock, chipVars, answers, status, filterDue, passVars, turnVars, toSend>>

Autopid ==
    \/ PassPaused \/ PassBegins \/ PassEnds
    \/ Skip \/ Select
    \/ SendAt \/ Flush \/ Send \/ Receive \/ ReceiveTimeout
    \/ PidFails \/ CrosstalkDropped \/ PidFiled
    \/ NoFilters \/ Drain \/ FilterNotDue \/ Monitor
    \/ Listen \/ HearFrame \/ ListenEnds \/ ListenFails
    \/ Decode \/ Restore \/ MonitorEnds
    \/ CheckNotDue \/ CheckDue \/ CheckEcu

-----------------------------------------------------------------------------
(* The web server: autopid_find_standard_pid, test_pid_handler and         *)
(* test_can_filter_handler.                                                *)
Serve(from, to) ==
    /\ serving = from /\ serving' = to
    /\ UNCHANGED <<polling, working, toSend, fileVars, passVars, taken>>

ScanBegins ==
    /\ Serve("idle", "config")
    /\ lock = NoTask /\ lock' = "http"
    /\ toAsk' = InitLength
    /\ UNCHANGED <<chipVars, answers, clean>>

(* Configuration commands of a scan and all commands of a test: their      *)
(* answers do not go to autopidQueue.                                      *)
SendQuietly ==
    /\ serving \in {"config", "test", "restore"} /\ toAsk > 0
    /\ Enqueue("QUIET", FALSE)
    /\ toAsk' = toAsk - 1
    /\ UNCHANGED <<polling, working, serving, toSend, lock, uart, worker, answers, fileVars,
                   passVars, turnVars>>

ScanConfigured ==
    /\ Serve("config", "drain") /\ toAsk = 0
    /\ UNCHANGED <<lock, chipVars, answers, toAsk, clean>>

ScanDrains ==
    /\ Serve("drain", "drain") /\ answers # <<>>
    /\ answers' = Tail(answers)
    /\ UNCHANGED <<lock, chipVars, toAsk, clean>>

ScanDrained ==
    /\ Serve("drain", "ask") /\ answers = <<>>
    /\ toAsk' = ScanCommands
    /\ UNCHANGED <<lock, chipVars, answers, clean>>

ScanAsks ==
    /\ Serve("ask", "answer") /\ toAsk > 0
    /\ Enqueue("SUPPORT", FALSE)
    /\ toAsk' = toAsk - 1
    /\ clean' = FALSE
    /\ UNCHANGED <<lock, uart, worker, answers>>

ScanReceives ==
    /\ Serve("answer", "ask") /\ answers # <<>>
    /\ answers' = Tail(answers)
    /\ UNCHANGED <<lock, chipVars, toAsk, clean>>

ScanTimeout ==
    /\ Serve("answer", "ask") /\ answers = <<>>
    /\ UNCHANGED <<lock, chipVars, answers, toAsk, clean>>

ScanEnds ==
    /\ Serve("ask", "idle") /\ toAsk = 0
    /\ Unlock
    /\ UNCHANGED <<chipVars, answers, toAsk, clean>>

(* An init sequence and the command; the handler waits for its own         *)
(* callback, or for a timeout.                                             *)
TestBegins ==
    /\ Serve("idle", "test")
    /\ lock = NoTask /\ lock' = "http"
    /\ toAsk' = InitLength + 1
    /\ UNCHANGED <<chipVars, answers, clean>>

(* The test of a CAN filter runs ATMA itself; then ATCAF1.                 *)
TestListens ==
    /\ Serve("test", "listen") /\ toAsk = 0
    /\ uart = NoTask /\ uart' = "http"
    /\ UNCHANGED <<lock, commands, worker, answers, toAsk, clean>>

TestHeard ==
    /\ Serve("listen", "restore")
    /\ uart' = NoTask
    /\ toAsk' = 1 + InitLength
    /\ UNCHANGED <<lock, commands, worker, answers, clean>>

(* The chip is left as autopid wants it.                                   *)
TestRestores ==
    /\ Serve("test", "restore") /\ toAsk = 0
    /\ toAsk' = InitLength
    /\ UNCHANGED <<lock, chipVars, answers, clean>>

TestEnds ==
    /\ Serve("restore", "idle") /\ toAsk = 0
    /\ Unlock
    /\ UNCHANGED <<chipVars, answers, toAsk, clean>>

HttpGoesOn ==
    \/ SendQuietly
    \/ ScanConfigured \/ ScanDrains \/ ScanDrained
    \/ ScanAsks \/ ScanReceives \/ ScanTimeout \/ ScanEnds
    \/ TestListens \/ TestHeard \/ TestRestores \/ TestEnds

Http == ScanBegins \/ TestBegins \/ HttpGoesOn

-----------------------------------------------------------------------------
Next == Worker \/ Autopid \/ Http

Spec == Init /\ [][Next]_vars

(* All tasks are scheduled and a request of the web server is carried      *)
(* through.  autopid_task has the highest priority of those who want the   *)
(* mutexes: released often enough, it gets them.  Timers keep expiring.    *)
Fairness ==
    /\ WF_vars(Worker) /\ WF_vars(HttpGoesOn) /\ SF_vars(Autopid)
    /\ SF_vars(CheckDue)
    /\ \A p \in Pids : SF_vars(Select /\ current = p)

FairSpec == Spec /\ Fairness

(* The UART and its queue, as a user of elm327.c sees them.                *)
InHand ==
    CASE working = "receive" -> "empty"
      [] working = "lock"    -> "command"
      [] OTHER               -> "dialogue"

Channel == INSTANCE UartChannel WITH
    QueueSize <- CmdQueueSize, WorkerTask <- "worker",
    Callers <- {"autopid", "http"}, Nobody <- NoTask, MayRestart <- FALSE,
    waiting <- Len(commands), hand <- InHand, holder <- uart

-----------------------------------------------------------------------------
(* The value of a "22" PID comes from an answer to that very PID: another  *)
(* PID's late answer, an init command's or a scan's is dropped.            *)
OwnDid == \A p \in Validated : status[p] # "foreign"

(* An execution that flushed the queue with nothing on its way to it, and  *)
(* that no scan joined, takes the answer to its own command, or none,      *)
(* whatever the PID and whatever arrived before.                           *)
CleanExchange ==
    polling = "file" /\ clean /\ taken # Timeout
        => taken.what = current /\ taken.fresh

(* While the web server has the configuration, autopid changes no value    *)
(* and neither sends init strings nor listens for frames; it may only have *)
(* an answer outstanding.                                                  *)
OneOwner ==
    /\ serving # "idle" <=> lock = "http"
    /\ polling \in {"visit", "init", "flush", "listen", "heard", "decode", "restore"}
          <=> lock = "autopid"

(* No command is waited for for ever: lost answers, a full queue, and a    *)
(* web server that holds the configuration are all overcome.               *)
ExecutionEnds == polling = "flush" ~> polling = "visit"

(* An ECU that has gone silent for good is noticed for good, unless the    *)
(* battery pauses the PIDs again and again.                                *)
CarSilent == working' = "post" => worker'.verdict = "error"
EcuLossNoticed == <>[][CarSilent]_vars /\ <>[]~paused => <>[]~ecu

(* components/autopid/autopid.c:3561, "mark as error so the caller won't   *)
(* try to decode it as a valid PID payload": no value is decoded from it.  *)
ErrorsNotDecoded ==
    [][polling = "decode" /\ filterDue /\ ~filterDue' => ~Failed(Head(answers))]_vars

(* The worker, the polling task and the web server use the queue and the   *)
(* mutex as UartChannel promises; an execution that starts anew leaves the *)
(* commands it finds there in their places.                                *)
ImplementsChannel == Channel!ChannelSpec
=============================================================================
