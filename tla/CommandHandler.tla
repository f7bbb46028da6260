---------------------------- MODULE CommandHandler ----------------------------
(***************************************************************************)
(* Commands of the manager: PushCommandsToQueue puts them in the COMMAND   *)
(* table of the message queue, CommandHandler::CommandsProcessingTask      *)
(* takes them one by one, records them in the CommandStore, dispatches     *)
(* them and records the result, which DispatchCommand reports through the  *)
(* STATEFUL table.  Every database operation is one step, and the process  *)
(* may end between any two of them.                                        *)
(*                                                                         *)
(* A command is its document_id.  All commands of VALID_COMMANDS_MAP are   *)
(* SYNC; set-group and fetch-config differ in nothing that happens here.   *)
(***************************************************************************)
EXTENDS Naturals, Sequences, Functions

CONSTANTS
    Ids,            \* the commands of the manager
    RestartIds,     \* those that are restart commands
    InvalidIds,     \* those CheckCommand refuses
    NoCommand,      \* what GetCommandFromQueue returns for a row it cannot read
    QueueSize,      \* agent.queue_size, for the COMMAND table
    MaxDeliveries,  \* bound: times the manager sends one command
    MaxCrashes,     \* bound: ends of the process without Stop
    MaxStops,       \* bound: orderly stops
    StorageFaults   \* SQLite operations may throw, the STATEFUL table be full

ASSUME CommandConstants ==
    /\ RestartIds \subseteq Ids
    /\ InvalidIds \subseteq Ids
    /\ NoCommand \notin Ids
    /\ QueueSize \in Nat \ {0}
    /\ MaxDeliveries \in Nat
    /\ MaxCrashes \in Nat
    /\ MaxStops \in Nat
    /\ StorageFaults \in BOOLEAN

VARIABLES
    cmdQueue,     \* the COMMAND table, in rowid order
    store,        \* the CommandStore: status of each id, or "absent"
    pc,           \* where CommandsProcessingTask is
    cmd,          \* the CommandEntry it works on
    result,       \* its ExecutionResult.ErrorCode
    todo,         \* CleanUpInProgressCommands: entries still to be handled
    reports,      \* results put in the STATEFUL table, as <<id, code>>
    keepRunning,  \* m_keepRunning
    delivered,    \* times each command was put in the queue
    executed,     \* history: times each command was dispatched
    crashes, stops

vars == <<cmdQueue, store, pc, cmd, result, todo, reports, keepRunning, delivered,
          executed, crashes, stops>>

Final == {"success", "failure", "timeout"}
Status == Final \union {"in_progress"}

TypeOK ==
    /\ cmdQueue \in Seq(Ids)
    /\ store \in [Ids -> Status \union {"absent"}]
    /\ pc \in {"off", "start", "cleanup", "cleanupUpdate", "get", "store", "reject",
               "rejectPop", "pop", "dispatch", "executing", "report", "update", "done"}
    /\ cmd \in Ids \union {NoCommand}
    /\ result \in Status
    /\ todo \subseteq Ids
    /\ reports \subseteq (Ids \union {NoCommand}) \X Final
    /\ keepRunning \in BOOLEAN
    /\ delivered \in [Ids -> 0..MaxDeliveries]
    /\ executed \in [Ids -> Nat]
    /\ crashes \in 0..MaxCrashes
    /\ stops \in 0..MaxStops

Init ==
    /\ cmdQueue = <<>>
    /\ store = [id \in Ids |-> "absent"]
    /\ pc = "off"
    /\ cmd = NoCommand
    /\ result = "in_progress"
    /\ todo = {}
    /\ reports = {}
    /\ keepRunning = TRUE
    /\ delivered = [id \in Ids |-> 0]
    /\ executed = [id \in Ids |-> 0]
    /\ crashes = 0
    /\ stops = 0

alive == pc # "off"
history == <<delivered, executed, crashes, stops>>

-----------------------------------------------------------------------------
(* The queue and the reports.                                              *)

\* PushCommandsToQueue, for one command of a response with room in the queue.
\* (Without room it is dropped, and nothing changes.)
Deliver(id) ==
    /\ alive
    /\ delivered[id] < MaxDeliveries
    /\ Len(cmdQueue) < QueueSize
    /\ cmdQueue' = Append(cmdQueue, id)
    /\ delivered' = [delivered EXCEPT ![id] = @ + 1]
    /\ UNCHANGED <<store, pc, cmd, result, todo, reports, keepRunning, executed, crashes,
                   stops>>

\* ReportCommandResult ignores what push returns: a full queue drops it.
ReportCommandResult(id, code) ==
    \/ reports' = reports \union {<<id, code>>}
    \/ StorageFaults /\ UNCHANGED reports

\* CommandStore::UpdateCommand, whose result is ignored.
UpdateCommand(id, code) ==
    \/ store' = [store EXCEPT ![id] = code]
    \/ StorageFaults /\ UNCHANGED store

-----------------------------------------------------------------------------
(* CleanUpInProgressCommands, when the task starts.                        *)

\* Mutant of CleanUpInProgressCommands: every recorded command is cleaned up.
CleanUpAllCommands ==
    /\ pc = "start"
    /\ pc' = "cleanup"
    /\ todo' = {id \in Ids : store[id] # "absent"}
    /\ UNCHANGED <<cmdQueue, store, cmd, result, reports, keepRunning, history>>

\* Mutant of CleanUpInProgressCommands: only the restart is looked for.
CleanUpRestartOnly ==
    /\ pc = "start"
    /\ pc' = "cleanup"
    /\ todo' = {id \in RestartIds : store[id] = "in_progress"}
    /\ UNCHANGED <<cmdQueue, store, cmd, result, reports, keepRunning, history>>

\* SELECT ... WHERE status = IN_PROGRESS; no entry when it throws.
CleanUpInProgressCommands ==
    /\ pc = "start"
    /\ pc' = "cleanup"
    /\ \/ todo' = {id \in Ids : store[id] = "in_progress"}
       \/ StorageFaults /\ todo' = {}
    /\ UNCHANGED <<cmdQueue, store, cmd, result, reports, keepRunning, history>>

\* "Agent restarted successfully", or "Agent stopped during execution".
CleanUpReport(id) ==
    /\ pc = "cleanup"
    /\ id \in todo
    /\ cmd' = id
    /\ result' = IF id \in RestartIds THEN "success" ELSE "failure"
    /\ ReportCommandResult(id, result')
    /\ todo' = todo \ {id}
    /\ pc' = "cleanupUpdate"
    /\ UNCHANGED <<cmdQueue, store, keepRunning, history>>

CleanUpUpdate ==
    /\ pc = "cleanupUpdate"
    /\ UpdateCommand(cmd, result)
    /\ pc' = "cleanup"
    /\ UNCHANGED <<cmdQueue, cmd, result, todo, reports, keepRunning, history>>

CleanUpDone ==
    /\ pc = "cleanup"
    /\ todo = {}
    /\ pc' = "get"
    /\ UNCHANGED <<cmdQueue, store, cmd, result, todo, reports, keepRunning, history>>

-----------------------------------------------------------------------------
(* CommandsProcessingTask.                                                 *)

\* getNext: the first row, or an empty message when it cannot be read.
GetNext == {Head(cmdQueue)} \union (IF StorageFaults THEN {NoCommand} ELSE {})

\* A known name with the arguments it needs; an empty message has no name.
CheckCommand(c) == c \notin InvalidIds \union {NoCommand}

\* Mutant of GetCommandFromQueue: the row is removed when it is read.
TakeCommandFromQueue ==
    /\ pc = "get"
    /\ keepRunning
    /\ cmdQueue # <<>>
    /\ cmd' = Head(cmdQueue)
    /\ cmdQueue' = Tail(cmdQueue)
    /\ result' = "in_progress"
    /\ pc' = IF CheckCommand(cmd') THEN "store" ELSE "reject"
    /\ UNCHANGED <<store, todo, reports, keepRunning, history>>

\* GetCommandFromQueue on a queue that is not empty, and CheckCommand.
GetCommandFromQueue ==
    /\ pc = "get"
    /\ keepRunning
    /\ cmdQueue # <<>>
    /\ cmd' \in GetNext
    /\ result' = "in_progress"
    /\ pc' = IF CheckCommand(cmd') THEN "store" ELSE "reject"
    /\ UNCHANGED <<cmdQueue, store, todo, reports, keepRunning, history>>

\* An empty queue, or a count that cannot be read: the timer, and again.
WaitForCommand ==
    /\ pc = "get"
    /\ keepRunning
    /\ cmdQueue = <<>> \/ StorageFaults
    /\ UNCHANGED vars

\* Mutant of StoreCommand: INSERT OR REPLACE.
ReplaceCommand ==
    /\ pc = "store"
    /\ store' = [store EXCEPT ![cmd] = result]
    /\ pc' = "pop"
    /\ UNCHANGED <<cmdQueue, cmd, result, todo, reports, keepRunning, history>>

\* INSERT, with the id as primary key.
StoreCommand ==
    /\ pc = "store"
    /\ \/ /\ store[cmd] = "absent"
          /\ store' = [store EXCEPT ![cmd] = result]
          /\ pc' = "pop"
       \/ /\ store[cmd] # "absent" \/ StorageFaults
          /\ pc' = "reject"
          /\ UNCHANGED store
    /\ UNCHANGED <<cmdQueue, cmd, result, todo, reports, keepRunning, history>>

\* Mutant of RejectCommand: the row is popped here and again after it.
RejectAndPop ==
    /\ pc = "reject"
    /\ ReportCommandResult(cmd, "failure")
    /\ cmdQueue' = Tail(cmdQueue)
    /\ pc' = "rejectPop"
    /\ UNCHANGED <<store, cmd, result, todo, keepRunning, history>>

\* "Command is not valid", or "Agent's database failure".
RejectCommand ==
    /\ pc = "reject"
    /\ ReportCommandResult(cmd, "failure")
    /\ pc' = "rejectPop"
    /\ UNCHANGED <<cmdQueue, store, cmd, result, todo, keepRunning, history>>

\* pop(COMMAND): the first row, whatever it is; its result is ignored.
PopCommandFromQueue ==
    /\ pc \in {"pop", "rejectPop"}
    /\ \/ cmdQueue' = Tail(cmdQueue)
       \/ StorageFaults /\ UNCHANGED cmdQueue
    /\ pc' = IF pc = "pop" THEN "dispatch" ELSE "get"
    /\ UNCHANGED <<store, cmd, result, todo, reports, keepRunning, history>>

DispatchCommand ==
    /\ pc = "dispatch"
    /\ executed' = [executed EXCEPT ![cmd] = @ + 1]
    /\ pc' = "executing"
    /\ UNCHANGED <<cmdQueue, store, cmd, result, todo, reports, keepRunning, delivered,
                   crashes, stops>>

\* Mutant of ExecutionEnds: an execution may end with the ErrorCode UNKNOWN.
ExecutionEndsUnknown ==
    /\ pc = "executing"
    /\ result' \in Final \union {"unknown"}
    /\ pc' = "report"
    /\ UNCHANGED <<cmdQueue, store, cmd, todo, reports, keepRunning, history>>

\* RestartService takes an exit code other than 0 of systemctl for a restart on
\* its way, and 0 for a failure.
RestartService(exitCode) == IF exitCode # 0 THEN "in_progress" ELSE "failure"

\* RestartForeground forks, and says so whatever became of the child.
RestartForeground == "in_progress"

\* What RestartAgent may return: as a service, or in the foreground.
RestartAgent == {RestartService(exitCode) : exitCode \in {0, 1}} \union {RestartForeground}

\* ExecuteCommandTask || TimerTask for a module; RestartAgent otherwise, which
\* has no timer, and whose result is not reported.
ExecutionEnds ==
    /\ pc = "executing"
    /\ IF cmd \in RestartIds
       THEN result' \in RestartAgent /\ pc' = "update"
       ELSE result' \in Final /\ pc' = "report"
    /\ UNCHANGED <<cmdQueue, store, cmd, todo, reports, keepRunning, history>>

ReportResult ==
    /\ pc = "report"
    /\ ReportCommandResult(cmd, result)
    /\ pc' = "update"
    /\ UNCHANGED <<cmdQueue, store, cmd, result, todo, keepRunning, history>>

\* Mutant of UpdateResult: every result is recorded as a success.
UpdateAsSuccess ==
    /\ pc = "update"
    /\ UpdateCommand(cmd, "success")
    /\ pc' = "get"
    /\ UNCHANGED <<cmdQueue, cmd, result, todo, reports, keepRunning, history>>

\* Mutant of UpdateResult: the result is not recorded.
ForgetResult ==
    /\ pc = "update"
    /\ pc' = "get"
    /\ UNCHANGED <<cmdQueue, store, cmd, result, todo, reports, keepRunning, history>>

UpdateResult ==
    /\ pc = "update"
    /\ UpdateCommand(cmd, result)
    /\ pc' = "get"
    /\ UNCHANGED <<cmdQueue, cmd, result, todo, reports, keepRunning, history>>

\* BeginTransaction or CommitTransaction throws in the Storage under a report
\* or a pop: nothing catches it, and the coroutine ends.
StorageThrows ==
    /\ StorageFaults
    /\ pc \in {"cleanup", "reject", "rejectPop", "pop", "report"}
    /\ pc = "cleanup" => todo # {}
    /\ pc' = "done"
    /\ todo' = {}
    /\ UNCHANGED <<cmdQueue, store, cmd, result, reports, keepRunning, history>>

LeaveLoop ==
    /\ pc = "get"
    /\ ~keepRunning
    /\ pc' = "done"
    /\ UNCHANGED <<cmdQueue, store, cmd, result, todo, reports, keepRunning, history>>

-----------------------------------------------------------------------------
(* The process.                                                            *)

Start ==
    /\ ~alive
    /\ pc' = "start"
    /\ keepRunning' = TRUE
    /\ UNCHANGED <<cmdQueue, store, cmd, result, todo, reports, history>>

Stop ==
    /\ alive
    /\ keepRunning
    /\ stops < MaxStops
    /\ keepRunning' = FALSE
    /\ stops' = stops + 1
    /\ UNCHANGED <<cmdQueue, store, pc, cmd, result, todo, reports, delivered, executed,
                   crashes>>

ProcessEnds ==
    /\ pc' = "off"
    /\ cmd' = NoCommand
    /\ result' = "in_progress"
    /\ todo' = {}
    /\ UNCHANGED <<cmdQueue, store, reports, keepRunning, delivered, executed>>

\* The coroutine is destroyed where it is suspended: in its timer, or in
\* co_await dispatchCommand.
Exit ==
    /\ ~keepRunning
    /\ pc \in {"get", "executing", "done"}
    /\ ProcessEnds
    /\ UNCHANGED <<crashes, stops>>

Crash ==
    /\ alive
    /\ crashes < MaxCrashes
    /\ crashes' = crashes + 1
    /\ ProcessEnds
    /\ UNCHANGED stops

Task ==
    \/ CleanUpInProgressCommands \/ (\E id \in Ids : CleanUpReport(id))
    \/ CleanUpUpdate \/ CleanUpDone
    \/ WaitForCommand \/ GetCommandFromQueue \/ StoreCommand \/ RejectCommand
    \/ PopCommandFromQueue \/ DispatchCommand \/ ExecutionEnds \/ ReportResult \/ UpdateResult
    \/ StorageThrows \/ LeaveLoop

Next ==
    \/ \E id \in Ids : Deliver(id)
    \/ Task
    \/ Start \/ Stop \/ Exit \/ Crash

Spec == Init /\ [][Next]_vars

\* The executor keeps running the coroutine, an execution ends (TimerTask ends
\* that of a module after ten minutes; systemctl returns, or the process of a
\* restart is ended by it), and the agent is started again.
FairSpec == Spec /\ WF_vars(Task) /\ WF_vars(Exit) /\ WF_vars(Start)

-----------------------------------------------------------------------------
(* Properties.                                                             *)

\* No command is executed twice, however often the manager sends it and
\* wherever the process ends: StoreCommand comes first and refuses a known id.
AtMostOnce == \A id \in Ids : executed[id] <= 1

\* The CommandStore never changes a final status: neither a command sent again
\* nor CleanUpInProgressCommands touches a finished entry.
FinalStaysFinal ==
    [][\A id \in Ids : store[id] \in Final => store'[id] = store[id]]_vars

\* While it is being taken from the queue, the command at work is the first row
\* of it: popCommandFromQueue removes a row by position.
PopsTheCommand ==
    pc \in {"store", "reject", "rejectPop", "pop"} /\ cmd # NoCommand
        => cmdQueue # <<>> /\ Head(cmdQueue) = cmd

\* A command put in the queue is still there, or recorded, or has been reported:
\* it is "not lost in case of transient issues".
NotLost ==
    \A id \in Ids : delivered[id] > 0 =>
        \/ id \in Range(cmdQueue)
        \/ store[id] # "absent"
        \/ <<id, "failure">> \in reports

\* The results reported for a command do not contradict each other, as long as
\* the manager sends it once and the process does not crash.  (DispatchCommand
\* reports before CommandsProcessingTask records: a crash in between makes
\* CleanUpInProgressCommands report a failure as well.)
OneVerdictWithoutCrash ==
    (crashes = 0 /\ ~StorageFaults) =>
        \A id \in Ids, c, d \in Final :
            (delivered[id] = 1 /\ <<id, c>> \in reports /\ <<id, d>> \in reports) => c = d

\* The final status of a command in the store has been reported to the manager,
\* except that of a restart: what is recorded is never reported again.
FinalIsReported ==
    ~StorageFaults => \A id \in Ids \ RestartIds :
        store[id] \in Final => <<id, store[id]>> \in reports

\* The same for all commands: feedback is given after processing.
FeedbackGiven == \A id \in Ids : store[id] \in Final => <<id, store[id]>> \in reports

\* Every command in the queue is reported in the end, except a restart, whose
\* result is only reported by the next process.
EventuallyReported ==
    \A id \in Ids \ RestartIds :
        id \in Range(cmdQueue) ~> \E code \in Final : <<id, code>> \in reports
=============================================================================
