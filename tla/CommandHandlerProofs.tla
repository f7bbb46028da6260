-------------------------- MODULE CommandHandlerProofs -------------------------
(***************************************************************************)
(* Proofs about CommandHandler, for every set of commands, any number of   *)
(* deliveries, crashes and stops, and (unless a theorem says otherwise)    *)
(* with storage operations that may fail.                                  *)
(***************************************************************************)
EXTENDS CommandHandler, SequenceTheorems, TLAPS

\* A command that was dispatched is in the CommandStore.
RecordedOK == \A id \in Ids : executed[id] > 0 => store[id] # "absent"

\* From StoreCommand to UpdateCommand the command at work is recorded as in
\* progress, and it is dispatched only once.
WorkOK ==
    /\ pc = "store" => cmd \in Ids /\ result = "in_progress"
    /\ pc \in {"pop", "dispatch"} => executed[cmd] = 0
    /\ pc \in {"pop", "dispatch", "executing", "report", "update", "cleanupUpdate"}
          => cmd \in Ids /\ store[cmd] = "in_progress"
    /\ pc \in {"report", "cleanupUpdate"} => result \in Final

\* CleanUpInProgressCommands only holds entries that are still in progress.
CleanUpOK ==
    /\ \A id \in todo : store[id] = "in_progress"
    /\ pc \notin {"cleanup", "cleanupUpdate"} => todo = {}
    /\ pc = "cleanupUpdate" => cmd \notin todo

\* The row to be popped is there.
RowOK == pc \in {"store", "reject", "rejectPop", "pop"} => cmdQueue # <<>>

\* The inductive invariant.
CommandInv ==
    /\ TypeOK
    /\ AtMostOnce
    /\ RecordedOK
    /\ WorkOK
    /\ CleanUpOK
    /\ RowOK
    /\ PopsTheCommand

\* Without storage faults: what is about to be popped is recorded or reported.
KeptOK ==
    /\ pc \in {"reject", "rejectPop"} => cmd \in Ids
    /\ pc = "rejectPop" => <<cmd, "failure">> \in reports
    /\ NotLost

\* Without storage faults: what is about to be recorded has been reported.
ToldOK ==
    /\ pc = "update" => <<cmd, result>> \in reports \/ cmd \in RestartIds
    /\ pc = "cleanupUpdate" => <<cmd, result>> \in reports
    /\ FinalIsReported

-----------------------------------------------------------------------------
(* Lemmas.                                                                 *)

\* A row is added behind the others.
LEMMA AppendFacts ==
    ASSUME NEW q \in Seq(Ids), NEW id \in Ids
    PROVE  /\ Append(q, id) \in Seq(Ids)
           /\ Append(q, id) # <<>>
           /\ q # <<>> => Head(Append(q, id)) = Head(q)
           /\ Range(q) \union {id} \subseteq Range(Append(q, id))
<1>1. /\ DOMAIN q = 1..Len(q) /\ Len(q) \in Nat
      /\ DOMAIN Append(q, id) = 1..(Len(q) + 1)
      /\ \A i \in 1..Len(q) : Append(q, id)[i] = q[i]
      /\ Append(q, id)[Len(q) + 1] = id
  OBVIOUS
<1>2. Range(q) \union {id} \subseteq Range(Append(q, id))
  BY <1>1 DEF Range
<1>3. /\ Append(q, id) \in Seq(Ids)
      /\ Append(q, id) # <<>>
  BY <1>1
<1>4. q # <<>> => Head(Append(q, id)) = Head(q)
  BY <1>1
<1> QED BY <1>2, <1>3, <1>4

\* The first row is removed.
LEMMA TailFacts ==
    ASSUME NEW q \in Seq(Ids), q # <<>>
    PROVE  /\ Head(q) \in Ids
           /\ Tail(q) \in Seq(Ids)
           /\ Range(q) \subseteq Range(Tail(q)) \union {Head(q)}
<1>1. /\ DOMAIN q = 1..Len(q) /\ Len(q) \in Nat /\ Len(q) # 0
      /\ DOMAIN Tail(q) = 1..(Len(q) - 1)
      /\ \A i \in 1..(Len(q) - 1) : Tail(q)[i] = q[i + 1]
      /\ Head(q) = q[1]
  OBVIOUS
<1>2. ASSUME NEW i \in 1..Len(q), i # 1
      PROVE  q[i] \in Range(Tail(q))
  <2>1. i - 1 \in DOMAIN Tail(q) /\ Tail(q)[i - 1] = q[i]
    BY <1>1, <1>2
  <2> QED BY <2>1 DEF Range
<1>3. Range(q) \subseteq Range(Tail(q)) \union {Head(q)}
  BY <1>1, <1>2 DEF Range
<1> QED BY <1>3

LEMMA InitCommandInv == Init => CommandInv
BY CommandConstants DEF Init, CommandInv, TypeOK, AtMostOnce, RecordedOK, WorkOK, CleanUpOK,
   RowOK, PopsTheCommand, Status, Final

\* A command arrives.
LEMMA DeliverStep == ASSUME CommandInv, NEW id \in Ids, Deliver(id) PROVE CommandInv'
<1> USE DEF CommandInv
<1>1. /\ UNCHANGED <<store, pc, cmd, result, todo, reports, keepRunning, executed, crashes, stops>>
      /\ cmdQueue' = Append(cmdQueue, id)
      /\ cmdQueue \in Seq(Ids)
  BY DEF Deliver, TypeOK
<1>2. delivered' \in [Ids -> 0..MaxDeliveries]
  BY CommandConstants DEF Deliver, TypeOK
<1>3. /\ cmdQueue' \in Seq(Ids)
      /\ cmdQueue' # <<>>
      /\ cmdQueue # <<>> => Head(cmdQueue') = Head(cmdQueue)
  BY <1>1, AppendFacts
<1>4. TypeOK'
  BY <1>1, <1>2, <1>3 DEF TypeOK
<1>5. RowOK' /\ PopsTheCommand'
  BY <1>1, <1>3 DEF RowOK, PopsTheCommand
<1> QED BY <1>1, <1>4, <1>5 DEF AtMostOnce, RecordedOK, WorkOK, CleanUpOK

\* The steps of the clean-up.
LEMMA CleanUpStep ==
    ASSUME CommandInv,
           \/ CleanUpInProgressCommands
           \/ \E id \in Ids : CleanUpReport(id)
           \/ CleanUpUpdate
           \/ CleanUpDone
    PROVE  CommandInv'
<1> USE DEF CommandInv, history, Status, Final
<1>1. CASE CleanUpInProgressCommands
  BY <1>1 DEF CleanUpInProgressCommands, TypeOK, AtMostOnce, RecordedOK, WorkOK, CleanUpOK,
     RowOK, PopsTheCommand
<1>2. ASSUME NEW id \in Ids, CleanUpReport(id) PROVE CommandInv'
  <2>1. /\ UNCHANGED <<cmdQueue, store, keepRunning, delivered, executed, crashes, stops>>
        /\ pc = "cleanup" /\ pc' = "cleanupUpdate"
        /\ id \in todo /\ cmd' = id /\ todo' = todo \ {id}
        /\ result' \in {"success", "failure"}
        /\ reports' \subseteq reports \union {<<id, result'>>}
    BY <1>2 DEF CleanUpReport, ReportCommandResult
  <2>2. reports' \subseteq (Ids \union {NoCommand}) \X Final
    BY <2>1 DEF TypeOK
  <2>3. TypeOK'
    BY <2>1, <2>2 DEF TypeOK
  <2> QED BY <2>1, <2>3 DEF AtMostOnce, RecordedOK, WorkOK, CleanUpOK, RowOK, PopsTheCommand
<1>3. CASE CleanUpUpdate
  BY <1>3 DEF CleanUpUpdate, UpdateCommand, TypeOK, AtMostOnce, RecordedOK, WorkOK, CleanUpOK,
     RowOK, PopsTheCommand
<1>4. CASE CleanUpDone
  BY <1>4 DEF CleanUpDone, TypeOK, AtMostOnce, RecordedOK, WorkOK, CleanUpOK, RowOK,
     PopsTheCommand
<1> QED BY <1>1, <1>2, <1>3, <1>4

\* A command is taken from the queue: read, recorded or refused, and popped.
LEMMA TakeStep ==
    ASSUME CommandInv,
           \/ WaitForCommand \/ GetCommandFromQueue \/ StoreCommand \/ RejectCommand
           \/ PopCommandFromQueue
    PROVE  CommandInv'
<1> USE DEF CommandInv, history, Status, Final
<1>1. CASE WaitForCommand
  BY <1>1 DEF WaitForCommand, vars, TypeOK, AtMostOnce, RecordedOK, WorkOK, CleanUpOK, RowOK,
     PopsTheCommand
<1>2. CASE GetCommandFromQueue
  <2>1. Head(cmdQueue) \in Ids /\ cmdQueue # <<>>
    BY <1>2 DEF GetCommandFromQueue, TypeOK
  <2> QED
    BY <1>2, <2>1, CommandConstants DEF GetCommandFromQueue, TypeOK, AtMostOnce, RecordedOK,
       WorkOK, CleanUpOK, RowOK, PopsTheCommand, GetNext, CheckCommand
<1>3. CASE StoreCommand
  <2>1. cmd \in Ids /\ result = "in_progress" /\ cmdQueue # <<>>
    BY <1>3 DEF StoreCommand, WorkOK, RowOK
  <2>2. CASE store[cmd] = "absent" /\ store' = [store EXCEPT ![cmd] = result] /\ pc' = "pop"
    <3>1. executed[cmd] = 0
      BY <2>1, <2>2 DEF RecordedOK, TypeOK
    <3> QED
      BY <1>3, <2>1, <2>2, <3>1 DEF StoreCommand, TypeOK, AtMostOnce, RecordedOK, WorkOK,
         CleanUpOK, RowOK, PopsTheCommand
  <2>3. CASE pc' = "reject" /\ UNCHANGED store
    BY <1>3, <2>1, <2>3 DEF StoreCommand, TypeOK, AtMostOnce, RecordedOK, WorkOK, CleanUpOK,
       RowOK, PopsTheCommand
  <2> QED BY <1>3, <2>2, <2>3 DEF StoreCommand
<1>4. CASE RejectCommand
  <2>1. reports' \subseteq (Ids \union {NoCommand}) \X Final
    BY <1>4 DEF RejectCommand, ReportCommandResult, TypeOK
  <2> QED
    BY <1>4, <2>1 DEF RejectCommand, TypeOK, AtMostOnce, RecordedOK, WorkOK, CleanUpOK, RowOK,
       PopsTheCommand
<1>5. CASE PopCommandFromQueue
  <2>1. cmdQueue' \in Seq(Ids)
    BY <1>5, TailFacts DEF PopCommandFromQueue, TypeOK, RowOK
  <2> QED
    BY <1>5, <2>1 DEF PopCommandFromQueue, TypeOK, AtMostOnce, RecordedOK, WorkOK, CleanUpOK,
       RowOK, PopsTheCommand
<1> QED BY <1>1, <1>2, <1>3, <1>4, <1>5

\* A command is dispatched, and its result reported and recorded.
LEMMA WorkStep ==
    ASSUME CommandInv,
           \/ DispatchCommand \/ ExecutionEnds \/ ReportResult \/ UpdateResult
           \/ StorageThrows \/ LeaveLoop
    PROVE  CommandInv'
<1> USE DEF CommandInv, history, Status, Final
<1>1. CASE DispatchCommand
  <2>1. cmd \in Ids /\ executed[cmd] = 0 /\ store[cmd] = "in_progress"
    BY <1>1 DEF DispatchCommand, WorkOK
  <2>2. executed' = [executed EXCEPT ![cmd] = 1]
    BY <1>1, <2>1 DEF DispatchCommand, TypeOK
  <2>3. TypeOK' /\ AtMostOnce' /\ RecordedOK'
    BY <1>1, <2>1, <2>2 DEF DispatchCommand, TypeOK, AtMostOnce, RecordedOK
  <2> QED
    BY <1>1, <2>1, <2>3 DEF DispatchCommand, WorkOK, CleanUpOK, RowOK, PopsTheCommand
<1>2. CASE ExecutionEnds
  BY <1>2 DEF ExecutionEnds, RestartAgent, RestartService, RestartForeground, TypeOK,
     AtMostOnce, RecordedOK, WorkOK, CleanUpOK, RowOK, PopsTheCommand
<1>3. CASE ReportResult
  <2>1. reports' \subseteq (Ids \union {NoCommand}) \X Final
    BY <1>3 DEF ReportResult, ReportCommandResult, TypeOK, WorkOK
  <2> QED
    BY <1>3, <2>1 DEF ReportResult, TypeOK, AtMostOnce, RecordedOK, WorkOK, CleanUpOK, RowOK,
       PopsTheCommand
<1>4. CASE UpdateResult
  BY <1>4 DEF UpdateResult, UpdateCommand, TypeOK, AtMostOnce, RecordedOK, WorkOK, CleanUpOK,
     RowOK, PopsTheCommand
<1>5. CASE StorageThrows \/ LeaveLoop
  BY <1>5 DEF StorageThrows, LeaveLoop, TypeOK, AtMostOnce, RecordedOK, WorkOK, CleanUpOK,
     RowOK, PopsTheCommand
<1> QED BY <1>1, <1>2, <1>3, <1>4, <1>5

\* The process starts, is told to stop, or ends.
LEMMA CommandProcessStep ==
    ASSUME CommandInv, Start \/ Stop \/ Exit \/ Crash PROVE CommandInv'
<1> USE DEF CommandInv, history
<1>1. CASE Start
  BY <1>1 DEF Start, alive, TypeOK, AtMostOnce, RecordedOK, WorkOK, CleanUpOK, RowOK,
     PopsTheCommand
<1>2. CASE Stop
  <2>1. stops' \in 0..MaxStops
    BY <1>2, CommandConstants DEF Stop, TypeOK
  <2>2. keepRunning' \in BOOLEAN
    BY <1>2 DEF Stop
  <2>3. UNCHANGED <<cmdQueue, store, pc, cmd, result, todo, reports, delivered, executed, crashes>>
    BY <1>2 DEF Stop
  <2>4. TypeOK'
    BY <2>1, <2>2, <2>3 DEF TypeOK
  <2> QED
    BY <2>3, <2>4 DEF AtMostOnce, RecordedOK, WorkOK, CleanUpOK, RowOK, PopsTheCommand
<1>3. CASE Exit \/ Crash
  <2>1. /\ ProcessEnds
        /\ crashes' \in 0..MaxCrashes
        /\ UNCHANGED stops
    BY <1>3, CommandConstants DEF Exit, Crash, TypeOK
  <2> QED
    BY <2>1 DEF ProcessEnds, TypeOK, Status, AtMostOnce, RecordedOK, WorkOK, CleanUpOK, RowOK,
       PopsTheCommand
<1> QED BY <1>1, <1>2, <1>3

\* The invariant is inductive.
LEMMA StepCommandInv == CommandInv /\ [Next]_vars => CommandInv'
<1> SUFFICES ASSUME CommandInv, [Next]_vars PROVE CommandInv'
  OBVIOUS
<1>1. CASE UNCHANGED vars
  BY <1>1 DEF vars, CommandInv, TypeOK, AtMostOnce, RecordedOK, WorkOK, CleanUpOK, RowOK,
     PopsTheCommand
<1> QED
  BY <1>1, DeliverStep, CleanUpStep, TakeStep, WorkStep, CommandProcessStep DEF Next, Task

-----------------------------------------------------------------------------
(* Theorems.                                                               *)

\* Every reachable state satisfies the inductive invariant.
THEOREM CommandInvariance == Spec => []CommandInv
BY InitCommandInv, StepCommandInv, PTL DEF Spec

\* Every variable of the command handler stays in its type.
THEOREM CommandTypeCorrect == Spec => []TypeOK
BY CommandInvariance, PTL DEF CommandInv

\* No command is executed twice, whatever is sent again, fails or crashes.
THEOREM ExecutedAtMostOnce == Spec => []AtMostOnce
BY CommandInvariance, PTL DEF CommandInv

\* A row is popped only for the command that was read from it, unless the read
\* itself failed.
THEOREM PopsWhatItRead == Spec => []PopsTheCommand
BY CommandInvariance, PTL DEF CommandInv

\* A final status in the CommandStore never changes.
THEOREM FinalNeverChanges == Spec => FinalStaysFinal
<1>1. CommandInv /\ [Next]_vars
        => [\A id \in Ids : store[id] \in Final => store'[id] = store[id]]_vars
  <2> SUFFICES ASSUME CommandInv, Next, NEW id \in Ids, store[id] \in Final
               PROVE  store'[id] = store[id]
    OBVIOUS
  <2>1. store \in [Ids -> Status \union {"absent"}]
    BY DEF CommandInv, TypeOK
  <2>2. CASE CleanUpUpdate \/ UpdateResult \/ StoreCommand
    <3>1. cmd # id \/ store' = store
      BY <2>2 DEF CleanUpUpdate, UpdateResult, StoreCommand, CommandInv, WorkOK, Final
    <3> QED
      BY <2>1, <2>2, <3>1 DEF CleanUpUpdate, UpdateResult, StoreCommand, UpdateCommand
  <2>3. CleanUpUpdate \/ UpdateResult \/ StoreCommand \/ store' = store
    BY DEF Next, Task, Deliver, CleanUpInProgressCommands, CleanUpReport, CleanUpDone,
       WaitForCommand, GetCommandFromQueue, RejectCommand, PopCommandFromQueue,
       DispatchCommand, ExecutionEnds, ReportResult, StorageThrows, LeaveLoop, Start, Stop,
       Exit, Crash, ProcessEnds, vars
  <2> QED BY <2>2, <2>3
<1> QED BY <1>1, CommandInvariance, PTL DEF Spec, FinalStaysFinal

\* Without storage faults, a queued command is kept until it is recorded or
\* refused, wherever the process ends.
LEMMA KeptStep ==
    ASSUME ~StorageFaults, CommandInv, KeptOK, [Next]_vars PROVE KeptOK'
<1> USE DEF CommandInv, KeptOK, history
<1>1. ASSUME NEW id \in Ids, Deliver(id) PROVE KeptOK'
  <2>1. /\ UNCHANGED <<store, pc, cmd, reports>>
        /\ delivered' = [delivered EXCEPT ![id] = @ + 1]
        /\ Range(cmdQueue) \union {id} \subseteq Range(cmdQueue')
    BY <1>1, AppendFacts DEF Deliver, TypeOK
  <2>2. \A i \in Ids : i # id => delivered'[i] = delivered[i]
    BY <2>1 DEF TypeOK
  <2> QED BY <2>1, <2>2 DEF NotLost
<1>2. CASE PopCommandFromQueue
  <2>1. /\ pc' \in {"dispatch", "get"}
        /\ cmdQueue' = Tail(cmdQueue)
        /\ UNCHANGED <<store, cmd, reports, delivered>>
    BY <1>2 DEF PopCommandFromQueue
  <2>2. cmd \in Ids /\ cmdQueue # <<>>
    BY <1>2 DEF PopCommandFromQueue, WorkOK, RowOK
  <2>3. Head(cmdQueue) = cmd
    BY <1>2, <2>2, CommandConstants DEF PopCommandFromQueue, PopsTheCommand
  <2>4. Range(cmdQueue) \subseteq Range(cmdQueue') \union {cmd}
    BY <2>1, <2>2, <2>3, TailFacts DEF TypeOK
  <2>5. store[cmd] # "absent" \/ <<cmd, "failure">> \in reports
    BY <1>2 DEF PopCommandFromQueue, WorkOK
  <2> QED BY <2>1, <2>4, <2>5 DEF NotLost
<1>3. ASSUME UNCHANGED <<cmdQueue, delivered>>,
             reports \subseteq reports',
             \A id \in Ids : store[id] # "absent" => store'[id] # "absent"
      PROVE  NotLost'
  BY <1>3 DEF NotLost
<1>4. CASE GetCommandFromQueue
  <2>1. cmd' \in Ids
    BY <1>4, TailFacts DEF GetCommandFromQueue, GetNext, TypeOK
  <2> QED BY <1>3, <1>4, <2>1 DEF GetCommandFromQueue
<1>5. CASE StoreCommand
  <2>1. cmd \in Ids /\ result = "in_progress"
    BY <1>5 DEF StoreCommand, WorkOK
  <2>2. \A id \in Ids : store[id] # "absent" => store'[id] # "absent"
    BY <1>5, <2>1 DEF StoreCommand, TypeOK
  <2> QED BY <1>3, <1>5, <2>1, <2>2 DEF StoreCommand
<1>6. CASE RejectCommand
  BY <1>3, <1>6 DEF RejectCommand, ReportCommandResult
<1>7. CASE CleanUpUpdate \/ UpdateResult
  <2>1. \A id \in Ids : store[id] # "absent" => store'[id] # "absent"
    BY <1>7 DEF CleanUpUpdate, UpdateResult, UpdateCommand, TypeOK, Status, Final
  <2> QED BY <1>3, <1>7, <2>1 DEF CleanUpUpdate, UpdateResult
<1>8. CASE \/ CleanUpInProgressCommands \/ CleanUpDone \/ DispatchCommand \/ ExecutionEnds
           \/ LeaveLoop \/ StorageThrows \/ Start \/ Exit \/ Crash
  <2>1. UNCHANGED <<cmdQueue, store, reports, delivered>> /\ pc' \notin {"reject", "rejectPop"}
    BY <1>8 DEF CleanUpInProgressCommands, CleanUpDone, DispatchCommand, ExecutionEnds,
       LeaveLoop, StorageThrows, Start, Exit, Crash, ProcessEnds
  <2> QED BY <1>3, <2>1
<1>9. CASE ReportResult \/ \E id \in Ids : CleanUpReport(id)
  <2>1. /\ UNCHANGED <<cmdQueue, store, delivered>>
        /\ reports \subseteq reports'
        /\ pc' \notin {"reject", "rejectPop"}
    BY <1>9 DEF ReportResult, CleanUpReport, ReportCommandResult
  <2> QED BY <1>3, <2>1
<1>10. CASE Stop \/ WaitForCommand \/ UNCHANGED vars
  <2>1. UNCHANGED <<cmdQueue, store, pc, cmd, reports, delivered>>
    BY <1>10 DEF Stop, WaitForCommand, vars
  <2> QED BY <1>3, <2>1
<1> QED
  BY <1>1, <1>2, <1>4, <1>5, <1>6, <1>7, <1>8, <1>9, <1>10 DEF Next, Task

\* Without storage faults no queued command is lost, wherever the process ends.
THEOREM NoCommandLost == ASSUME ~StorageFaults PROVE Spec => []NotLost
<1>1. Init => KeptOK
  BY DEF Init, KeptOK, NotLost
<1>2. CommandInv /\ KeptOK /\ [Next]_vars => KeptOK'
  BY KeptStep
<1>3. KeptOK => NotLost
  BY DEF KeptOK
<1> QED BY <1>1, <1>2, <1>3, CommandInvariance, PTL DEF Spec

\* Without storage faults, a result is recorded only after it was reported.
LEMMA ToldStep ==
    ASSUME ~StorageFaults, CommandInv, ToldOK, [Next]_vars PROVE ToldOK'
<1> USE DEF CommandInv, ToldOK, history
<1>1. ASSUME UNCHANGED store, reports \subseteq reports' PROVE FinalIsReported'
  BY <1>1 DEF FinalIsReported
<1>2. CASE CleanUpUpdate \/ UpdateResult
  <2>1. /\ store' = [store EXCEPT ![cmd] = result]
        /\ UNCHANGED <<cmd, reports>>
        /\ pc' \in {"cleanup", "get"}
    BY <1>2 DEF CleanUpUpdate, UpdateResult, UpdateCommand
  <2>2. cmd \in Ids /\ (<<cmd, result>> \in reports \/ cmd \in RestartIds)
    BY <1>2 DEF CleanUpUpdate, UpdateResult, WorkOK
  <2>3. \A id \in Ids : store'[id] = IF id = cmd THEN result ELSE store[id]
    BY <2>1 DEF TypeOK
  <2> QED BY <2>1, <2>2, <2>3 DEF FinalIsReported
<1>3. CASE StoreCommand
  <2>1. cmd \in Ids /\ result = "in_progress"
    BY <1>3 DEF StoreCommand, WorkOK
  <2>2. \A id \in Ids : store'[id] \in Final => store'[id] = store[id]
    BY <1>3, <2>1 DEF StoreCommand, TypeOK, Final
  <2> QED BY <1>3, <2>2 DEF StoreCommand, FinalIsReported
<1>4. CASE ReportResult \/ RejectCommand \/ \E id \in Ids : CleanUpReport(id)
  <2>1. UNCHANGED store /\ reports \subseteq reports'
    BY <1>4 DEF ReportResult, RejectCommand, CleanUpReport, ReportCommandResult
  <2>2. pc' \in {"update", "cleanupUpdate"} => <<cmd', result'>> \in reports'
    BY <1>4 DEF ReportResult, RejectCommand, CleanUpReport, ReportCommandResult
  <2> QED BY <1>1, <2>1, <2>2
<1>5. CASE ExecutionEnds
  BY <1>1, <1>5 DEF ExecutionEnds
<1>6. CASE \/ CleanUpInProgressCommands \/ CleanUpDone \/ GetCommandFromQueue
           \/ PopCommandFromQueue \/ DispatchCommand \/ LeaveLoop \/ StorageThrows
           \/ Start \/ Exit \/ Crash
  <2>1. UNCHANGED <<store, reports>> /\ pc' \notin {"update", "cleanupUpdate"}
    BY <1>6 DEF CleanUpInProgressCommands, CleanUpDone, GetCommandFromQueue,
       PopCommandFromQueue, DispatchCommand, LeaveLoop, StorageThrows, Start, Exit, Crash,
       ProcessEnds
  <2> QED BY <1>1, <2>1
<1>7. CASE Stop \/ WaitForCommand \/ (\E id \in Ids : Deliver(id)) \/ UNCHANGED vars
  <2>1. UNCHANGED <<store, pc, cmd, result, reports>>
    BY <1>7 DEF Stop, WaitForCommand, Deliver, vars
  <2> QED BY <1>1, <2>1
<1> QED BY <1>2, <1>3, <1>4, <1>5, <1>6, <1>7 DEF Next, Task

\* The final status of a command that is no restart has been reported, wherever
\* the process ends, if storage does not fail.
THEOREM FinalStatusReported == Spec => []FinalIsReported
<1>1. CASE StorageFaults
  <2>1. FinalIsReported
    BY <1>1 DEF FinalIsReported
  <2> QED BY <2>1, PTL
<1>2. CASE ~StorageFaults
  <2>1. Init => ToldOK
    BY DEF Init, ToldOK, FinalIsReported, Final
  <2>2. CommandInv /\ ToldOK /\ [Next]_vars => ToldOK'
    BY <1>2, ToldStep
  <2>3. ToldOK => FinalIsReported
    BY DEF ToldOK
  <2> QED BY <2>1, <2>2, <2>3, CommandInvariance, PTL DEF Spec
<1> QED BY <1>1, <1>2
=============================================================================
