# Wazuh agent: TLA+ models, checks and proofs

This directory models the Wazuh agent (C++ sources under `src/`) in TLA+. TLC
checks the models on small instances. TLAPS proves the main safety properties
for every value of the constants.

## 1. The system

The agent collects events on a host and delivers them to a manager over HTTP.
It also executes the manager's commands. Its parts, and how they interact:

| Part | Source (`src/agent/` unless noted) | State | Operations |
|---|---|---|---|
| Message queue | `multitype_queue/` | three SQLite tables: STATELESS, STATEFUL, COMMAND | push, getNextBytes, getNext, pop, popN |
| Persistence | `persistence/` | one SQLite connection, open transactions | Insert, Select, Remove, Begin/Commit |
| Communicator | `communicator/` | token, its expiry, `m_keepRunning` | four coroutines: authentication, commands, stateful events, stateless events |
| HTTP client | `http_client/` | none | one request and its answer |
| Agent | `src/agent.cpp` | owner of everything | Run, ReloadModules |
| Command handler, command store | `command_handler/` | a SQLite table with the status of each command | CommandsProcessingTask, CleanUpInProgressCommands |
| Restart handler | `restart_handler/` | none | RestartAgent |
| Centralized configuration, agent info | `centralized_configuration/`, `agent_info/` | groups, shared files, `agent_info.db` | set-group, fetch-config |
| Configuration parser | `configuration_parser/` | merged YAML | Load, Reload, Get...InRangeOrDefault |
| Task manager, signal handler, instance handler and communicator | `task_manager/`, `src/`, `instance_communicator/` | thread pool, signal flag, lock file, socket | Start, Stop, EnqueueTask, WaitForSignal, lock, Listen |
| Module manager, modules | `modules/` | a thread per module | Logcollector, Inventory and SCA push events |

Module threads and coroutines push events into the queue. One coroutine per
event table reads a batch, posts it and pops it when the manager answers 2xx.
The command coroutine puts the manager's commands into the COMMAND table. The
command handler takes them from there, records them in its store, dispatches
them, and reports results through the STATEFUL table. A process may end at any
moment; the SQLite files survive it.

`PROJECT.json` lists every part with its status, and every hazard with the line
where it bites.

## 2. Modules

| Module | What it models |
|---|---|
| `MessageQueue` | one table of the queue: `push`, `Store`, `RetrieveBySize`, `RemoveMultiple` |
| `EventDelivery` | extends `MessageQueue`: the request loop, token renewal, stop, crash, restart |
| `CommandHandler` | COMMAND table, command store, `CommandsProcessingTask` and the clean-up at start |
| `EventDeliveryProofs`, `CommandHandlerProofs` | inductive invariants, lemmas, theorems |
| `MCMessageQueue`, `MCEventDelivery`, `MCCommandHandler` | instances for TLC |

Each specification module also holds small operators marked `Mutant of ...`.
They state a plausible mistake in one operation. They are used by no
specification; replacing the operation by its mutant makes TLC report the
property that guards against the mistake.

### MessageQueue

`rows` is the table as a function from rowids. A new row gets the largest rowid
plus one, so rowids are reused after the last rows are deleted. An element is a
pair of a producer and a number. `Store` and `RemoveMultiple` hold the mutex of
`Storage` and a transaction. The reads hold neither, but each is one SELECT under
the mutex of `SQLiteManager`. So each of them is one step. `push` is several
steps: it counts the rows (`CheckSpace`), then stores element by element
(`StoreElement`). Left out: `push` with `shouldWait`, which no caller outside the
tests uses, and arrays nested in an array, which no caller pushes. With
`SQLiteErrors`, a count that throws reads as 0, an insert or a deletion may fail
and be skipped, and a transaction may throw, which leaves `push` by exception.
`Select(n)` has the LIMIT clause only for `n > 0`, as the code has.

### EventDelivery

`loop` is the position of `ExecuteRequestLoop` between two suspension points,
`count` and `body` its locals. `body` outlives an iteration, as
`reqParams.Body` does. The manager (external) takes the Body of a request with
a valid token; its answer may be lost, and then the client sees 500. `auth` is
the position of `WaitForTokenExpirationAndAuthenticate`; cancelling its timer
has an effect only while the timer is waited for. The authentication is a
synchronous request with a blocking read, to which the socket's timeout does not
apply. When its answer never comes (`AuthSilent`, `StartSilent`), `auth` stays
"reading" and only a crash leads out of it; `MaxSilences` bounds these cases. At
the start this happens before any coroutine runs. `Exit` destroys coroutines
where they are suspended, and waits for a thread that is in an authentication,
since `TaskManager::Stop` joins it. `Crash` ends the process anywhere. A start
that the manager refuses ("Invalid key") throws out of `Agent::Run`: no process
runs, which is a start not yet taken. `try_lock` in `TryReAuthenticate` fails
only when another loop is in it, which then cancels the timer; the model has one
loop, and it is left out. `EmptyAccepted` says whether the manager accepts a
request without events; nothing in this repository decides that.

### CommandHandler

One step per database operation, so that a crash may fall between any two. A
command is its `document_id`. All commands in `VALID_COMMANDS_MAP` are
synchronous, so the asynchronous branch is left out. An execution ends with any
final code, which covers the timer of `DispatchCommand`. A restart has no timer.
`RestartService` gives "failure" when systemctl exits with 0 and "in progress"
when it does not; `RestartForeground` always gives "in progress". Neither is
reported there. The clean-up of the next process reports what is in progress, a
restart as successful. A read that fails returns an empty message, modelled by
`NoCommand`. Reports form a set of pairs of id and code. `Deliver` is one command
of a response; a command that finds no room is dropped, which changes nothing
and so is no step. With `StorageFaults`, a report may be dropped, an update or a
pop may fail, and a transaction may throw, which ends the task.

## 3. Runs

| Run | Instance | Result |
|---|---|---|
| `queue` | 2 producers, arrays up to 2, 4 elements each, queue size 2 | passes |
| `queue_faults` | 2 producers, 3 elements each, SQLite errors | passes |
| `delivery` | 2 producers, 2 elements each, 1 stop, 1 crash, SQLite errors | passes |
| `delivery_live` | 2 producers, 1 element each, 1 crash, 1 token fault, 1 unanswered authentication, no stop | passes |
| `auth_silent` | 1 unanswered authentication, no crash or token fault | `RequestsEnd` violated |
| `stop_loses` | 2 producers, 1 element each, 1 stop, no SQLite errors; the manager refuses empty requests | `NoLoss` violated |
| `commands` | 3 commands sent twice, queue size 2, 1 crash, 1 stop | passes |
| `commands_faults` | 2 commands sent twice, storage faults | passes |
| `commands_live` | 3 commands, 1 crash, 1 stop | passes |
| `commands_lost` | storage faults only | `NotLost` violated |
| `commands_restart` | no crash, stop or fault | `FeedbackGiven` violated |

What they show:

- `BoundedOvershoot`: the queue may exceed `queue_size`, since push checks and
  stores separately, by at most one granted array per other producer. The
  instance can push eight elements against a bound of four.
- `RowsInPushOrder`: reused rowids never reorder a producer's events.
- `NoLossBeforeStop`, `NoOvertaking`, `BatchIsHead`, `RemovesOnlyAccepted`:
  `popN(count)` removes by number what was read before a suspension. It removes
  what was sent, because only one coroutine removes and inserts go to the end.
  Duplicates are possible, loss and overtaking are not, until a stop. After a
  stop, `popN(0)` is the only way a row leaves without having been taken; the
  loss this means is what `NoLoss` in `stop_loses` shows.
- `Delivered`: an event reaches the manager also when its token was revoked,
  because a 401 ends in a new authentication. This needs an assumption on the
  manager, which the property states: the agent does not stay for ever in an
  unanswered authentication while it has no valid token. With a valid token the
  loop goes on meanwhile, on another thread of the pool (there are at least 4).
- `AtMostOnce`, `FinalStaysFinal`, `PopsTheCommand`: a command runs at most once,
  also when it is sent again, storage fails or the process ends; its final
  status stays. `PopsTheCommand` says nothing of a read that failed, which is the
  subject of `NotLost`.
- `NotLost`, `FinalIsReported`, `OneVerdictWithoutCrash`, `EventuallyReported`:
  without storage faults no command is lost, each is reported in the end, and a
  recorded result is one that was reported (restarts excepted); without a crash
  the reports do not contradict each other. With one they may: a result is
  reported before it is recorded, and when the process ends in between, the next
  one reports the command as failed. No document of the repository promises
  otherwise.

The bounds are small, but each case the properties tell apart occurs: a push
while a request is out, a partial deletion followed by another batch, a crash
between any two steps, a command both queued and recorded. The proofs remove
the bounds for the safety properties.

`commands_faults`, `delivery_live`, `auth_silent` and the two queue runs do not
check deadlock. In the first, an exception may end the task for the life of the
process. In the next two, an agent whose first authentication is never answered
does nothing more. In the queue runs, producers stop at their bound.

### Findings

1. `stop_loses`. When the agent is told to stop, the inner loop of
   `ExecuteRequestLoop` is skipped. The previous Body is sent again with a count
   of 0. On a 2xx, `popN(0)` deletes the whole table, with events never sent.
2. `commands_lost`. One failing read of the COMMAND table leads to the rejection
   of an empty command and the removal of the row that was not read.
3. `auth_silent`. `http_socket.hpp` says that the timeout is "used in every
   operation". The synchronous `Read` sets it, but it has no effect on a blocking
   read. An authentication that the manager does not answer never ends. The agent
   then does not start, or does not renew its token, and cannot stop.
4. `commands_restart`. `RestartService` gives FAILURE when systemctl exits with 0.
   That result is recorded and never reported, because `RestartAgent` is called
   without `DispatchCommand`. A systemctl that fails gives IN_PROGRESS, which the
   next start reports as a success.

## 4. Fairness

`EventDelivery` gives weak fairness to the steps of the coroutines, which the
thread pool keeps running, and to the end of a request of the loop: its
operations are asynchronous and have a timeout (60 s unless configured). An
authentication request has none. Its fairness only says that it ends in one of
four ways, one of which is that it is never answered. Strong fairness holds for
the true answer of the manager (acceptance, refusal of a bad token, a new
token): a network that fails every time delivers nothing. The expiry timer has
no fairness, since a token may be valid for any time. After a crash somebody
starts the agent again, with a key the manager knows.

`CommandHandler` gives weak fairness to its task, to the end of a stopping
process and to the next start. The execution of a module's command ends because
`TimerTask` ends it. `RestartAgent` has no timer. That it ends is an assumption
on `systemctl` or `launchctl`, which `std::system` waits for; a foreground
restart forks and returns.

## 5. Proofs

Assumptions: `QueueConstants`, `DeliveryConstants` and `CommandConstants`. They
only give the constants their types. `SizeOf` is positive and producers are a
finite set.

`EventDeliveryProofs`. None of the properties is inductive. `popN` counts rows,
so one must know that the fetched rows are the first ones, and that rows which
were already taken but could not be deleted come before all others. `IInv` adds:
a push has room in its numbering (`PushOK`), what is anywhere was stored
(`StoredOK`), taken rows are a prefix of the table followed by the Body's rows
(`HeadOK`), an outstanding batch is a downward closed set of `count` rows
(`BatchOK`), and a request goes out with count 0 only when the agent has been
told to stop (`AnswerOK`).
The lemma `LowestRows` shows that a downward closed set is the set of the lowest
rows of its size. `SelectIsBatch` applies it to `popN`. There is one lemma per
group of actions, and `StepInv` joins them. Theorems: `TypeCorrect`,
`NothingLostBeforeStop`, `DeliveredInOrder`, `BatchStaysHead`,
`OnlyAcceptedRemoved`.

`CommandHandlerProofs`. `CommandInv` adds: a dispatched command is recorded
(`RecordedOK`), the command at work is recorded as in progress and not yet
dispatched before `DispatchCommand` (`WorkOK`), the clean-up holds entries in
progress only (`CleanUpOK`), and there is a row to pop (`RowOK`). Theorems:
`CommandTypeCorrect`, `ExecutedAtMostOnce`, `PopsWhatItRead`,
`FinalNeverChanges`, and, if storage does not fail, `NoCommandLost` and
`FinalStatusReported`. The last two need a second layer on top of `CommandInv`:
what is about to be popped is recorded or reported (`KeptOK`), and what is about
to be recorded has been reported (`ToldOK`).

Only model-checked: liveness (`Delivered`, `EventuallyReported`), which is beyond
this prover, as is `RequestsEnd`; `BoundedOvershoot` and `OneVerdictWithoutCrash`, for which proofs
are planned.

## 6. Plan

1. `AtLeastOnceFIFO`: the abstract promise of event delivery, with `EventDelivery`
   shown to implement it while the agent is not stopped.
2. `Authentication` with time (tokens of short life), the command fetch loop.
3. `CentralizedConfiguration` with `AgentInfo`: steps that fail half-way.
4. Lifecycle: `SignalHandler`, `ModuleManager`, `TaskManager`, reload, `InstanceLock`.
5. Modules: `FileReader` of Logcollector, inventory scans, SCA check conditions.
6. `ConfigurationRange`: the range checks as pure operators.
7. Proofs: the overshoot bound, one verdict without crash, the refinement.

## 7. Not modelled

SQL text, TLS, URLs, logging, message formats, the operating-system calls behind
Inventory, and Windows variants. The legacy C modules are not part of the build.
