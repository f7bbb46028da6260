----------------------------- MODULE EventDelivery -----------------------------
(***************************************************************************)
(* From Store to the manager: one table of the message queue drained by    *)
(* Communicator::ExecuteRequestLoop (the stateful or the stateless task),  *)
(* with the coroutine that keeps the token valid                           *)
(* (WaitForTokenExpirationAndAuthenticate), Communicator::Stop, the end of *)
(* the process at any moment and its next start.  The manager and the      *)
(* network are external: a request may be lost, refused, or accepted with  *)
(* an answer that is lost.                                                 *)
(***************************************************************************)
EXTENDS MessageQueue

CONSTANTS
    MaxStops,       \* bound: orderly stops of the agent
    MaxCrashes,     \* bound: ends of the process without Communicator::Stop
    MaxTokenFaults, \* bound: tokens the manager revokes, or sends garbled
    MaxSilences,    \* bound: authentication requests that are never answered
    EmptyAccepted   \* whether the manager answers 2xx to a request without events

ASSUME DeliveryConstants ==
    /\ MaxStops \in Nat
    /\ MaxCrashes \in Nat
    /\ MaxTokenFaults \in Nat
    /\ MaxSilences \in Nat
    /\ EmptyAccepted \in BOOLEAN

VARIABLES
    loop,         \* where ExecuteRequestLoop is
    count,        \* its messagesCount
    body,         \* elements in reqParams.Body, which outlives an iteration
    sentToken,    \* reqParams.Token
    answer,       \* what Co_PerformHttpRequest returned
    token,        \* *m_token
    auth,         \* where WaitForTokenExpirationAndAuthenticate is
    keepRunning,  \* m_keepRunning
    accepted,     \* elements the manager has taken (external)
    stops, crashes, tokenFaults, silences

loopVars == <<loop, count, body, sentToken, answer>>
bounds == <<stops, crashes, tokenFaults, silences>>
vars == <<queueVars, loopVars, token, auth, keepRunning, accepted, bounds>>

Token == {"none", "valid", "revoked", "garbled"}

TypeOK ==
    /\ QueueTypeOK
    /\ loop \in {"off", "top", "get", "fetch", "request", "sent", "answered",
                 "sleep", "done"}
    /\ count \in Nat
    /\ body \subseteq Message
    /\ sentToken \in Token
    /\ answer \in {"2xx", "unauthorized", "error"}
    /\ token \in Token
    /\ auth \in {"off", "begin", "expiry", "retry", "check", "request",
                 "reading", "decode", "done"}
    /\ keepRunning \in BOOLEAN
    /\ accepted \subseteq Message
    /\ stops \in 0..MaxStops
    /\ crashes \in 0..MaxCrashes
    /\ tokenFaults \in 0..MaxTokenFaults
    /\ silences \in 0..MaxSilences

Init ==
    /\ QueueInit
    /\ loop = "off"
    /\ count = 0
    /\ body = {}
    /\ sentToken = "none"
    /\ answer = "error"
    /\ token = "none"
    /\ auth = "off"
    /\ keepRunning = TRUE
    /\ accepted = {}
    /\ stops = 0
    /\ crashes = 0
    /\ tokenFaults = 0
    /\ silences = 0

alive == loop # "off" \/ auth # "off"

-----------------------------------------------------------------------------
(* Communicator::ExecuteRequestLoop.                                       *)

\* Mutant of CheckToken: the count of "nothing read" is -1.
CheckTokenMinusOne ==
    /\ loop = "top"
    /\ loop' = IF token = "none" THEN "sleep" ELSE "get"
    /\ count' = -1
    /\ UNCHANGED <<queueVars, body, sentToken, answer, token, auth, keepRunning,
                   accepted, bounds>>

\* Without a token the iteration ends in the one-second timer.
CheckToken ==
    /\ loop = "top"
    /\ loop' = IF token = "none" THEN "sleep" ELSE "get"
    /\ count' = 0
    /\ UNCHANGED <<queueVars, body, sentToken, answer, token, auth, keepRunning,
                   accepted, bounds>>

\* while (m_keepRunning.load()): after Stop the loop is left with count = 0 and
\* the Body of the iteration before.
CheckKeepRunning ==
    /\ loop = "get"
    /\ loop' = IF keepRunning THEN "fetch" ELSE "request"
    /\ UNCHANGED <<queueVars, count, body, sentToken, answer, token, auth,
                   keepRunning, accepted, bounds>>

\* Mutant of GetMessages: the rows of the table are counted, not those read.
GetMessagesCountsTable ==
    /\ loop = "fetch"
    /\ IF RetrieveBySize = {}
       THEN loop' = "get" /\ UNCHANGED <<count, body>>
       ELSE /\ loop' = "request"
            /\ count' = Cardinality(DOMAIN rows)
            /\ body' = {rows[r] : r \in RetrieveBySize}
    /\ UNCHANGED <<queueVars, sentToken, answer, token, auth, keepRunning,
                   accepted, bounds>>

\* messageGetter: getNextBytesAwaitable waits, then RetrieveBySize reads.
GetMessages ==
    /\ loop = "fetch"
    /\ \E batch \in {RetrieveBySize} \union (IF SQLiteErrors THEN {{}} ELSE {}) :
          IF batch = {}
          THEN loop' = "get" /\ UNCHANGED <<count, body>>
          ELSE /\ loop' = "request"
               /\ count' = Cardinality(batch)
               /\ body' = {rows[r] : r \in batch}
    /\ UNCHANGED <<queueVars, sentToken, answer, token, auth, keepRunning,
                   accepted, bounds>>

\* The token is copied and the request leaves.
SendRequest ==
    /\ loop = "request"
    /\ loop' = "sent"
    /\ sentToken' = token
    /\ UNCHANGED <<queueVars, count, body, answer, token, auth, keepRunning,
                   accepted, bounds>>

\* The manager takes the events.  Its 2xx arrives, or the client sees an
\* error: the connection breaks, or Read, or the Shutdown after it, fails.
ManagerTakes(seen) ==
    /\ loop = "sent"
    /\ sentToken = "valid"
    /\ body # {} \/ EmptyAccepted
    /\ accepted' = accepted \union body
    /\ answer' = seen
    /\ loop' = "answered"
    /\ UNCHANGED <<queueVars, count, body, sentToken, token, auth, keepRunning, bounds>>

\* The request, or any answer to it, ends in an error (also for an answer that
\* does not come: AsyncRead has a time limit); a token that is not honoured may
\* also give 401 or 403.
RequestFails(seen) ==
    /\ loop = "sent"
    /\ seen = "unauthorized" => sentToken # "valid"
    /\ answer' = seen
    /\ loop' = "answered"
    /\ UNCHANGED <<queueVars, count, body, sentToken, token, auth, keepRunning,
                   accepted, bounds>>

Answered ==
    \/ \E seen \in {"2xx", "error"} : ManagerTakes(seen)
    \/ \E seen \in {"unauthorized", "error"} : RequestFails(seen)

\* Mutant of PopMessages: the status code is not looked at.
PopMessagesAnyway ==
    /\ loop = "answered"
    /\ RemoveMultiple(count, {})
    /\ loop' = "sleep"
    /\ UNCHANGED <<pc, next, left, stored, count, body, sentToken, answer, token,
                   auth, keepRunning, accepted, bounds>>

\* onSuccess: PopMessagesFromQueue(count).
PopMessages ==
    /\ loop = "answered"
    /\ answer = "2xx"
    /\ \E failed \in SUBSET Select(count) : RemoveMultiple(count, failed)
    /\ loop' = "sleep"
    /\ UNCHANGED <<pc, next, left, stored, count, body, sentToken, answer, token,
                   auth, keepRunning, accepted, bounds>>

\* BeginTransaction or CommitTransaction throws in RemoveMultiple: nothing on
\* the way catches it, and the coroutine ends (TaskManager logs that).
PopThrows ==
    /\ loop = "answered"
    /\ answer = "2xx"
    /\ SQLiteErrors
    /\ loop' = "done"
    /\ UNCHANGED <<queueVars, count, body, sentToken, answer, token, auth,
                   keepRunning, accepted, bounds>>

\* Mutant of TryReAuthenticate: the timer is not cancelled.
ForgetReAuthenticate == UNCHANGED auth

\* TryReAuthenticate cancels the timer; without a pending wait that is lost.
\* Its try_lock never fails here: it is contended only by the other loops.
TryReAuthenticate ==
    auth' = IF auth \in {"expiry", "retry"} THEN "check" ELSE auth

HandleFailure ==
    /\ loop = "answered"
    /\ answer # "2xx"
    /\ IF answer = "unauthorized" THEN TryReAuthenticate ELSE UNCHANGED auth
    /\ loop' = "sleep"
    /\ UNCHANGED <<queueVars, count, body, sentToken, answer, token, keepRunning,
                   accepted, bounds>>

\* The timer ends the iteration: while (m_keepRunning.load()).
EndIteration ==
    /\ loop = "sleep"
    /\ loop' = IF keepRunning THEN "top" ELSE "done"
    /\ UNCHANGED <<queueVars, count, body, sentToken, answer, token, auth,
                   keepRunning, accepted, bounds>>

-----------------------------------------------------------------------------
(* Communicator::WaitForTokenExpirationAndAuthenticate.                    *)

authFrame == <<queueVars, loopVars, keepRunning, accepted, bounds>>

\* A token with enough time left is waited for; without one it asks at once.
AuthBegin ==
    /\ auth = "begin"
    /\ auth' \in IF token = "none" THEN {"check"} ELSE {"expiry", "check"}
    /\ UNCHANGED <<token, authFrame>>

TimerExpires(timer) ==
    /\ auth = timer
    /\ auth' = "check"
    /\ UNCHANGED <<token, authFrame>>

AuthCheck ==
    /\ auth = "check"
    /\ auth' = IF keepRunning THEN "request" ELSE "done"
    /\ UNCHANGED <<token, authFrame>>

AuthSucceeds ==
    /\ auth = "request"
    /\ token' = "valid"
    /\ auth' = "expiry"
    /\ UNCHANGED authFrame

\* No token in the answer, or an exception: the old token stays.
AuthFails ==
    /\ auth = "request"
    /\ auth' = "retry"
    /\ UNCHANGED <<token, authFrame>>

\* *m_token is assigned before it is decoded ...
AuthGarbled ==
    /\ auth = "request"
    /\ tokenFaults < MaxTokenFaults
    /\ token' = "garbled"
    /\ auth' = "decode"
    /\ tokenFaults' = tokenFaults + 1
    /\ UNCHANGED <<queueVars, loopVars, keepRunning, accepted, stops, crashes,
                   silences>>

\* The request is written and its answer never comes.  PerformHttpRequest reads
\* with the blocking beast read, to which expires_after does not apply: nothing
\* but the end of the process leads out of "reading".
AuthSilent ==
    /\ auth = "request"
    /\ silences < MaxSilences
    /\ auth' = "reading"
    /\ silences' = silences + 1
    /\ UNCHANGED <<queueVars, loopVars, token, keepRunning, accepted, stops, crashes,
                   tokenFaults>>

\* ... and cleared when that fails.
DecodeFails ==
    /\ auth = "decode"
    /\ token' = "none"
    /\ auth' = "retry"
    /\ UNCHANGED authFrame

\* The manager stops honouring the token, wherever it is (external).
Revoke ==
    /\ tokenFaults < MaxTokenFaults
    /\ "valid" \in {token, sentToken}
    /\ token' = IF token = "valid" THEN "revoked" ELSE token
    /\ sentToken' = IF sentToken = "valid" THEN "revoked" ELSE sentToken
    /\ tokenFaults' = tokenFaults + 1
    /\ UNCHANGED <<queueVars, loop, count, body, answer, auth, keepRunning,
                   accepted, stops, crashes, silences>>

-----------------------------------------------------------------------------
(* The process: Agent::Run and its end.                                    *)

\* Agent::Run: a first SendAuthenticationRequest, then the coroutines.  (When
\* the manager says "Invalid key" it throws, and the process does not start.)
Start ==
    /\ ~alive
    /\ loop' = "top"
    /\ auth' = "begin"
    /\ token' \in {"valid", "none"}
    /\ keepRunning' = TRUE
    /\ UNCHANGED <<queueVars, count, body, sentToken, answer, accepted, bounds>>

\* The first authentication request is never answered: Agent::Run stays in it,
\* before any coroutine or module is started.
StartSilent ==
    /\ ~alive
    /\ silences < MaxSilences
    /\ auth' = "reading"
    /\ silences' = silences + 1
    /\ keepRunning' = TRUE
    /\ UNCHANGED <<queueVars, loopVars, token, accepted, stops, crashes, tokenFaults>>

\* Communicator::Stop: the modules are still running and pushing.
Stop ==
    /\ loop # "off"
    /\ keepRunning
    /\ stops < MaxStops
    /\ keepRunning' = FALSE
    /\ stops' = stops + 1
    /\ UNCHANGED <<queueVars, loopVars, token, auth, accepted, crashes, tokenFaults,
                   silences>>

ProcessEnds ==
    /\ AbandonPushes
    /\ loop' = "off"
    /\ count' = 0
    /\ body' = {}
    /\ sentToken' = "none"
    /\ answer' = "error"
    /\ token' = "none"
    /\ auth' = "off"

\* Agent::Run returns: the module threads have been joined, TaskManager::Stop
\* joins the threads of the pool, and the coroutines are destroyed where they
\* wait.  A thread that is in an authentication request is waited for.
Exit ==
    /\ ~keepRunning
    /\ loop \in {"fetch", "sent", "sleep", "done"}
    /\ auth \in {"begin", "expiry", "retry", "done"}
    /\ \A p \in Producers : pc[p] = "idle"
    /\ ProcessEnds
    /\ UNCHANGED <<keepRunning, accepted, bounds>>

\* The process is killed anywhere; the committed rows stay.
Crash ==
    /\ alive
    /\ crashes < MaxCrashes
    /\ crashes' = crashes + 1
    /\ ProcessEnds
    /\ UNCHANGED <<keepRunning, accepted, stops, tokenFaults, silences>>

\* The module threads run from Start on.
Push(p) ==
    /\ loop # "off"
    /\ Produce(p)
    /\ UNCHANGED <<loopVars, token, auth, keepRunning, accepted, bounds>>

Loop ==
    \/ CheckToken \/ CheckKeepRunning \/ GetMessages \/ SendRequest
    \/ Answered
    \/ PopMessages \/ PopThrows \/ HandleFailure \/ EndIteration

Authenticate ==
    \/ AuthBegin \/ TimerExpires("expiry") \/ TimerExpires("retry") \/ AuthCheck
    \/ AuthSucceeds \/ AuthFails \/ AuthGarbled \/ DecodeFails \/ AuthSilent

Next ==
    \/ \E p \in Producers : Push(p)
    \/ Loop
    \/ Authenticate
    \/ Revoke
    \/ Start \/ StartSilent \/ Stop \/ Exit \/ Crash

Spec == Init /\ [][Next]_vars

\* The coroutines go on.  A request of the loop ends, by its answer or by its
\* time limit; an authentication request ends or stays without an answer.  A
\* request that is repeated for ever gets the manager's true answer some time.
\* The expiry timer has no fairness: a token may be valid as long as one likes.
Fairness ==
    /\ WF_vars(CheckToken \/ CheckKeepRunning \/ GetMessages \/ SendRequest)
    /\ WF_vars(PopMessages \/ HandleFailure \/ EndIteration)
    /\ WF_vars(Answered)
    /\ SF_vars(ManagerTakes("2xx"))
    /\ SF_vars(RequestFails("unauthorized"))
    /\ WF_vars(AuthBegin \/ TimerExpires("retry") \/ AuthCheck \/ DecodeFails)
    /\ WF_vars(AuthSucceeds \/ AuthFails \/ AuthGarbled \/ AuthSilent)
    /\ SF_vars(AuthSucceeds)
    /\ WF_vars(Start \/ StartSilent)

FairSpec == Spec /\ Fairness

-----------------------------------------------------------------------------
(* Properties.                                                             *)

\* Elements in the table.
Waiting == Range(rows)

\* Until the agent is first told to stop, an element that was stored is in the
\* table or has been taken by the manager: no crash, lost answer or error of
\* PopMessagesFromQueue's popN loses one.
NoLossBeforeStop == stops = 0 => stored \subseteq Waiting \union accepted

\* The manager never takes an element while an earlier one of the same
\* producer waits in the table and has not been taken: retries and restarts
\* never let a later batch overtake an earlier one (RetrieveBySize, popN).
NoOvertaking ==
    \A w \in Waiting \ accepted, m \in accepted : w[1] = m[1] => m[2] < w[2]

\* While a request that carries count elements is out, they are the first
\* count rows: popN(count) removes by number, not by identity.
BatchIsHead ==
    (loop \in {"request", "sent", "answered"} /\ count > 0)
        => body = {rows[r] : r \in FirstRows(count)}

\* Rows only ever leave the table after the manager took them, except by the
\* popN(0) that follows Communicator::Stop: while the agent is not told to stop,
\* no request goes out without a fetched batch.
RemovesOnlyAccepted ==
    [][\A r \in DOMAIN rows : r \notin DOMAIN rows' =>
          rows[r] \in accepted \/ (count = 0 /\ ~keepRunning)]_vars

\* What is stored is in the table or has been taken by the manager, also when
\* the agent is stopped: the queue persists events so that none is lost.
NoLoss == stored \subseteq Waiting \union accepted

\* The agent waits for an authentication answer without a token it could use.
AuthBlocked == auth = "reading" /\ token # "valid"

\* Every stored element is taken by the manager in the end, whatever tokens
\* are revoked meanwhile, and without waiting for a token to expire: a 401 ends
\* in TryReAuthenticate.  The exception is an agent that waits for ever in the
\* blocking read of PerformHttpRequest and has no valid token.
Delivered ==
    []<>~AuthBlocked => \A m \in Message : m \in stored ~> m \in accepted

\* Every request ends, an authentication too: the timeout of a socket is "used
\* in every operation", those of PerformHttpRequest included.
RequestsEnd ==
    /\ loop = "sent" ~> loop # "sent"
    /\ auth \in {"request", "reading"} ~> auth \notin {"request", "reading"}
=============================================================================
