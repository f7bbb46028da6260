-------------------------- MODULE EventDeliveryProofs --------------------------
(***************************************************************************)
(* Proofs about EventDelivery, for every set of producers, every queue     *)
(* size and batch size, any number of stops, crashes, token faults and     *)
(* unanswered authentications, and with SQLite operations that may fail.   *)
(***************************************************************************)
EXTENDS EventDelivery, FiniteSetTheorems, TLAPS

\* A push in progress has elements left, and room for them in the numbering.
PushOK ==
    \A p \in Producers :
        /\ next[p] + left[p] <= MaxPushed + 1
        /\ pc[p] = "idle" <=> left[p] = 0

\* What is in the table, in the Body or at the manager was stored, and a
\* producer's stored elements are those before its next one.
StoredOK ==
    /\ Waiting \subseteq stored
    /\ accepted \subseteq stored
    /\ body \subseteq Waiting \union accepted
    /\ \A m \in stored : m[2] < next[m[1]]

\* The rows already taken by the manager are at the head of the table, and the
\* rows of the Body come right after them.
HeadOK ==
    \A q, r \in DOMAIN rows : q < r =>
        /\ rows[r] \in accepted => rows[q] \in accepted
        /\ rows[r] \in body => rows[q] \in body \union accepted

\* A request with a fetched batch: the Body is count rows at the head.
Batch == {r \in DOMAIN rows : rows[r] \in body}
BatchOK ==
    (loop \in {"request", "sent", "answered"} /\ count > 0) =>
        /\ body = {rows[r] : r \in Batch}
        /\ \A q, r \in DOMAIN rows : (q < r /\ r \in Batch) => q \in Batch
        /\ Cardinality(Batch) = count

\* A 2xx is for a Body the manager took, and only Stop makes a request go out
\* without a fetched batch.
AnswerOK ==
    /\ (loop = "answered" /\ answer = "2xx") => body \subseteq accepted
    /\ (loop \in {"request", "sent", "answered"} /\ keepRunning) => count > 0
    /\ stops = 0 => keepRunning
    /\ loop \in {"get", "fetch"} => count = 0

\* The inductive invariant.
IInv ==
    /\ TypeOK
    /\ PushOK
    /\ StoredOK
    /\ RowsInPushOrder
    /\ HeadOK
    /\ BatchOK
    /\ AnswerOK
    /\ NoLossBeforeStop
    /\ NoOvertaking

-----------------------------------------------------------------------------
(* Lemmas.                                                                 *)

\* A set that is closed downwards is the set of the lowest rows of its size:
\* this is why popN(n), which counts rows, removes what was fetched.
LEMMA LowestRows ==
    ASSUME NEW D, D \subseteq Nat, IsFiniteSet(D),
           NEW B, B \subseteq D,
           \A q, r \in D : (q < r /\ r \in B) => q \in B
    PROVE  {r \in D : Cardinality({q \in D : q <= r}) <= Cardinality(B)} = B
<1> DEFINE upTo(r) == {q \in D : q <= r}
<1>1. IsFiniteSet(B) /\ Cardinality(B) \in Nat
  BY FS_Subset, FS_CardinalityType
<1>2. ASSUME NEW r \in B PROVE Cardinality(upTo(r)) <= Cardinality(B)
  <2>1. \A q \in D : q <= r => q = r \/ q < r
    OBVIOUS
  <2>2. upTo(r) \subseteq B
    BY <2>1
  <2> QED BY <1>1, <2>2, FS_Subset
<1>3. ASSUME NEW r \in D, r \notin B PROVE ~(Cardinality(upTo(r)) <= Cardinality(B))
  <2>1. B \union {r} \subseteq upTo(r)
    BY <1>3
  <2>2. IsFiniteSet(upTo(r)) /\ Cardinality(upTo(r)) \in Nat
    BY FS_Subset, FS_CardinalityType
  <2>3. Cardinality(B \union {r}) = Cardinality(B) + 1
    BY <1>1, <1>3, FS_AddElement
  <2>4. Cardinality(B \union {r}) <= Cardinality(upTo(r))
    BY <2>1, <2>2, FS_Subset
  <2> QED BY <1>1, <2>2, <2>3, <2>4
<1> QED BY <1>2, <1>3

\* Message is finite, which bounds the rowids.
LEMMA MessageFinite == IsFiniteSet(Message) /\ Cardinality(Message) \in Nat
<1>1. IsFiniteSet(1..MaxPushed)
  BY QueueConstants, FS_Interval
<1> QED BY <1>1, QueueConstants, FS_Product, FS_CardinalityType DEF Message

\* RetrieveBySize returns rows at the head of the table.
LEMMA RetrieveIsHead ==
    /\ RetrieveBySize \subseteq DOMAIN rows
    /\ \A q, r \in DOMAIN rows : (q < r /\ r \in RetrieveBySize /\ DOMAIN rows \subseteq Nat)
          => q \in RetrieveBySize
BY DEF RetrieveBySize

\* The initial state satisfies the invariant.
LEMMA InitInv == Init => IInv
<1> SUFFICES ASSUME Init PROVE IInv
  OBVIOUS
<1> USE QueueConstants, DeliveryConstants DEF Init, QueueInit
<1>1. DOMAIN rows = {}
  OBVIOUS
<1>2. TypeOK
  BY <1>1, FS_EmptySet DEF TypeOK, QueueTypeOK, Token
<1>3. Waiting = {}
  BY <1>1 DEF Waiting, Range
<1> QED
  BY <1>1, <1>2, <1>3 DEF IInv, PushOK, StoredOK, RowsInPushOrder, HeadOK, BatchOK,
     AnswerOK, NoLossBeforeStop, NoOvertaking

\* Steps that change neither the queue nor what was sent or accepted keep the
\* invariant, if they keep the types and what concerns the request.
LEMMA QuietStep ==
    ASSUME IInv, TypeOK', BatchOK', AnswerOK',
           UNCHANGED <<queueVars, body, accepted, stops>>
    PROVE  IInv'
BY DEF IInv, queueVars, PushOK, StoredOK, RowsInPushOrder, HeadOK, Waiting,
   NoLossBeforeStop, NoOvertaking

\* The steps of the authentication coroutine and the revocation of tokens.
LEMMA TokenStep == ASSUME IInv, Authenticate \/ Revoke PROVE IInv'
<1> USE DEF IInv
<1>1. UNCHANGED <<queueVars, loop, count, body, answer, accepted, stops, keepRunning>>
  BY DEF Authenticate, Revoke, AuthBegin, TimerExpires, AuthCheck, AuthSucceeds,
     AuthFails, AuthGarbled, DecodeFails, AuthSilent, authFrame, loopVars, bounds
<1>2. QueueTypeOK'
  BY <1>1 DEF TypeOK, QueueTypeOK, queueVars
<1>3. TypeOK'
  BY <1>1, <1>2, DeliveryConstants DEF TypeOK, Token, Authenticate, Revoke, AuthBegin,
     TimerExpires, AuthCheck, AuthSucceeds, AuthFails, AuthGarbled, DecodeFails,
     AuthSilent, authFrame, loopVars, bounds
<1>4. BatchOK' /\ AnswerOK'
  BY <1>1 DEF BatchOK, AnswerOK, Batch, queueVars
<1> QED BY <1>1, <1>3, <1>4, QuietStep

\* The steps of the request loop that only move it on.
LEMMA QuietLoopStep ==
    ASSUME IInv,
           CheckToken \/ CheckKeepRunning \/ SendRequest \/ HandleFailure \/ EndIteration
           \/ PopThrows
    PROVE  IInv'
<1> USE DEF IInv
<1>1. UNCHANGED <<queueVars, body, answer, accepted, stops, keepRunning>>
  BY DEF CheckToken, CheckKeepRunning, SendRequest, HandleFailure, EndIteration, PopThrows, bounds
<1>2. QueueTypeOK'
  BY <1>1 DEF TypeOK, QueueTypeOK, queueVars
<1>3. TypeOK'
  BY <1>1, <1>2 DEF TypeOK, CheckToken, CheckKeepRunning, SendRequest,
     HandleFailure, TryReAuthenticate, EndIteration, PopThrows, bounds
<1>4. BatchOK'
  BY <1>1 DEF BatchOK, AnswerOK, Batch, queueVars, CheckToken, CheckKeepRunning,
     SendRequest, HandleFailure, EndIteration, PopThrows
<1>5. AnswerOK'
  BY <1>1 DEF AnswerOK, CheckToken, CheckKeepRunning, SendRequest, HandleFailure,
     EndIteration, PopThrows
<1> QED BY <1>1, <1>3, <1>4, <1>5, QuietStep

\* A batch is fetched, or nothing.
LEMMA FetchStep == ASSUME IInv, GetMessages PROVE IInv'
<1> USE DEF IInv
<1>1. /\ loop = "fetch"
      /\ UNCHANGED <<queueVars, sentToken, answer, token, auth, keepRunning, accepted,
                     bounds>>
  BY DEF GetMessages
<1>2. QueueTypeOK'
  BY <1>1 DEF TypeOK, QueueTypeOK, queueVars
<1>3. CASE loop' = "get" /\ UNCHANGED <<count, body>>
  <2>1. TypeOK' /\ BatchOK' /\ AnswerOK'
    BY <1>1, <1>2, <1>3 DEF TypeOK, BatchOK, AnswerOK, bounds
  <2> QED BY <1>1, <1>3, <2>1, QuietStep DEF bounds
<1>4. CASE /\ RetrieveBySize # {}
           /\ loop' = "request"
           /\ count' = Cardinality(RetrieveBySize)
           /\ body' = {rows[r] : r \in RetrieveBySize}
  <2> DEFINE B == RetrieveBySize
  <2>1. /\ DOMAIN rows \subseteq Nat
        /\ IsFiniteSet(DOMAIN rows)
        /\ rows \in [DOMAIN rows -> Message]
    BY DEF TypeOK, QueueTypeOK
  <2>2. /\ B \subseteq DOMAIN rows
        /\ \A q, r \in DOMAIN rows : (q < r /\ r \in B) => q \in B
    BY <2>1, RetrieveIsHead
  <2>3. IsFiniteSet(B) /\ Cardinality(B) \in Nat /\ Cardinality(B) > 0
    <3>1. IsFiniteSet(B) /\ Cardinality(B) \in Nat
      BY <2>1, <2>2, FS_Subset, FS_CardinalityType
    <3>2. Cardinality(B) # 0
      BY <1>4, <3>1, FS_EmptySet
    <3> QED BY <3>1, <3>2
  <2>4. \A q, r \in DOMAIN rows : rows[q] = rows[r] => q = r
    <3> SUFFICES ASSUME NEW q \in DOMAIN rows, NEW r \in DOMAIN rows, rows[q] = rows[r]
                 PROVE  q = r
      OBVIOUS
    <3>1. rows[q][1] = rows[r][1] /\ rows[q][2] = rows[r][2] /\ rows[q][2] \in Nat
      BY <2>1, QueueConstants DEF Message
    <3>2. ~(q < r) /\ ~(r < q)
      BY <3>1 DEF RowsInPushOrder
    <3> QED BY <2>1, <3>2
  <2>5. Batch' = B
    BY <1>1, <1>4, <2>2, <2>4 DEF Batch, queueVars
  <2>6. TypeOK'
    BY <1>1, <1>2, <1>4, <2>1, <2>2, <2>3 DEF TypeOK, bounds
  <2>7. BatchOK'
    BY <1>1, <1>4, <2>2, <2>5 DEF BatchOK, queueVars
  <2>8. AnswerOK'
    BY <1>1, <1>4, <2>3 DEF AnswerOK, bounds
  <2>9. StoredOK'
    BY <1>1, <1>4, <2>2 DEF StoredOK, Waiting, Range, queueVars
  <2>10. HeadOK'
    BY <1>1, <1>4, <2>2, <2>4 DEF HeadOK, queueVars
  <2> QED
    BY <1>1, <2>6, <2>7, <2>8, <2>9, <2>10 DEF queueVars, bounds, PushOK, RowsInPushOrder,
       NoLossBeforeStop, NoOvertaking, Waiting
<1> QED
  BY <1>3, <1>4 DEF GetMessages

\* The manager takes the Body, or the request fails.
LEMMA AnsweredStep == ASSUME IInv, Answered PROVE IInv'
<1> USE DEF IInv
<1>1. /\ loop = "sent"
      /\ loop' = "answered"
      /\ answer' \in {"2xx", "error", "unauthorized"}
      /\ UNCHANGED <<queueVars, count, body, sentToken, token, auth, keepRunning, bounds>>
      /\ \/ accepted' = accepted \union body
         \/ accepted' = accepted /\ answer' # "2xx"
  BY DEF Answered, ManagerTakes, RequestFails
<1>2. QueueTypeOK'
  BY <1>1 DEF TypeOK, QueueTypeOK, queueVars
<1>3. TypeOK'
  BY <1>1, <1>2 DEF TypeOK, bounds
<1>4. BatchOK'
  BY <1>1 DEF BatchOK, Batch, queueVars
<1>5. AnswerOK'
  BY <1>1 DEF AnswerOK, bounds
<1>6. StoredOK'
  BY <1>1 DEF StoredOK, Waiting, queueVars
<1>7. HeadOK'
  BY <1>1 DEF HeadOK, queueVars
<1>8. NoLossBeforeStop'
  BY <1>1 DEF NoLossBeforeStop, Waiting, queueVars, bounds
<1>9. NoOvertaking'
  <2> SUFFICES ASSUME NEW w \in Waiting \ accepted', NEW m \in accepted', w[1] = m[1]
               PROVE  m[2] < w[2]
    BY <1>1 DEF NoOvertaking, Waiting, queueVars
  <2>1. CASE m \in accepted
    BY <1>1, <2>1 DEF NoOvertaking
  <2>2. CASE m \notin accepted
    <3>1. m \in body /\ w \notin body /\ accepted' = accepted \union body
      BY <1>1, <2>2
    <3>2. m \in Waiting
      BY <2>2, <3>1 DEF StoredOK
    <3>3. PICK r \in DOMAIN rows, q \in DOMAIN rows : m = rows[r] /\ w = rows[q]
      BY <3>2 DEF Waiting, Range
    <3>4. ~(q < r)
      BY <1>1, <3>1, <3>3 DEF HeadOK
    <3>5. q # r
      BY <3>1, <3>3
    <3>6. r < q
      BY <3>4, <3>5 DEF TypeOK, QueueTypeOK
    <3> QED BY <3>3, <3>6 DEF RowsInPushOrder
  <2> QED BY <2>1, <2>2
<1> QED
  BY <1>1, <1>3, <1>4, <1>5, <1>6, <1>7, <1>8, <1>9 DEF queueVars, PushOK, RowsInPushOrder

\* popN(count) selects the rows that were fetched, and the manager took them.
LEMMA SelectIsBatch ==
    ASSUME IInv, loop = "answered", answer = "2xx", count > 0
    PROVE  Select(count) = Batch /\ \A r \in Select(count) : rows[r] \in accepted
<1> USE DEF IInv
<1>1. DOMAIN rows \subseteq Nat /\ IsFiniteSet(DOMAIN rows) /\ Batch \subseteq DOMAIN rows
  BY DEF TypeOK, QueueTypeOK, Batch
<1>2. /\ \A q, r \in DOMAIN rows : (q < r /\ r \in Batch) => q \in Batch
      /\ Cardinality(Batch) = count
  BY DEF BatchOK
<1>3. FirstRows(Cardinality(Batch)) = Batch
  BY <1>1, <1>2, LowestRows DEF FirstRows
<1>4. Select(count) = Batch
  BY <1>2, <1>3 DEF Select
<1> QED BY <1>4 DEF Batch, AnswerOK

\* The rows of an answered request are removed, all or some of them.
LEMMA PopStep == ASSUME IInv, PopMessages PROVE IInv'
<1> USE DEF IInv
<1>1. /\ loop = "answered"
      /\ answer = "2xx"
      /\ loop' = "sleep"
      /\ UNCHANGED <<pc, next, left, stored, count, body, sentToken, answer, token,
                     auth, keepRunning, accepted, bounds>>
  BY DEF PopMessages
<1>2. PICK failed : rows' = Restrict(rows, DOMAIN rows \ (Select(count) \ failed))
  BY DEF PopMessages, RemoveMultiple
<1>3. /\ DOMAIN rows' = DOMAIN rows \ (Select(count) \ failed)
      /\ DOMAIN rows' \subseteq DOMAIN rows
      /\ \A r \in DOMAIN rows' : rows'[r] = rows[r]
  BY <1>2 DEF Restrict
<1>4. Waiting' \subseteq Waiting
  BY <1>3 DEF Waiting, Range
<1>5. QueueTypeOK'
  <2>1. IsFiniteSet(DOMAIN rows')
    BY <1>3, FS_Subset DEF TypeOK, QueueTypeOK
  <2>2. rows' \in [DOMAIN rows' -> Message]
    BY <1>2, <1>3 DEF TypeOK, QueueTypeOK, Restrict
  <2> QED BY <1>1, <1>3, <2>1, <2>2 DEF TypeOK, QueueTypeOK
<1>6. TypeOK'
  BY <1>1, <1>5 DEF TypeOK, bounds
<1>7. PushOK' /\ BatchOK' /\ AnswerOK'
  BY <1>1 DEF PushOK, BatchOK, AnswerOK, bounds
<1>8. StoredOK'
  BY <1>1, <1>4 DEF StoredOK, AnswerOK
<1>9. RowsInPushOrder'
  BY <1>3 DEF RowsInPushOrder
<1>10. HeadOK'
  BY <1>1, <1>3 DEF HeadOK
<1>11. NoLossBeforeStop'
  <2> SUFFICES ASSUME stops = 0, NEW m \in stored, m \notin accepted
               PROVE  m \in Waiting'
    BY <1>1 DEF NoLossBeforeStop, bounds
  <2>1. count > 0
    BY <1>1 DEF AnswerOK
  <2>2. PICK r \in DOMAIN rows : m = rows[r]
    BY DEF NoLossBeforeStop, Waiting, Range
  <2>3. r \notin Select(count)
    BY <1>1, <2>1, <2>2, SelectIsBatch
  <2> QED BY <1>3, <2>2, <2>3 DEF Waiting, Range
<1>12. NoOvertaking'
  BY <1>1, <1>4 DEF NoOvertaking
<1> QED BY <1>6, <1>7, <1>8, <1>9, <1>10, <1>11, <1>12

\* The process starts, is told to stop, or ends.
LEMMA ProcessStep ==
    ASSUME IInv, Start \/ StartSilent \/ Stop \/ Exit \/ Crash
    PROVE  IInv'
<1> USE DEF IInv
<1>1. CASE Start \/ StartSilent
  <2>1. /\ UNCHANGED <<queueVars, count, body, answer, accepted, stops>>
        /\ loop' \in {"top", "off"}
    BY <1>1 DEF Start, StartSilent, alive, loopVars, bounds
  <2>2. QueueTypeOK'
    BY <2>1 DEF TypeOK, QueueTypeOK, queueVars
  <2>3. TypeOK'
    <3>1. CASE Start
      BY <2>2, <3>1 DEF Start, TypeOK, Token, bounds
    <3>2. CASE StartSilent
      BY <2>2, <3>2, DeliveryConstants DEF StartSilent, TypeOK, loopVars
    <3> QED BY <1>1, <3>1, <3>2
  <2>4. keepRunning'
    BY <1>1 DEF Start, StartSilent
  <2>5. BatchOK' /\ AnswerOK'
    BY <2>1, <2>4 DEF BatchOK, AnswerOK
  <2> QED BY <2>1, <2>3, <2>5, QuietStep
<1>2. CASE Stop
  <2>1. /\ UNCHANGED <<queueVars, loop, count, body, sentToken, answer, token, auth,
                      accepted, crashes, tokenFaults, silences>>
        /\ stops' = stops + 1
        /\ stops' \in 1..MaxStops
        /\ keepRunning' = FALSE
    BY <1>2, DeliveryConstants DEF Stop, loopVars, TypeOK
  <2>2. QueueTypeOK'
    BY <2>1 DEF TypeOK, QueueTypeOK, queueVars
  <2>3. TypeOK'
    <3>1. stops' \in 0..MaxStops
      BY <2>1
    <3>2. keepRunning' \in BOOLEAN
      BY <2>1
    <3> QED BY <2>1, <2>2, <3>1, <3>2 DEF TypeOK
  <2>4. BatchOK' /\ AnswerOK'
    BY <2>1 DEF BatchOK, Batch, AnswerOK, queueVars
  <2> QED
    BY <2>1, <2>3, <2>4 DEF queueVars, PushOK, StoredOK, RowsInPushOrder, HeadOK, Waiting,
       NoLossBeforeStop, NoOvertaking
<1>3. CASE Exit \/ Crash
  <2>1. /\ ProcessEnds
        /\ UNCHANGED <<keepRunning, accepted, stops, tokenFaults, silences>>
        /\ crashes' \in 0..MaxCrashes
    BY <1>3, DeliveryConstants DEF Exit, Crash, bounds, TypeOK
  <2>2. UNCHANGED <<rows, stored>>
    BY <2>1 DEF ProcessEnds, AbandonPushes
  <2>3. /\ next' \in [Producers -> 1..(MaxPushed + 1)]
        /\ \A p \in Producers : next'[p] = next[p] + left[p] /\ next[p] <= next'[p]
    BY <2>1, QueueConstants DEF ProcessEnds, AbandonPushes, PushOK, TypeOK, QueueTypeOK
  <2>4. QueueTypeOK'
    BY <2>1, <2>2, <2>3, QueueConstants DEF ProcessEnds, AbandonPushes, TypeOK, QueueTypeOK
  <2>5. TypeOK'
    BY <2>1, <2>4 DEF ProcessEnds, TypeOK, Token
  <2>6. PushOK'
    BY <2>1, <2>3, QueueConstants DEF ProcessEnds, AbandonPushes, PushOK
  <2>7. BatchOK' /\ AnswerOK'
    BY <2>1 DEF ProcessEnds, BatchOK, AnswerOK
  <2>8. StoredOK'
    <3>1. \A m \in stored : m[2] < next'[m[1]]
      <4> TAKE m \in stored
      <4>1. m[1] \in Producers /\ m[2] \in Nat /\ m[2] < next[m[1]]
        BY QueueConstants DEF StoredOK, TypeOK, QueueTypeOK, Message
      <4>2. next[m[1]] \in Nat /\ next'[m[1]] \in Nat /\ next[m[1]] <= next'[m[1]]
        BY <2>3, <4>1, QueueConstants DEF TypeOK, QueueTypeOK
      <4> QED BY <4>1, <4>2
    <3> QED BY <2>1, <2>2, <3>1 DEF ProcessEnds, StoredOK, Waiting
  <2> QED
    BY <2>1, <2>2, <2>5, <2>6, <2>7, <2>8 DEF ProcessEnds, RowsInPushOrder, HeadOK, Waiting,
       NoLossBeforeStop, NoOvertaking
<1> QED BY <1>1, <1>2, <1>3

\* An element is stored in a new row, behind all others.
LEMMA InsertStep ==
    ASSUME IInv, NEW p \in Producers, pc[p] = "store", Insert(<<p, next[p]>>),
           next' = [next EXCEPT ![p] = @ + 1],
           UNCHANGED <<loop, count, body, answer, accepted, stops, keepRunning>>
    PROVE  /\ DOMAIN rows' \subseteq Nat \ {0}
           /\ IsFiniteSet(DOMAIN rows')
           /\ rows' \in [DOMAIN rows' -> Message]
           /\ stored' \subseteq Message
           /\ StoredOK' /\ RowsInPushOrder' /\ HeadOK' /\ BatchOK'
           /\ NoLossBeforeStop' /\ NoOvertaking'
<1> USE DEF IInv
<1> DEFINE m == <<p, next[p]>>
<1>1. PICK r \in 1..Cardinality(Message) :
          /\ IsNewRowid(r)
          /\ rows' = [q \in DOMAIN rows \union {r} |-> IF q = r THEN m ELSE rows[q]]
  BY DEF Insert
<1>2. r \in Nat \ {0} /\ r \notin DOMAIN rows /\ \A q \in DOMAIN rows : q < r
  BY <1>1, MessageFinite DEF IsNewRowid, TypeOK, QueueTypeOK
<1>3. /\ DOMAIN rows' = DOMAIN rows \union {r}
      /\ rows'[r] = m
      /\ \A q \in DOMAIN rows : rows'[q] = rows[q]
  BY <1>1, <1>2
<1>4. m \in Message /\ next[p] \in Nat
  BY QueueConstants DEF Message, PushOK, TypeOK, QueueTypeOK
<1>5. stored' = stored \union {m}
  BY DEF Insert
<1>6. \A n \in stored : n[1] = p => n[2] < next[p]
  BY DEF StoredOK
<1>7. m \notin stored
  BY <1>4, <1>6
<1>8. Waiting' = Waiting \union {m}
  BY <1>3 DEF Waiting, Range
<1>9. /\ DOMAIN rows' \subseteq Nat \ {0}
      /\ rows' \in [DOMAIN rows' -> Message]
      /\ stored' \subseteq Message
  BY <1>1, <1>2, <1>3, <1>4, <1>5 DEF TypeOK, QueueTypeOK
<1>10. IsFiniteSet(DOMAIN rows')
  BY <1>3, FS_AddElement DEF TypeOK, QueueTypeOK
<1>11. StoredOK'
  <2>1. \A n \in stored' : n[2] < next'[n[1]]
    <3> TAKE n \in stored'
    <3>1. n[1] \in Producers /\ n[2] \in Nat /\ next[n[1]] \in Nat
      BY <1>9, QueueConstants DEF Message, TypeOK, QueueTypeOK
    <3>2. next'[n[1]] = IF n[1] = p THEN next[p] + 1 ELSE next[n[1]]
      BY <3>1 DEF TypeOK, QueueTypeOK
    <3> QED BY <1>4, <1>5, <3>1, <3>2 DEF StoredOK
  <2> QED BY <1>5, <1>8, <2>1 DEF StoredOK
<1>12. RowsInPushOrder'
  <2> SUFFICES ASSUME NEW q \in DOMAIN rows', NEW s \in DOMAIN rows', q < s,
                      rows'[q][1] = rows'[s][1]
               PROVE  rows'[q][2] < rows'[s][2]
    BY DEF RowsInPushOrder
  <2>1. q \in DOMAIN rows
    BY <1>2, <1>3 DEF TypeOK, QueueTypeOK
  <2>2. CASE s \in DOMAIN rows
    BY <1>3, <2>1, <2>2 DEF RowsInPushOrder
  <2>3. CASE s = r
    <3>1. rows[q] \in stored
      BY <2>1 DEF StoredOK, Waiting, Range
    <3> QED BY <1>3, <1>6, <2>1, <2>3, <3>1
  <2> QED BY <1>3, <2>2, <2>3
<1>13. m \notin body /\ m \notin accepted
  BY <1>7 DEF StoredOK
<1>14. HeadOK'
  <2> SUFFICES ASSUME NEW q \in DOMAIN rows', NEW s \in DOMAIN rows', q < s,
                      rows'[s] \in body \union accepted
               PROVE  /\ rows'[s] \in accepted => rows'[q] \in accepted
                      /\ rows'[s] \in body => rows'[q] \in body \union accepted
    BY DEF HeadOK
  <2>1. q \in DOMAIN rows /\ s \in DOMAIN rows
    BY <1>2, <1>3, <1>13 DEF TypeOK, QueueTypeOK
  <2> QED BY <1>3, <2>1 DEF HeadOK
<1>15. BatchOK'
  <2>1. Batch' = Batch
    BY <1>2, <1>3, <1>13 DEF Batch
  <2>2. \A q \in Batch : q \in DOMAIN rows /\ rows'[q] = rows[q]
    BY <1>3 DEF Batch
  <2>3. \A q, s \in DOMAIN rows' : (q < s /\ s \in Batch) => q \in DOMAIN rows
    BY <1>2, <1>3, <2>2 DEF TypeOK, QueueTypeOK
  <2> QED BY <2>1, <2>2, <2>3 DEF BatchOK
<1>16. NoLossBeforeStop'
  BY <1>5, <1>8 DEF NoLossBeforeStop
<1>17. NoOvertaking'
  <2> SUFFICES ASSUME NEW w \in Waiting' \ accepted, NEW n \in accepted, w[1] = n[1]
               PROVE  n[2] < w[2]
    BY DEF NoOvertaking
  <2>1. n \in stored
    BY DEF StoredOK
  <2> QED BY <1>6, <1>8, <2>1 DEF NoOvertaking
<1> QED BY <1>9, <1>10, <1>11, <1>12, <1>14, <1>15, <1>16, <1>17

\* The steps of a producer.
LEMMA PushStep == ASSUME IInv, NEW p \in Producers, Push(p) PROVE IInv'
<1> USE DEF IInv
<1>1. UNCHANGED <<loop, count, body, sentToken, answer, token, auth, keepRunning, accepted,
                  bounds>>
  BY DEF Push, loopVars
<1>2. ASSUME QueueTypeOK' PROVE TypeOK'
  BY <1>1, <1>2 DEF TypeOK, bounds
<1>3. AnswerOK'
  BY <1>1 DEF AnswerOK, bounds
<1>4. next \in [Producers -> Nat] /\ left \in [Producers -> Nat] /\ MaxPushed \in Nat
      /\ MaxArray \in Nat
  BY QueueConstants DEF TypeOK, QueueTypeOK
<1>5. CASE UNCHANGED <<rows, stored>> /\ QueueTypeOK' /\ PushOK'
           /\ \A n \in stored : n[2] < next'[n[1]]
  BY <1>1, <1>2, <1>3, <1>5 DEF StoredOK, RowsInPushOrder, HeadOK, BatchOK, Batch, Waiting,
     NoLossBeforeStop, NoOvertaking, bounds
<1>6. ASSUME NEW k \in 1..MaxArray, BeginPush(p, k) PROVE IInv'
  <2>1. QueueTypeOK' /\ PushOK'
    BY <1>4, <1>6 DEF BeginPush, PushOK, TypeOK, QueueTypeOK
  <2> QED BY <1>5, <1>6, <2>1 DEF BeginPush, StoredOK
<1>7. ASSUME NEW n, CheckSpace(p, n) PROVE IInv'
  <2>1. \A q \in Producers : next[q] <= next'[q] /\ next'[q] \in Nat
    BY <1>4, <1>7 DEF CheckSpace
  <2>2. QueueTypeOK' /\ PushOK'
    BY <1>4, <1>7, QueueConstants DEF CheckSpace, PushOK, TypeOK, QueueTypeOK
  <2>3. \A m \in stored : m[2] < next'[m[1]]
    <3> TAKE m \in stored
    <3>1. m[1] \in Producers /\ m[2] \in Nat /\ m[2] < next[m[1]]
      BY QueueConstants DEF StoredOK, TypeOK, QueueTypeOK, Message
    <3> QED BY <1>4, <2>1, <3>1
  <2> QED BY <1>5, <1>7, <2>2, <2>3 DEF CheckSpace
<1>8. CASE StoreElement(p)
  <2>1. /\ pc[p] = "store" /\ left[p] >= 1
        /\ next' = [next EXCEPT ![p] = @ + 1]
        /\ left' = [left EXCEPT ![p] = @ - 1]
        /\ pc' = [pc EXCEPT ![p] = IF left[p] = 1 THEN "idle" ELSE "store"]
    BY <1>4, <1>8 DEF StoreElement, PushOK
  <2>2. PushOK' /\ next' \in [Producers -> 1..(MaxPushed + 1)]
        /\ left' \in [Producers -> 0..MaxArray]
        /\ pc' \in [Producers -> {"idle", "count", "store"}]
    BY <1>4, <2>1 DEF PushOK, TypeOK, QueueTypeOK
  <2>3. CASE Insert(<<p, next[p]>>)
    <3>1. /\ DOMAIN rows' \subseteq Nat \ {0}
          /\ IsFiniteSet(DOMAIN rows')
          /\ rows' \in [DOMAIN rows' -> Message]
          /\ stored' \subseteq Message
          /\ StoredOK' /\ RowsInPushOrder' /\ HeadOK' /\ BatchOK'
          /\ NoLossBeforeStop' /\ NoOvertaking'
      BY <1>1, <2>1, <2>3, InsertStep DEF bounds
    <3>2. QueueTypeOK'
      BY <2>2, <3>1 DEF QueueTypeOK
    <3> QED BY <1>2, <1>3, <2>2, <3>1, <3>2
  <2>4. CASE UNCHANGED <<rows, stored>>
    <3>1. QueueTypeOK'
      BY <2>2, <2>4 DEF QueueTypeOK, TypeOK
    <3>2. \A m \in stored : m[2] < next'[m[1]]
      <4> TAKE m \in stored
      <4>1. m[1] \in Producers /\ m[2] \in Nat /\ m[2] < next[m[1]]
        BY QueueConstants DEF StoredOK, TypeOK, QueueTypeOK, Message
      <4>2. next'[m[1]] \in Nat /\ next[m[1]] <= next'[m[1]]
        BY <1>4, <2>1, <4>1
      <4> QED BY <1>4, <4>1, <4>2
    <3> QED BY <1>5, <2>2, <2>4, <3>1, <3>2
  <2> QED BY <1>8, <2>3, <2>4 DEF StoreElement
<1>9. CASE PushThrows(p)
  <2>1. \A q \in Producers : next[q] <= next'[q] /\ next'[q] \in Nat
    BY <1>4, <1>9 DEF PushThrows
  <2>2. QueueTypeOK' /\ PushOK'
    BY <1>4, <1>9, QueueConstants DEF PushThrows, PushOK, TypeOK, QueueTypeOK
  <2>3. \A m \in stored : m[2] < next'[m[1]]
    <3> TAKE m \in stored
    <3>1. m[1] \in Producers /\ m[2] \in Nat /\ m[2] < next[m[1]]
      BY QueueConstants DEF StoredOK, TypeOK, QueueTypeOK, Message
    <3> QED BY <1>4, <2>1, <3>1
  <2> QED BY <1>5, <1>9, <2>2, <2>3 DEF PushThrows
<1> QED BY <1>6, <1>7, <1>8, <1>9 DEF Push, Produce

-----------------------------------------------------------------------------
(* Theorems.                                                               *)

\* The invariant is inductive.
LEMMA StepInv == IInv /\ [Next]_vars => IInv'
<1> SUFFICES ASSUME IInv, [Next]_vars PROVE IInv'
  OBVIOUS
<1>1. CASE \E p \in Producers : Push(p)
  BY <1>1, PushStep
<1>2. CASE Loop
  BY <1>2, QuietLoopStep, FetchStep, AnsweredStep, PopStep DEF Loop
<1>3. CASE Authenticate \/ Revoke
  BY <1>3, TokenStep
<1>4. CASE Start \/ StartSilent \/ Stop \/ Exit \/ Crash
  BY <1>4, ProcessStep
<1>5. CASE UNCHANGED vars
  BY <1>5 DEF vars, loopVars, bounds, IInv, TypeOK, QueueTypeOK, queueVars, PushOK, StoredOK,
     RowsInPushOrder, HeadOK, BatchOK, Batch, AnswerOK, NoLossBeforeStop, NoOvertaking, Waiting
<1> QED BY <1>1, <1>2, <1>3, <1>4, <1>5 DEF Next

\* Every reachable state satisfies the inductive invariant.
THEOREM Invariance == Spec => []IInv
BY InitInv, StepInv, PTL DEF Spec

\* Every variable of the delivery of events stays in its type.
THEOREM TypeCorrect == Spec => []TypeOK
BY Invariance, PTL DEF IInv

\* Until the agent is told to stop, no stored element is lost, whatever the
\* network, SQLite, the token and the end of the process do.
THEOREM NothingLostBeforeStop == Spec => []NoLossBeforeStop
BY Invariance, PTL DEF IInv

\* No element overtakes an earlier one of the same producer on its way from
\* the table to the manager.
THEOREM DeliveredInOrder == Spec => []NoOvertaking
BY Invariance, PTL DEF IInv

\* The Body of a request with count elements is the first count rows of the
\* table for as long as the request is out.
THEOREM BatchStaysHead == Spec => []BatchIsHead
<1>1. IInv => BatchIsHead
  <2> SUFFICES ASSUME IInv, loop \in {"request", "sent", "answered"}, count > 0
               PROVE  body = {rows[r] : r \in FirstRows(count)}
    BY DEF BatchIsHead
  <2>1. /\ body = {rows[r] : r \in Batch}
        /\ \A q, r \in DOMAIN rows : (q < r /\ r \in Batch) => q \in Batch
        /\ Cardinality(Batch) = count
    BY DEF IInv, BatchOK
  <2>2. DOMAIN rows \subseteq Nat /\ IsFiniteSet(DOMAIN rows) /\ Batch \subseteq DOMAIN rows
    BY DEF IInv, TypeOK, QueueTypeOK, Batch
  <2>3. FirstRows(Cardinality(Batch)) = Batch
    BY <2>1, <2>2, LowestRows DEF FirstRows
  <2> QED BY <2>1, <2>3
<1> QED BY <1>1, Invariance, PTL

\* A row leaves the table only after the manager took it, or by the popN(0) that
\* follows Communicator::Stop.
THEOREM OnlyAcceptedRemoved == Spec => RemovesOnlyAccepted
<1> DEFINE Removal == \A r \in DOMAIN rows :
                        r \notin DOMAIN rows' =>
                            rows[r] \in accepted \/ (count = 0 /\ ~keepRunning)
<1>1. IInv /\ [Next]_vars => [Removal]_vars
  <2> SUFFICES ASSUME IInv, Next, NEW r \in DOMAIN rows, r \notin DOMAIN rows',
                      ~(count = 0 /\ ~keepRunning)
               PROVE  rows[r] \in accepted
    OBVIOUS
  <2>1. CASE PopMessages
    <3>1. PICK failed : rows' = Restrict(rows, DOMAIN rows \ (Select(count) \ failed))
      BY <2>1 DEF PopMessages, RemoveMultiple
    <3>2. r \in Select(count)
      BY <3>1 DEF Restrict
    <3>3. count > 0
      <4>1. loop = "answered"
        BY <2>1 DEF PopMessages
      <4>2. count \in Nat
        BY DEF IInv, TypeOK
      <4>3. keepRunning => count > 0
        BY <4>1 DEF IInv, AnswerOK
      <4>4. count # 0
        <5>1. CASE keepRunning
          BY <4>2, <4>3, <5>1
        <5>2. CASE ~keepRunning
          BY <5>2
        <5> QED BY <5>1, <5>2
      <4> QED BY <4>2, <4>4
    <3> QED BY <2>1, <3>2, <3>3, SelectIsBatch DEF PopMessages
  <2>2. CASE \E p \in Producers : Push(p)
    <3>1. rows' = rows \/ \E s : DOMAIN rows' = DOMAIN rows \union {s}
      BY <2>2 DEF Push, Produce, BeginPush, CheckSpace, StoreElement, PushThrows, Insert
    <3> QED BY <3>1
  <2>3. CASE rows' = rows
    BY <2>3
  <2>4. Next => \/ PopMessages
                \/ \E p \in Producers : Push(p)
                \/ rows' = rows
    BY DEF Next, Loop, CheckToken, CheckKeepRunning, GetMessages, SendRequest, Answered,
       ManagerTakes, RequestFails, HandleFailure, EndIteration, PopThrows, Authenticate,
       AuthBegin, TimerExpires, AuthCheck, AuthSucceeds, AuthFails, AuthGarbled, DecodeFails,
       AuthSilent, authFrame, Revoke, Start, StartSilent, loopVars, Stop, Exit, Crash,
       ProcessEnds, AbandonPushes, queueVars
  <2> QED BY <2>1, <2>2, <2>3, <2>4
<1> QED BY <1>1, Invariance, PTL DEF Spec, RemovesOnlyAccepted
=============================================================================
