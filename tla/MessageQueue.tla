----------------------------- MODULE MessageQueue -----------------------------
(***************************************************************************)
(* One table of the agent's persistent message queue: class MultiTypeQueue *)
(* (multitype_queue.cpp) on top of class Storage (storage.cpp) and         *)
(* SQLiteManager (sqlite_manager.cpp).  The three tables (STATELESS,       *)
(* STATEFUL, COMMAND) share no row, so one table is modelled.              *)
(*                                                                         *)
(* Store and RemoveMultiple hold m_mutex and a transaction; the reads hold *)
(* neither, but are a single SELECT under the mutex of SQLiteManager.  So  *)
(* each of them is one step.  MultiTypeQueue::push is several: it reads    *)
(* the number of rows, and later stores the elements of the message one    *)
(* Storage::Store at a time.  Left out, because no caller outside the      *)
(* tests uses them: push with shouldWait, and an element of a pushed array *)
(* that is itself an array, for which Store would insert several rows.     *)
(***************************************************************************)
EXTENDS Integers, Sequences, FiniteSets, Functions

CONSTANTS
    Producers,    \* threads that push: module threads, coroutines that report
    MaxItems,     \* agent.queue_size, MultiTypeQueue::m_maxItems
    MaxArray,     \* bound: elements in the data array of one pushed message
    MaxPushed,    \* bound: elements pushed by one producer
    BatchSize,    \* events.batch_size
    SQLiteErrors, \* whether SQLite operations may throw
    SizeOf        \* SizeOf[m]: the length of the text stored for element m

Message == Producers \X (1..MaxPushed)   \* <<p, i>>: i-th element p pushes

ASSUME QueueConstants ==
    /\ IsFiniteSet(Producers)
    /\ MaxItems \in Nat \ {0}
    /\ MaxArray \in Nat \ {0}
    /\ MaxPushed \in Nat
    /\ BatchSize \in Nat \ {0}
    /\ SQLiteErrors \in BOOLEAN
    /\ SizeOf \in [Message -> Nat \ {0}]

VARIABLES
    rows,     \* the table: rowid |-> element
    pc,       \* where each producer is in MultiTypeQueue::push
    next,     \* number of the next element each producer pushes
    left,     \* elements of the current push that are not yet handled
    stored    \* history: every element a Store has committed

queueVars == <<rows, pc, next, left, stored>>

QueueTypeOK ==
    /\ DOMAIN rows \subseteq Nat \ {0}
    /\ IsFiniteSet(DOMAIN rows)
    /\ rows \in [DOMAIN rows -> Message]
    /\ pc \in [Producers -> {"idle", "count", "store"}]
    /\ next \in [Producers -> 1..(MaxPushed + 1)]
    /\ left \in [Producers -> 0..MaxArray]
    /\ stored \subseteq Message

QueueInit ==
    /\ rows = [r \in {} |-> <<>>]
    /\ pc = [p \in Producers |-> "idle"]
    /\ next = [p \in Producers |-> 1]
    /\ left = [p \in Producers |-> 0]
    /\ stored = {}

-----------------------------------------------------------------------------
(* Producers: MultiTypeQueue::push and Storage::Store.                     *)

\* push(message) is called with k elements: one JSON value, or an array of k.
BeginPush(p, k) ==
    /\ pc[p] = "idle"
    /\ next[p] + k <= MaxPushed + 1
    /\ pc' = [pc EXCEPT ![p] = "count"]
    /\ left' = [left EXCEPT ![p] = k]
    /\ UNCHANGED <<rows, next, stored>>

\* Storage::GetElementCount: the number of rows, or 0 when the query throws.
ElementCounts == {Cardinality(DOMAIN rows)} \union (IF SQLiteErrors THEN {0} ELSE {})

\* Mutant of CheckSpace: the size of the array is not compared.
CheckSpaceForOne(p, storedMessages) ==
    /\ pc[p] = "count"
    /\ IF storedMessages < MaxItems
       THEN /\ pc' = [pc EXCEPT ![p] = "store"]
            /\ UNCHANGED <<next, left>>
       ELSE /\ pc' = [pc EXCEPT ![p] = "idle"]
            /\ next' = [next EXCEPT ![p] = @ + left[p]]
            /\ left' = [left EXCEPT ![p] = 0]
    /\ UNCHANGED <<rows, stored>>

\* The number of rows is read.  All the elements fit in what is left, or the
\* whole message is dropped and push returns 0.  Inventory::PushMessage logs
\* that, the other callers do not look; none pushes the message again.
CheckSpace(p, storedMessages) ==
    /\ pc[p] = "count"
    /\ IF storedMessages + left[p] <= MaxItems
       THEN /\ pc' = [pc EXCEPT ![p] = "store"]
            /\ UNCHANGED <<next, left>>
       ELSE /\ pc' = [pc EXCEPT ![p] = "idle"]
            /\ next' = [next EXCEPT ![p] = @ + left[p]]
            /\ left' = [left EXCEPT ![p] = 0]
    /\ UNCHANGED <<rows, stored>>

\* Mutant of IsNewRowid: the first gap left by a deletion is used.
IsFirstGap(r) ==
    /\ r \notin DOMAIN rows
    /\ \A q \in 1..(r - 1) : q \in DOMAIN rows

\* SQLite gives a new row the largest rowid of the table plus one.
IsNewRowid(r) ==
    /\ \A q \in DOMAIN rows : q < r
    /\ r = 1 \/ r - 1 \in DOMAIN rows

\* One Storage::Store commits element m in the next row.
Insert(m) ==
    /\ \E r \in 1..Cardinality(Message) :
          /\ IsNewRowid(r)
          /\ rows' = [q \in DOMAIN rows \union {r} |-> IF q = r THEN m ELSE rows[q]]
    /\ stored' = stored \union {m}

\* Mutant of StoreElement: it loops once more after the last element.
StoreElementOnceMore(p) ==
    /\ pc[p] = "store"
    /\ Insert(<<p, next[p]>>)
    /\ next' = [next EXCEPT ![p] = @ + 1]
    /\ left' = [left EXCEPT ![p] = @ - 1]
    /\ pc' = [pc EXCEPT ![p] = IF left[p] = 0 THEN "idle" ELSE "store"]

\* The next element of the push is stored in one row, or an SQLite error is
\* logged and the element skipped.
StoreElement(p) ==
    /\ pc[p] = "store"
    /\ \/ Insert(<<p, next[p]>>)
       \/ SQLiteErrors /\ UNCHANGED <<rows, stored>>
    /\ next' = [next EXCEPT ![p] = @ + 1]
    /\ left' = [left EXCEPT ![p] = @ - 1]
    /\ pc' = [pc EXCEPT ![p] = IF left[p] = 1 THEN "idle" ELSE "store"]

\* BeginTransaction or CommitTransaction throws: the exception leaves push.
PushThrows(p) ==
    /\ SQLiteErrors
    /\ pc[p] = "store"
    /\ pc' = [pc EXCEPT ![p] = "idle"]
    /\ next' = [next EXCEPT ![p] = @ + left[p]]
    /\ left' = [left EXCEPT ![p] = 0]
    /\ UNCHANGED <<rows, stored>>

Produce(p) ==
    \/ \E k \in 1..MaxArray : BeginPush(p, k)
    \/ \E n \in ElementCounts : CheckSpace(p, n)
    \/ StoreElement(p)
    \/ PushThrows(p)

\* The process ends: what was being pushed and is not in a row is gone.
AbandonPushes ==
    /\ next' = [p \in Producers |-> next[p] + left[p]]
    /\ left' = [p \in Producers |-> 0]
    /\ pc' = [p \in Producers |-> "idle"]
    /\ UNCHANGED <<rows, stored>>

-----------------------------------------------------------------------------
(* Readers and removals.                                                   *)

\* Stored length of the rows in S.
Bytes(S) == SumFunctionOnSet([r \in DOMAIN rows |-> SizeOf[rows[r]]], S)

\* Mutant of RetrieveBySize: ORDER BY rowid DESC.
RetrieveNewestBySize ==
    {r \in DOMAIN rows : \A s \in DOMAIN rows :
        s >= r => Bytes({q \in DOMAIN rows : q > s}) < BatchSize}

\* Storage::RetrieveBySize(BatchSize): ProcessRequest adds rows in rowid order
\* until the accumulated length reaches the limit, the last row included.
RetrieveBySize ==
    {r \in DOMAIN rows : \A s \in DOMAIN rows :
        s <= r => Bytes({q \in DOMAIN rows : q < s}) < BatchSize}

\* Mutant of FirstRows: LIMIT is off by one.
FirstRowsAndOne(n) ==
    {r \in DOMAIN rows : Cardinality({q \in DOMAIN rows : q <= r}) <= n + 1}

\* The first n rows in rowid order.
FirstRows(n) ==
    {r \in DOMAIN rows : Cardinality({q \in DOMAIN rows : q <= r}) <= n}

\* SELECT rowid ... ORDER BY rowid ASC LIMIT n, where SQLiteManager::Select
\* writes the LIMIT clause only for n > 0.
Select(n) == IF n > 0 THEN FirstRows(n) ELSE DOMAIN rows

\* Storage::RemoveMultiple(n).  The deletion of a row that fails is logged and
\* the row stays; failed = Select(n) also stands for a SELECT that throws.
RemoveMultiple(n, failed) ==
    /\ failed \subseteq Select(n)
    /\ failed # {} => SQLiteErrors
    /\ rows' = Restrict(rows, DOMAIN rows \ (Select(n) \ failed))

-----------------------------------------------------------------------------
(* The queue by itself, under any reader: pop is popN(1).                  *)

PopN(n) ==
    /\ \E failed \in SUBSET Select(n) : RemoveMultiple(n, failed)
    /\ UNCHANGED <<pc, next, left, stored>>

QueueNext ==
    \/ \E p \in Producers : Produce(p)
    \/ \E n \in 1..MaxItems : PopN(n)

QueueSpec == QueueInit /\ [][QueueNext]_queueVars

\* push checks the free space and stores later, in several steps, so the queue
\* may exceed queue_size; by no more than the other producers may have been
\* granted before the last check.
BoundedOvershoot ==
    ~SQLiteErrors =>
        Cardinality(DOMAIN rows) <= MaxItems + (Cardinality(Producers) - 1) * MaxArray

\* However pushes and removals interleave, rowids are reused and deletions
\* fail, the rows of one producer are in the order it pushed them.
RowsInPushOrder ==
    \A q, r \in DOMAIN rows :
        (q < r /\ rows[q][1] = rows[r][1]) => rows[q][2] < rows[r][2]
=============================================================================
