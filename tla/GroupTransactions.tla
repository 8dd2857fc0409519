------------------------- MODULE GroupTransactions -------------------------
(***************************************************************************)
(* The transactions of the consumer-group methods, statement by statement, *)
(* as PostgreSQL runs them under READ COMMITTED: every statement sees what *)
(* was committed when it started plus the transaction's own writes, row    *)
(* locks are held to the end of the transaction, and a transaction that    *)
(* waits in a cycle is aborted.                                            *)
(*                                                                         *)
(* The instance is one message `First` that the groups of Acking have      *)
(* claimed, and concurrently: their AckForGroup calls, registrations of    *)
(* the groups of Joining, Enqueue calls for the messages of NewMessages,   *)
(* and clients that use no group (Legacy) and Dequeue and Ack `First` too. *)
(***************************************************************************)
EXTENDS Naturals, FiniteSets

CONSTANTS Acking, Joining, NewMessages, Legacy, First

ASSUME InstanceAssumption ==
    /\ Acking \cap Joining = {}
    /\ First \notin NewMessages

Messages == {First} \cup NewMessages
AllGroups == Acking \cup Joining

\* Rows of messages, consumer_groups, message_deliveries and message_log.
MessageRow(m) == <<"message", m>>
GroupRow(g) == <<"group", g>>
DeliveryRow(m, g) == <<"delivery", m, g>>
ClaimMark(m) == <<"claim", m>>  \* messages.status = 'processing'
LogRow(m, x) == <<"log", m, x>>

Tx == {<<"ack", g>> : g \in Acking} \cup {<<"register", g>> : g \in Joining}
      \cup {<<"enqueue", m>> : m \in NewMessages} \cup {<<"legacy", l>> : l \in Legacy}

VARIABLES
    committed,  \* the rows every new statement sees
    inserted,   \* rows each open transaction has inserted
    deleted,    \* rows each open transaction has deleted
    exclusive,  \* rows it has locked FOR UPDATE (deleted rows are locked too)
    keyshare,   \* message rows its foreign-key checks have locked
    pc          \* the next statement of each transaction

vars == <<committed, inserted, deleted, exclusive, keyshare, pc>>

Ended == {"committed", "rejected", "aborted"}

Visible(x) == (committed \cup inserted[x]) \ deleted[x]

DeliveriesOf(m, S) == {r \in S : r \in {DeliveryRow(m, g) : g \in AllGroups}}

\* The other transactions that keep x from locking row r exclusively, or in
\* share mode.
Writers(x, r) == {y \in Tx \ {x} : r \in exclusive[y] \cup deleted[y]}
Sharers(x, r) == {y \in Tx \ {x} : r \in keyshare[y]}

Init ==
    /\ committed = {MessageRow(First)} \cup {GroupRow(g) : g \in Acking}
                   \cup {DeliveryRow(First, g) : g \in Acking}
    /\ inserted = [x \in Tx |-> {}]
    /\ deleted = [x \in Tx |-> {}]
    /\ exclusive = [x \in Tx |-> {}]
    /\ keyshare = [x \in Tx |-> {}]
    /\ pc = [x \in Tx |-> "start"]

Goto(x, from, to) == pc[x] = from /\ pc' = [pc EXCEPT ![x] = to]

\* The end of a transaction releases its locks.
Release(x) ==
    /\ inserted' = [inserted EXCEPT ![x] = {}]
    /\ deleted' = [deleted EXCEPT ![x] = {}]
    /\ exclusive' = [exclusive EXCEPT ![x] = {}]
    /\ keyshare' = [keyshare EXCEPT ![x] = {}]

Commit(x) ==
    /\ Goto(x, "commit", "committed")
    /\ committed' = (committed \cup inserted[x]) \ deleted[x]
    /\ Release(x)

Rollback(x, outcome) ==
    /\ pc' = [pc EXCEPT ![x] = outcome]
    /\ Release(x)
    /\ UNCHANGED committed

-----------------------------------------------------------------------------
(* AckForGroup *)

\* Seeded fault: the early return leaves the transaction open.
AckSelectLeaks(g) ==
    LET x == <<"ack", g>>
        d == DeliveryRow(First, g)
    IN  /\ pc[x] = "start"
        /\ Writers(x, d) = {}
        /\ pc' = [pc EXCEPT ![x] = IF d \in committed THEN "delete" ELSE "open"]
        /\ exclusive' = [exclusive EXCEPT ![x] = @ \cup ({d} \cap committed)]
        /\ UNCHANGED <<committed, inserted, deleted, keyshare>>

\* SELECT ... FOR UPDATE OF md: ErrNotFound when the delivery is gone; the
\* deferred Rollback ends the transaction.
AckSelect(g) ==
    LET x == <<"ack", g>>
        d == DeliveryRow(First, g)
    IN  /\ pc[x] = "start"
        /\ Writers(x, d) = {}
        /\ IF d \in committed
           THEN /\ pc' = [pc EXCEPT ![x] = "delete"]
                /\ exclusive' = [exclusive EXCEPT ![x] = @ \cup {d}]
                /\ UNCHANGED <<committed, inserted, deleted, keyshare>>
           ELSE Rollback(x, "rejected")

\* DELETE FROM message_deliveries.
AckDelete(g) ==
    LET x == <<"ack", g>> IN
    /\ Goto(x, "delete", "count")
    /\ deleted' = [deleted EXCEPT ![x] = @ \cup {DeliveryRow(First, g)}]
    /\ UNCHANGED <<committed, inserted, exclusive, keyshare>>

\* SELECT COUNT(*): other transactions' uncommitted deletes still count, their
\* uncommitted inserts do not.  With none remaining the message is archived.
AckCount(g) ==
    LET x == <<"ack", g>> IN
    /\ pc[x] = "count"
    /\ IF DeliveriesOf(First, Visible(x)) = {}
       THEN /\ pc' = [pc EXCEPT ![x] = "message"]
            /\ inserted' = [inserted EXCEPT ![x] = @ \cup {LogRow(First, x)}]
       ELSE /\ pc' = [pc EXCEPT ![x] = "commit"]
            /\ UNCHANGED inserted
    /\ UNCHANGED <<committed, deleted, exclusive, keyshare>>

\* DELETE FROM messages takes the row lock first; it finds nothing when the row
\* has gone while it waited.
LockMessage(x, from, to) ==
    /\ Goto(x, from, to)
    /\ Writers(x, MessageRow(First)) \cup Sharers(x, MessageRow(First)) = {}
    /\ exclusive' = [exclusive EXCEPT ![x] = @ \cup ({MessageRow(First)} \cap committed)]
    /\ UNCHANGED <<committed, inserted, deleted, keyshare>>

\* ON DELETE CASCADE then deletes the deliveries committed by now, each under
\* its own row lock.
DeleteMessage(x) ==
    LET doomed == {MessageRow(First)} \cup DeliveriesOf(First, committed) IN
    /\ Goto(x, "cascade", "commit")
    /\ \A r \in doomed : Writers(x, r) = {}
    /\ deleted' = [deleted EXCEPT ![x] = @ \cup (doomed \cap committed)]
    /\ UNCHANGED <<committed, inserted, exclusive, keyshare>>

-----------------------------------------------------------------------------
(* Dequeue and Ack by a client without a group *)

\* Dequeue skips locked rows and takes pending ones; its UPDATE changes no key
\* column, so key-share locks do not hold it up.  A poll that finds the message
\* gone or claimed ends the call.
LegacyDequeue(x) ==
    /\ pc[x] = "start"
    /\ IF MessageRow(First) \in committed /\ ClaimMark(First) \notin committed
       THEN /\ Writers(x, MessageRow(First)) = {}
            /\ pc' = [pc EXCEPT ![x] = "ack"]
            /\ committed' = committed \cup {ClaimMark(First)}
            /\ UNCHANGED <<inserted, deleted, exclusive, keyshare>>
       ELSE Rollback(x, "rejected")

\* Seeded fault: the message is read without FOR UPDATE.
LegacySelectUnlocked(x) ==
    /\ Goto(x, "ack", "cascade")
    /\ MessageRow(First) \in committed
    /\ inserted' = [inserted EXCEPT ![x] = @ \cup {LogRow(First, x)}]
    /\ UNCHANGED <<committed, deleted, exclusive, keyshare>>

\* SELECT ... FOR UPDATE on the message, then the archive INSERT.
LegacySelect(x) ==
    /\ pc[x] = "ack"
    /\ Writers(x, MessageRow(First)) \cup Sharers(x, MessageRow(First)) = {}
    /\ IF MessageRow(First) \in committed
       THEN /\ pc' = [pc EXCEPT ![x] = "cascade"]
            /\ exclusive' = [exclusive EXCEPT ![x] = @ \cup {MessageRow(First)}]
            /\ inserted' = [inserted EXCEPT ![x] = @ \cup {LogRow(First, x)}]
            /\ UNCHANGED <<committed, deleted, keyshare>>
       ELSE Rollback(x, "rejected")

-----------------------------------------------------------------------------
(* RegisterConsumerGroup *)

\* INSERT INTO consumer_groups.
RegisterInsert(g) ==
    LET x == <<"register", g>> IN
    /\ Goto(x, "start", "backfill")
    /\ inserted' = [inserted EXCEPT ![x] = @ \cup {GroupRow(g)}]
    /\ UNCHANGED <<committed, deleted, exclusive, keyshare>>

Pending ==
    {m \in Messages : MessageRow(m) \in committed /\ ClaimMark(m) \notin committed}

\* INSERT ... SELECT: deliveries for the pending messages committed by now.
RegisterBackfill(g) ==
    LET x == <<"register", g>> IN
    /\ Goto(x, "backfill", "check")
    /\ inserted' = [inserted EXCEPT ![x] = @ \cup
           {DeliveryRow(m, g) : m \in Pending}]
    /\ UNCHANGED <<committed, deleted, exclusive, keyshare>>

\* The foreign-key check of the backfilled rows: a key-share lock on each
\* message, after waiting for whoever is deleting it; the message must be there.
Backfilled(x) ==
    {MessageRow(m) : m \in {n \in Messages : DeliveriesOf(n, inserted[x]) # {}}}

RegisterCheck(g) ==
    LET x == <<"register", g>> IN
    /\ pc[x] = "check"
    /\ \A r \in Backfilled(x) : Writers(x, r) = {}
    /\ IF Backfilled(x) \subseteq committed
       THEN /\ pc' = [pc EXCEPT ![x] = "commit"]
            /\ keyshare' = [keyshare EXCEPT ![x] = @ \cup Backfilled(x)]
            /\ UNCHANGED <<committed, inserted, deleted, exclusive>>
       ELSE Rollback(x, "aborted")

-----------------------------------------------------------------------------
(* Enqueue *)

\* INSERT INTO messages.
EnqueueInsert(m) ==
    LET x == <<"enqueue", m>> IN
    /\ Goto(x, "start", "trigger")
    /\ inserted' = [inserted EXCEPT ![x] = @ \cup {MessageRow(m)}]
    /\ UNCHANGED <<committed, deleted, exclusive, keyshare>>

\* fn_mint_deliveries: a delivery for every group committed by now.
EnqueueTrigger(m) ==
    LET x == <<"enqueue", m>> IN
    /\ Goto(x, "trigger", "commit")
    /\ inserted' = [inserted EXCEPT ![x] = @ \cup
           {DeliveryRow(m, g) : g \in {h \in AllGroups : GroupRow(h) \in committed}}]
    /\ UNCHANGED <<committed, deleted, exclusive, keyshare>>

-----------------------------------------------------------------------------
(* Deadlock detection *)

\* The transactions x is waiting for.
BlockedBy(x) ==
    CASE pc[x] = "start" /\ x[1] = "ack" -> Writers(x, DeliveryRow(First, x[2]))
      [] pc[x] \in {"message", "ack"} ->
             Writers(x, MessageRow(First)) \cup Sharers(x, MessageRow(First))
      [] pc[x] = "cascade" ->
             UNION {Writers(x, r) : r \in DeliveriesOf(First, committed)}
      [] pc[x] = "check" -> UNION {Writers(x, r) : r \in Backfilled(x)}
      [] OTHER -> {}

\* PostgreSQL aborts one transaction of a cycle.
DeadlockAbort(x) ==
    /\ \E y \in BlockedBy(x) : x \in BlockedBy(y)
    /\ Rollback(x, "aborted")

-----------------------------------------------------------------------------
Step(x) ==
    \/ x[1] = "ack" /\ (AckSelect(x[2]) \/ AckDelete(x[2]) \/ AckCount(x[2])
                        \/ LockMessage(x, "message", "cascade"))
    \/ x[1] = "legacy" /\ (LegacyDequeue(x) \/ LegacySelect(x))
    \/ x[1] = "register" /\ (RegisterInsert(x[2]) \/ RegisterBackfill(x[2])
                             \/ RegisterCheck(x[2]))
    \/ x[1] = "enqueue" /\ (EnqueueInsert(x[2]) \/ EnqueueTrigger(x[2]))
    \/ DeleteMessage(x)
    \/ Commit(x)
    \/ DeadlockAbort(x)

AllEnded == \A x \in Tx : pc[x] \in Ended

Next == \E x \in Tx : Step(x)

\* Every call is carried to its end: PostgreSQL and the service keep running.
Spec == Init /\ [][Next]_vars /\ \A x \in Tx : WF_vars(Step(x))

-----------------------------------------------------------------------------
(* Properties *)

\* A message is archived at most once, and only if it is deleted with it: no
\* pair of last acks, by groups or by a client without one, both archive it.
ArchivedOnce ==
    /\ Cardinality({x \in Tx : LogRow(First, x) \in committed}) <= 1
    /\ \A x \in Tx : LogRow(First, x) \in committed => MessageRow(First) \notin committed

\* Every call ends its transaction, on every return path, although AckForGroup
\* and Ack take the delivery's and the message's locks in opposite orders.
TransactionsEnd == <>[]AllEnded

\* Once every group that had the message has acknowledged it, it is deleted.
\* (Not met: see README, Variations.)
DeletedAfterFinalAck ==
    /\ AllEnded
    /\ \A g \in Acking : pc[<<"ack", g>>] = "committed"
    /\ DeliveriesOf(First, committed) = {}
    => MessageRow(First) \notin committed

\* A registered group has a delivery for every message that was enqueued before
\* or after it, unless it has acknowledged it.  (Not met: see README, Variations.)
RegisteredGetsAll ==
    AllEnded =>
        \A g \in Joining, m \in NewMessages :
            /\ GroupRow(g) \in committed
            /\ MessageRow(m) \in committed
            => DeliveryRow(m, g) \in committed

=============================================================================
