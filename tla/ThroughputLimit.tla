-------------------------- MODULE ThroughputLimit --------------------------
(***************************************************************************)
(* The throughput limit of a topic: a token bucket in table                *)
(* topic_throughput, refilled and drawn from inside the transactions of    *)
(* Dequeue and DequeueN.                                                   *)
(*                                                                         *)
(* Time advances in ticks.  The bucket is measured in time as well: with a *)
(* limit of Limit messages per second a message costs Cost ticks of        *)
(* credit, a second has Limit * Cost ticks, and the refill of an interval  *)
(* is its length.  now() is the start of the transaction, not the moment   *)
(* the statement runs, and the bucket of a topic is locked by an advisory  *)
(* lock that transactions get in any order.                                *)
(***************************************************************************)
EXTENDS Integers

CONSTANTS
    Callers,    \* concurrent Dequeue transactions
    Limit,      \* throughput_limit, messages per second
    Cost,       \* ticks of credit per message
    MaxWant,    \* bound on the batch a caller asks for
    MaxTime,    \* bound on the clock
    MaxDeletes, \* bound on DELETE /api/topics/:topic/config
    Null

ASSUME ThrottleConstants ==
    /\ Limit \in Nat \ {0} /\ Cost \in Nat \ {0} /\ MaxWant \in Nat \ {0}
    /\ MaxTime \in Nat /\ MaxDeletes \in Nat
    /\ Null \notin Callers

Second == Limit * Cost

VARIABLES
    clock,
    limited,    \* the topic_config row has a limit that is not 0
    deleting,   \* a deletion of the row is about to delete the bucket
    deletes,    \* deletions so far (history)
    credit,     \* tokens of the bucket
    last,       \* last_refill of the bucket
    exists,     \* the bucket has a row
    holder,     \* the transaction that has the advisory lock
    tx,         \* progress of each caller
    spent,      \* credit drawn by committed transactions (history)
    allowance,  \* credit given away by starting buckets afresh (history)
    lastUse     \* when the bucket was last refilled, by the clock (history)

bucket == <<credit, last, exists>>
vars == <<clock, limited, deleting, deletes, bucket, holder, tx, spent, allowance, lastUse>>

Idle == [step |-> "idle"]

Init ==
    /\ clock = 0
    /\ limited = TRUE
    /\ deleting = FALSE
    /\ deletes = 0
    /\ credit = 0 /\ last = 0 /\ exists = FALSE
    /\ holder = Null
    /\ tx = [c \in Callers |-> Idle]
    /\ spent = 0
    /\ allowance = 0
    /\ lastUse = 0

-----------------------------------------------------------------------------
(* Dequeue *)

\* BEGIN fixes now() for the whole transaction.
Begin(c, want) ==
    /\ tx[c] = Idle
    /\ tx' = [tx EXCEPT ![c] = [step |-> "limit", start |-> clock, want |-> want]]
    /\ UNCHANGED <<clock, limited, deleting, deletes, bucket, holder, spent, allowance, lastUse>>

\* applyThroughputLimit reads the limit from the row; without one the caller
\* gets what it wants and leaves the bucket alone.
ReadLimit(c) ==
    /\ tx[c].step = "limit"
    /\ tx' = [tx EXCEPT ![c] = IF limited THEN [@ EXCEPT !.step = "lock"] ELSE Idle]
    /\ UNCHANGED <<clock, limited, deleting, deletes, bucket, holder, spent, allowance, lastUse>>

\* The upsert: a new bucket is full, an old one gains the time since its last
\* refill, which may be negative, up to a second's worth.
Refilled(start) ==
    IF ~exists \/ credit + (start - last) > Second THEN Second ELSE credit + (start - last)

\* Seeded fault: the part of a message that is left counts as one.
RoundedUp(k, want, available) ==
    /\ k \in 0..want
    /\ k > 0 => (k - 1) * Cost < available
    /\ k < want => k * Cost >= available

\* allowed = min(requested, int(available)), and 0 if that is negative.
Allowed(k, want, available) ==
    /\ k \in 0..want
    /\ k > 0 => k * Cost <= available
    /\ k < want => (k + 1) * Cost > available

\* Seeded fault: last_refill keeps the later of the two times.
NeverBack(start) == IF start < last THEN last ELSE start

\* last_refill = now()
RefillTime(start) == start

\* consumeTokens, under the advisory lock until the transaction ends.
ConsumeTokens(c, k) ==
    LET start == tx[c].start
    IN  /\ tx[c].step = "lock"
        /\ holder = Null
        /\ Allowed(k, tx[c].want, Refilled(start))
        /\ holder' = c
        /\ tx' = [tx EXCEPT ![c] =
                     [step |-> "claim", start |-> start, want |-> tx[c].want, allowed |-> k,
                      rested |-> start >= lastUse + Second,
                      was |-> [credit |-> credit, last |-> last, exists |-> exists,
                               allowance |-> allowance]]]
        /\ credit' = Refilled(start) - k * Cost
        /\ last' = RefillTime(start)
        /\ exists' = TRUE
        /\ allowance' = IF exists THEN allowance ELSE allowance + Second + (clock - start)
        /\ lastUse' = clock
        /\ UNCHANGED <<clock, limited, deleting, deletes, spent>>

\* The claims and COMMIT.  The tokens are gone even if the queue was empty.
Commit(c) ==
    /\ tx[c].step = "claim"
    /\ spent' = spent + tx[c].allowed * Cost
    /\ tx' = [tx EXCEPT ![c] = Idle]
    /\ holder' = Null
    /\ UNCHANGED <<clock, limited, deleting, deletes, bucket, allowance, lastUse>>

\* A failing claim or a cancelled request: the bucket is as it was.
Rollback(c) ==
    /\ tx[c].step = "claim"
    /\ credit' = tx[c].was.credit
    /\ last' = tx[c].was.last
    /\ exists' = tx[c].was.exists
    /\ allowance' = tx[c].was.allowance
    /\ tx' = [tx EXCEPT ![c] = Idle]
    /\ holder' = Null
    /\ UNCHANGED <<clock, limited, deleting, deletes, spent, lastUse>>

-----------------------------------------------------------------------------
(* The administrator and the clock *)

\* PUT with or without a limit: the bucket stays.
SetLimit ==
    /\ ~deleting
    /\ limited' = ~limited
    /\ UNCHANGED <<clock, deleting, deletes, bucket, holder, tx, spent, allowance, lastUse>>

\* DELETE FROM topic_config
DeleteConfig ==
    /\ ~deleting
    /\ deletes < MaxDeletes
    /\ deleting' = TRUE
    /\ deletes' = deletes + 1
    /\ limited' = FALSE
    /\ UNCHANGED <<clock, bucket, holder, tx, spent, allowance, lastUse>>

\* DELETE FROM topic_throughput waits for a transaction that has changed the row
\* and does not see one that a transaction has just inserted.
DeleteBucket ==
    /\ deleting
    /\ deleting' = FALSE
    /\ \/ holder = Null /\ exists' = FALSE
       \/ holder # Null /\ ~tx[holder].was.exists /\ exists' = exists
    /\ UNCHANGED <<clock, limited, deletes, credit, last, holder, tx, spent, allowance, lastUse>>

Tick ==
    /\ clock < MaxTime
    /\ clock' = clock + 1
    /\ UNCHANGED <<limited, deleting, deletes, bucket, holder, tx, spent, allowance, lastUse>>

Next ==
    \/ \E c \in Callers :
          \/ \E want \in 1..MaxWant : Begin(c, want)
          \/ ReadLimit(c)
          \/ \E k \in 0..MaxWant : ConsumeTokens(c, k)
          \/ Commit(c) \/ Rollback(c)
    \/ SetLimit \/ DeleteConfig \/ DeleteBucket \/ Tick

Spec == Init /\ [][Next]_vars

-----------------------------------------------------------------------------
(* Properties *)

Limited == [step : {"limit", "lock"}, start : Nat, want : 1..MaxWant]
Claiming ==
    [step : {"claim"}, start : Nat, want : 1..MaxWant, allowed : 0..MaxWant, rested : BOOLEAN,
     was : [credit : Int, last : Nat, exists : BOOLEAN, allowance : Nat]]

\* The bucket never holds more than a second's worth of messages, whatever the
\* order in which transactions of different ages refill it.
ThrottleTypeOK ==
    /\ clock \in Nat
    /\ limited \in BOOLEAN /\ deleting \in BOOLEAN /\ exists \in BOOLEAN
    /\ deletes \in Nat
    /\ credit \in Int /\ credit <= Second
    /\ last \in Nat /\ last <= clock
    /\ lastUse \in Nat /\ lastUse <= clock
    /\ holder \in Callers \cup {Null}
    /\ tx \in [Callers -> {Idle} \cup Limited \cup Claiming]
    /\ spent \in Nat /\ allowance \in Nat

\* All messages dispensed since the start cost no more than the time that has
\* passed and a second for each bucket started afresh (plus the age of the
\* transaction that started it): refilling with a now() that lies in the past,
\* and moving last_refill back with it, creates no credit.
RateBound == spent <= clock + allowance

\* A transaction that begins a second after the bucket was last touched gets
\* the full limit: a refill with negative elapsed time leaves no lasting debt.
FullAfterRest ==
    \A c \in Callers :
        tx[c].step = "claim" /\ tx[c].rested =>
            tx[c].allowed = IF tx[c].want <= Limit THEN tx[c].want ELSE Limit

=============================================================================
