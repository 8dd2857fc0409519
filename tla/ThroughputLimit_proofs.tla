----------------------- MODULE ThroughputLimit_proofs -----------------------
(***************************************************************************)
(* The token bucket never dispenses more than time has earned, and never   *)
(* owes more than a second of rest repays, for any limit, any number of    *)
(* transactions and any order in which they take the lock.                 *)
(*                                                                         *)
(* The argument is a balance.  A refill adds the time between two starts   *)
(* of transactions, so what has been drawn, is being drawn and is left in  *)
(* the bucket never exceeds last_refill and the allowance.  A start that   *)
(* lies before the last refill lowers both sides, and the debt it leaves,  *)
(* last - credit, never passes the time of the last use.                   *)
(***************************************************************************)
EXTENDS ThroughputLimit, TLAPS

\* The transaction with the lock is the one that has drawn and not committed.
LockInv ==
    \A c \in Callers : (tx[c].step = "claim") <=> (holder = c)

\* No transaction began in the future, nor did any that touched the bucket.
StartInv ==
    \A c \in Callers :
        /\ tx[c] # Idle => tx[c].start <= clock
        /\ tx[c].step = "claim" => tx[c].was.last <= clock /\ tx[c].was.credit <= Second

\* The tokens drawn by the transaction that has the lock.
Drawn == IF holder = Null THEN 0 ELSE tx[holder].allowed * Cost

\* A bucket that is balanced after s ticks of credit have been drawn from it.
Balanced(b, s) ==
    IF b.exists THEN s + b.credit <= b.last + b.allowance /\ b.last - b.credit <= lastUse
                ELSE s <= clock + b.allowance

Bucket == [credit |-> credit, last |-> last, exists |-> exists, allowance |-> allowance]

\* The bucket is balanced, and so is the one a rollback would restore.
BalanceInv ==
    /\ Balanced(Bucket, spent + Drawn)
    /\ \A c \in Callers : tx[c].step = "claim" => Balanced(tx[c].was, spent)

ThrottleInv ==
    ThrottleTypeOK /\ LockInv /\ StartInv /\ BalanceInv /\ FullAfterRest

\* A product of natural numbers is one, and grows with its factors: what k
\* messages cost can be compared by comparing k.
LEMMA CostOrder ==
    ASSUME NEW a \in Nat, NEW b \in Nat
    PROVE  /\ a * Cost \in Nat
           /\ a * Cost <= b * Cost => a <= b
           /\ (a + 1) * Cost > b * Cost => b <= a
<1>1. Cost \in Nat /\ Cost > 0
  BY ThrottleConstants
<1>2. a * Cost \in Nat /\ b * Cost \in Nat
  BY <1>1
<1>3. ASSUME a > b PROVE a * Cost > b * Cost
  <2>1. a - b - 1 \in Nat /\ (a - b - 1) * Cost >= 0
    BY <1>1, <1>3
  <2>2. a * Cost = b * Cost + (a - b - 1) * Cost + Cost
    BY <1>1, <2>1
  <2> QED
    BY <1>1, <1>2, <2>1, <2>2
<1>4. ASSUME b > a PROVE (a + 1) * Cost <= b * Cost
  <2>1. b - a - 1 \in Nat /\ (b - a - 1) * Cost >= 0
    BY <1>1, <1>4
  <2>2. b * Cost = (a + 1) * Cost + (b - a - 1) * Cost
    BY <1>1, <2>1
  <2>3. (a + 1) * Cost \in Nat
    BY <1>1
  <2> QED
    BY <1>1, <1>2, <2>1, <2>2, <2>3
<1> QED
  BY <1>1, <1>2, <1>3, <1>4

\* Second is a positive number of ticks.
LEMMA SecondType == Second \in Nat
BY ThrottleConstants DEF Second

\* The empty table is balanced.
LEMMA ThrottleInit == Init => ThrottleInv
<1> SUFFICES ASSUME Init PROVE ThrottleInv
  OBVIOUS
<1>1. ThrottleTypeOK
  <2>1. tx \in [Callers -> {Idle} \cup Limited \cup Claiming]
    BY DEF Init
  <2>2. limited \in BOOLEAN /\ deleting \in BOOLEAN /\ exists \in BOOLEAN
    BY Zenon DEF Init
  <2>3. credit <= Second /\ last <= clock /\ lastUse <= clock
    BY SecondType DEF Init
  <2>4. /\ clock \in Nat /\ deletes \in Nat /\ credit \in Int /\ last \in Nat
        /\ lastUse \in Nat /\ spent \in Nat /\ allowance \in Nat
        /\ holder \in Callers \cup {Null}
    BY DEF Init
  <2> QED
    BY <2>1, <2>2, <2>3, <2>4 DEF ThrottleTypeOK
<1>2. LockInv /\ StartInv /\ FullAfterRest
  BY ThrottleConstants DEF Init, LockInv, StartInv, FullAfterRest, Idle
<1>3. BalanceInv
  BY DEF Init, BalanceInv, Balanced, Bucket, Drawn, Idle
<1> QED
  BY <1>1, <1>2, <1>3 DEF ThrottleInv

\* What a refill does: it never fills beyond a second's worth, adds at most the
\* time since the last start, and leaves no debt older than the last one.
LEMMA RefillBound ==
    ASSUME ThrottleInv, NEW start \in Nat
    PROVE  /\ Refilled(start) \in Int
           /\ Refilled(start) <= Second
           /\ exists => Refilled(start) <= credit + (start - last)
           /\ exists /\ start >= lastUse + Second => Refilled(start) = Second
           /\ ~exists => Refilled(start) = Second
           /\ exists /\ Refilled(start) # Second => Refilled(start) = credit + (start - last)
BY SecondType DEF ThrottleInv, ThrottleTypeOK, BalanceInv, Balanced, Bucket, Refilled, Drawn


\* Where a caller that has begun stands.
LEMMA CallerShape ==
    ASSUME ThrottleInv, NEW c \in Callers
    PROVE  /\ tx[c].step \in {"limit", "lock"} => tx[c] \in Limited
           /\ tx[c].step = "claim" => tx[c] \in Claiming
           /\ tx[c] = Idle => tx[c].step = "idle"
BY DEF ThrottleInv, ThrottleTypeOK, Limited, Claiming, Idle

\* BEGIN and the read of the limit: the bucket is not touched.
LEMMA BeginKeeps ==
    ASSUME ThrottleInv, NEW c \in Callers,
           (\E want \in 1..MaxWant : Begin(c, want)) \/ ReadLimit(c)
    PROVE  ThrottleInv'
<1>1. tx' \in [Callers -> {Idle} \cup Limited \cup Claiming]
  BY CallerShape DEF ThrottleInv, ThrottleTypeOK, Begin, ReadLimit, Limited, Idle
<1>2. ThrottleTypeOK'
  BY <1>1 DEF ThrottleInv, ThrottleTypeOK, Begin, ReadLimit, bucket
<1>3. \A d \in Callers : d # c => tx'[d] = tx[d]
  BY DEF ThrottleInv, ThrottleTypeOK, Begin, ReadLimit
<1>4. tx[c].step # "claim" /\ tx'[c].step # "claim" /\ (tx'[c] # Idle => tx'[c].start <= clock)
  BY CallerShape DEF ThrottleInv, ThrottleTypeOK, StartInv, Begin, ReadLimit, Limited, Idle
<1>5. LockInv' /\ StartInv' /\ FullAfterRest'
  BY <1>3, <1>4 DEF ThrottleInv, LockInv, StartInv, FullAfterRest, Begin, ReadLimit
<1>6. Bucket' = Bucket /\ Drawn' = Drawn
  BY <1>3, <1>4 DEF ThrottleInv, ThrottleTypeOK, LockInv, Bucket, Drawn, Begin, ReadLimit, bucket
<1>7. BalanceInv'
  BY <1>3, <1>4, <1>6 DEF ThrottleInv, BalanceInv, Balanced, Begin, ReadLimit
<1> QED
  BY <1>2, <1>5, <1>7 DEF ThrottleInv

\* consumeTokens: the draw moves credit from the bucket to the transaction.
LEMMA ConsumeKeeps ==
    ASSUME ThrottleInv, NEW c \in Callers, NEW k \in 0..MaxWant, ConsumeTokens(c, k)
    PROVE  ThrottleInv'
<1> DEFINE start == tx[c].start
<1> DEFINE was == [credit |-> credit, last |-> last, exists |-> exists, allowance |-> allowance]
<1>1. /\ tx[c] \in Limited /\ holder = Null /\ holder' = c
      /\ start \in Nat /\ start <= clock /\ tx[c].want \in 1..MaxWant
      /\ k \in 0..tx[c].want
  BY CallerShape
     DEF ThrottleInv, StartInv, ConsumeTokens, Allowed, Limited, Idle
<1>2. /\ k * Cost \in Nat
      /\ k > 0 => k * Cost <= Refilled(start)
      /\ k < tx[c].want => (k + 1) * Cost > Refilled(start)
  BY <1>1, CostOrder DEF ConsumeTokens, Allowed
<1>3. /\ credit' = Refilled(start) - k * Cost
      /\ last' = start /\ exists' = TRUE /\ lastUse' = clock
      /\ allowance' = IF exists THEN allowance ELSE allowance + Second + (clock - start)
      /\ UNCHANGED <<clock, limited, deleting, deletes, spent>>
  BY DEF ConsumeTokens, RefillTime
<1>4. /\ tx'[c].step = "claim" /\ tx'[c].start = start /\ tx'[c].want = tx[c].want
      /\ tx'[c].allowed = k /\ tx'[c].was = Bucket
      /\ tx'[c].rested = (start >= lastUse + Second)
      /\ tx'[c] \in Claiming
      /\ \A d \in Callers : d # c => tx'[d] = tx[d]
  <2> USE <1>1 DEF ThrottleInv, ThrottleTypeOK
  <2>1. tx' = [tx EXCEPT ![c] =
                     [step |-> "claim", start |-> start, want |-> tx[c].want, allowed |-> k,
                      rested |-> start >= lastUse + Second, was |-> Bucket]]
    BY DEF ConsumeTokens, Bucket
  <2>2. Bucket \in [credit : Int, last : Nat, exists : BOOLEAN, allowance : Nat]
    BY DEF Bucket
  <2> QED
    BY <2>1, <2>2, SecondType DEF Claiming
<1>5. ThrottleTypeOK'
  <2>1. tx' \in [Callers -> {Idle} \cup Limited \cup Claiming]
    BY <1>4 DEF ThrottleInv, ThrottleTypeOK, ConsumeTokens
  <2> QED
    BY <1>1, <1>2, <1>3, <2>1, SecondType, RefillBound DEF ThrottleInv, ThrottleTypeOK
<1>6. LockInv' /\ StartInv'
  <2>1. ASSUME NEW d \in Callers PROVE (tx'[d].step = "claim") <=> (holder' = d)
    BY <1>1, <1>4, ThrottleConstants DEF ThrottleInv, LockInv
  <2>2. ASSUME NEW d \in Callers, tx'[d] # Idle PROVE tx'[d].start <= clock'
    BY <1>1, <1>3, <1>4, <2>2 DEF ThrottleInv, StartInv
  <2>3. tx'[c].was.last <= clock' /\ tx'[c].was.credit <= Second
    BY <1>3, <1>4 DEF ThrottleInv, ThrottleTypeOK, Bucket
  <2> QED
    BY <1>3, <1>4, <2>1, <2>2, <2>3 DEF ThrottleInv, LockInv, StartInv
<1>7. FullAfterRest'
  <2>1. ASSUME start >= lastUse + Second
        PROVE  k = IF tx[c].want <= Limit THEN tx[c].want ELSE Limit
    <3>1. Refilled(start) = Second
      BY <1>1, <2>1, RefillBound DEF ThrottleInv, ThrottleTypeOK
    <3>2. k > 0 => k <= Limit
      BY <1>1, <1>2, <3>1, CostOrder, ThrottleConstants DEF Second
    <3>3. k < tx[c].want => Limit <= k
      BY <1>1, <1>2, <3>1, CostOrder, ThrottleConstants DEF Second
    <3> QED
      BY <1>1, <3>2, <3>3, ThrottleConstants
  <2> QED
    BY <1>4, <2>1 DEF ThrottleInv, FullAfterRest
<1>8. BalanceInv'
  <2>1. Drawn = 0 /\ Drawn' = k * Cost
    BY <1>1, <1>4, ThrottleConstants DEF Drawn
  <2>2. /\ exists => spent + credit <= last + allowance /\ last - credit <= lastUse
        /\ ~exists => spent <= clock + allowance
        /\ spent \in Nat /\ credit \in Int /\ last \in Nat /\ allowance \in Nat
        /\ clock \in Nat /\ lastUse \in Nat /\ lastUse <= clock
    BY <2>1 DEF ThrottleInv, ThrottleTypeOK, BalanceInv, Balanced, Bucket
  <2>3. /\ spent + k * Cost + credit' <= last' + allowance'
        /\ last' - credit' <= lastUse'
    <3> DEFINE full == Refilled(start)
               drawn == k * Cost
    <3>1. /\ full \in Int /\ full <= Second
          /\ exists => full <= credit + (start - last)
          /\ ~exists => full = Second
          /\ exists /\ full # Second => full = credit + (start - last)
      BY <1>1, RefillBound
    <3>2. drawn \in Nat /\ (drawn # 0 => drawn <= full)
      <4>1. k = 0 => drawn = 0
        BY ThrottleConstants
      <4> QED
        BY <1>2, <4>1
    <3>3. start \in Nat /\ start <= clock /\ credit' = full - drawn
      BY <1>1, <1>3
    <3> HIDE DEF start, full, drawn
    <3>4. spent + drawn + credit' <= last' + allowance'
      BY <1>3, <2>2, <3>1, <3>2, <3>3, SecondType
    <3>5. last' - credit' <= lastUse'
      BY <1>3, <2>2, <3>1, <3>2, <3>3, SecondType
    <3> QED
      BY <3>4, <3>5 DEF drawn
  <2>4. Balanced(Bucket, spent + Drawn)'
    BY <1>3, <2>1, <2>3 DEF Balanced, Bucket
  <2>5. Balanced(tx[c].was, spent)'
    BY <1>3, <1>4, <2>2 DEF Balanced, Bucket
  <2>6. \A d \in Callers : tx'[d].step = "claim" => d = c
    BY <1>1, <1>4, ThrottleConstants DEF ThrottleInv, LockInv
  <2> QED
    BY <2>4, <2>5, <2>6 DEF BalanceInv
<1> QED
  BY <1>5, <1>6, <1>7, <1>8 DEF ThrottleInv

\* COMMIT: what was drawn is spent.
LEMMA CommitKeeps ==
    ASSUME ThrottleInv, NEW c \in Callers, Commit(c)
    PROVE  ThrottleInv'
<1>1. /\ tx[c] \in Claiming /\ holder = c /\ c # Null
      /\ holder' = Null /\ tx'[c] = Idle
      /\ \A d \in Callers : d # c => tx'[d] = tx[d]
      /\ spent' = spent + tx[c].allowed * Cost
      /\ UNCHANGED <<clock, limited, deleting, deletes, credit, last, exists, allowance, lastUse>>
  BY CallerShape, ThrottleConstants
     DEF ThrottleInv, ThrottleTypeOK, LockInv, Commit, bucket
<1>2. tx[c].allowed \in Nat /\ tx[c].allowed * Cost \in Nat
  BY <1>1, CostOrder, ThrottleConstants DEF Claiming
<1>3. ThrottleTypeOK'
  <2>1. tx' \in [Callers -> {Idle} \cup Limited \cup Claiming]
    BY DEF ThrottleInv, ThrottleTypeOK, Commit
  <2> QED
    BY <1>1, <1>2, <2>1 DEF ThrottleInv, ThrottleTypeOK
<1>4. \A d \in Callers : tx'[d].step # "claim"
  BY <1>1 DEF ThrottleInv, LockInv, Idle
<1>5. LockInv' /\ StartInv' /\ FullAfterRest'
  BY <1>1, <1>4, ThrottleConstants DEF ThrottleInv, LockInv, StartInv, FullAfterRest
<1>6. BalanceInv'
  <2>1. Drawn = tx[c].allowed * Cost /\ Drawn' = 0
    BY <1>1 DEF Drawn
  <2>2. (spent + Drawn)' = spent + Drawn
    BY <1>1, <1>2, <2>1 DEF ThrottleInv, ThrottleTypeOK
  <2>3. Bucket' = Bucket
    BY <1>1 DEF Bucket
  <2> QED
    BY <1>1, <1>4, <2>2, <2>3 DEF ThrottleInv, BalanceInv, Balanced
<1> QED
  BY <1>3, <1>5, <1>6 DEF ThrottleInv

\* ROLLBACK: the bucket is the one the transaction found, which is balanced
\* without the draw.
LEMMA RollbackKeeps ==
    ASSUME ThrottleInv, NEW c \in Callers, Rollback(c)
    PROVE  ThrottleInv'
<1>1. /\ tx[c] \in Claiming /\ holder = c /\ c # Null
      /\ holder' = Null /\ tx'[c] = Idle
      /\ \A d \in Callers : d # c => tx'[d] = tx[d]
      /\ UNCHANGED <<clock, limited, deleting, deletes, spent, lastUse>>
  BY CallerShape, ThrottleConstants
     DEF ThrottleInv, ThrottleTypeOK, LockInv, Rollback
<1>2. Bucket' = tx[c].was
  BY <1>1 DEF Rollback, Bucket, Claiming
<1>3. ThrottleTypeOK'
  <2>1. tx' \in [Callers -> {Idle} \cup Limited \cup Claiming]
    BY DEF ThrottleInv, ThrottleTypeOK, Rollback
  <2>2. /\ credit' \in Int /\ credit' <= Second /\ last' \in Nat /\ last' <= clock
        /\ exists' \in BOOLEAN /\ allowance' \in Nat
    BY <1>1 DEF Rollback, Claiming, ThrottleInv, StartInv
  <2> QED
    BY <1>1, <2>1, <2>2 DEF ThrottleInv, ThrottleTypeOK
<1>4. \A d \in Callers : tx'[d].step # "claim"
  BY <1>1 DEF ThrottleInv, LockInv, Idle
<1>5. LockInv' /\ StartInv' /\ FullAfterRest'
  BY <1>1, <1>4, ThrottleConstants DEF ThrottleInv, LockInv, StartInv, FullAfterRest
<1>6. BalanceInv'
  <2>1. (spent + Drawn)' = spent
    BY <1>1 DEF Drawn, ThrottleInv, ThrottleTypeOK
  <2>2. Balanced(tx[c].was, spent)
    BY <1>1 DEF ThrottleInv, BalanceInv, Claiming
  <2> QED
    BY <1>1, <1>2, <1>4, <2>1, <2>2 DEF BalanceInv, Balanced
<1> QED
  BY <1>3, <1>5, <1>6 DEF ThrottleInv

\* The administrator and the clock.
LEMMA AdminKeeps ==
    ASSUME ThrottleInv, SetLimit \/ DeleteConfig \/ Tick
    PROVE  ThrottleInv'
<1>1. /\ UNCHANGED <<credit, last, exists, holder, tx, spent, allowance, lastUse>>
      /\ clock' \in Nat /\ clock' >= clock
      /\ limited' \in BOOLEAN /\ deleting' \in BOOLEAN /\ deletes' \in Nat
  <2>1. limited' \in BOOLEAN
    BY Zenon DEF SetLimit, DeleteConfig, Tick, ThrottleInv, ThrottleTypeOK
  <2>2. deleting' \in BOOLEAN
    BY Zenon DEF SetLimit, DeleteConfig, Tick, ThrottleInv, ThrottleTypeOK
  <2>3. clock' \in Nat /\ clock' >= clock /\ deletes' \in Nat
    BY DEF SetLimit, DeleteConfig, Tick, ThrottleInv, ThrottleTypeOK
  <2>4. UNCHANGED <<credit, last, exists, holder, tx, spent, allowance, lastUse>>
    BY DEF SetLimit, DeleteConfig, Tick, bucket
  <2> QED
    BY <2>1, <2>2, <2>3, <2>4
<1>2. ThrottleTypeOK'
  BY <1>1 DEF ThrottleInv, ThrottleTypeOK
<1>3. LockInv' /\ FullAfterRest'
  BY <1>1 DEF ThrottleInv, LockInv, FullAfterRest
<1>4. StartInv'
  <2>1. ASSUME NEW c \in Callers
        PROVE  /\ tx[c] # Idle => tx[c].start \in Nat
               /\ tx[c].step = "claim" => tx[c].was.last \in Nat
    BY CallerShape DEF ThrottleInv, ThrottleTypeOK, Limited, Claiming
  <2> QED
    BY <1>1, <2>1 DEF ThrottleInv, ThrottleTypeOK, StartInv
<1>5. BalanceInv'
  <2>1. Bucket' = Bucket /\ Drawn' = Drawn
    BY <1>1 DEF Bucket, Drawn
  <2>2. holder # Null => tx[holder].allowed * Cost \in Nat
    BY CallerShape, CostOrder, ThrottleConstants
       DEF ThrottleInv, ThrottleTypeOK, LockInv, Claiming
  <2>3. Drawn \in Nat
    BY <2>2 DEF Drawn
  <2>4. Balanced(Bucket, spent + Drawn)'
    <3>1. IF exists THEN spent + Drawn + credit <= last + allowance /\ last - credit <= lastUse
                    ELSE spent + Drawn <= clock + allowance
      BY DEF ThrottleInv, BalanceInv, Balanced, Bucket
    <3>2. IF exists THEN spent + Drawn + credit <= last + allowance /\ last - credit <= lastUse
                    ELSE spent + Drawn <= clock' + allowance
      <4>1. CASE exists
        BY <3>1, <4>1
      <4>2. CASE ~exists
        <5>1. spent + Drawn <= clock + allowance
          BY <3>1, <4>2
        <5>2. /\ spent \in Nat /\ allowance \in Nat /\ clock \in Nat
              /\ clock' \in Nat /\ clock' >= clock
          BY <1>1 DEF ThrottleInv, ThrottleTypeOK
        <5>3. \A a, b, c, d, e \in Nat : a + b <= c + e /\ d >= c => a + b <= d + e
          OBVIOUS
        <5>4. spent + Drawn <= clock' + allowance
          BY <2>3, <5>1, <5>2, <5>3
        <5> QED
          BY <4>2, <5>4
      <4> QED
        BY <4>1, <4>2
    <3> QED
      BY <1>1, <2>1, <3>2 DEF Balanced, Bucket
  <2>5. ASSUME NEW c \in Callers, tx'[c].step = "claim"
        PROVE  Balanced(tx[c].was, spent)'
    BY <1>1, <2>5, CallerShape DEF ThrottleInv, ThrottleTypeOK, BalanceInv, Balanced, Claiming
  <2> QED
    BY <2>4, <2>5 DEF BalanceInv
<1> QED
  BY <1>2, <1>3, <1>4, <1>5 DEF ThrottleInv

\* DELETE FROM topic_throughput: what the bucket held is given up, and any debt
\* with it, which its allowance already covers.
LEMMA DeleteKeeps ==
    ASSUME ThrottleInv, DeleteBucket
    PROVE  ThrottleInv'
<1>1. /\ UNCHANGED <<clock, limited, deletes, credit, last, holder, tx, spent, allowance, lastUse>>
      /\ deleting' \in BOOLEAN /\ exists' \in BOOLEAN
      /\ exists' = exists \/ (holder = Null /\ exists' = FALSE)
  BY DEF DeleteBucket, ThrottleInv, ThrottleTypeOK
<1>2. ThrottleTypeOK' /\ LockInv' /\ FullAfterRest' /\ StartInv'
  BY <1>1 DEF ThrottleInv, ThrottleTypeOK, LockInv, FullAfterRest, StartInv
<1>3. \A c \in Callers : tx'[c].step = "claim" => Balanced(tx[c].was, spent)'
  BY <1>1 DEF ThrottleInv, BalanceInv, Balanced
<1>4. Balanced(Bucket, spent + Drawn)'
  <2>1. CASE exists' = exists
    BY <1>1, <2>1 DEF ThrottleInv, BalanceInv, Balanced, Bucket, Drawn
  <2>2. CASE holder = Null /\ exists' = FALSE
    BY <1>1, <2>2 DEF ThrottleInv, ThrottleTypeOK, BalanceInv, Balanced, Bucket, Drawn
  <2> QED
    BY <1>1, <2>1, <2>2
<1> QED
  BY <1>2, <1>3, <1>4 DEF ThrottleInv, BalanceInv

\* The balance survives every step.
LEMMA ThrottleNext == ThrottleInv /\ [Next]_vars => ThrottleInv'
<1> SUFFICES ASSUME ThrottleInv, [Next]_vars PROVE ThrottleInv'
  OBVIOUS
<1>1. CASE \E c \in Callers : (\E want \in 1..MaxWant : Begin(c, want)) \/ ReadLimit(c)
  BY <1>1, BeginKeeps
<1>2. CASE \E c \in Callers, k \in 0..MaxWant : ConsumeTokens(c, k)
  BY <1>2, ConsumeKeeps
<1>3. CASE \E c \in Callers : Commit(c) \/ Rollback(c)
  BY <1>3, CommitKeeps, RollbackKeeps
<1>4. CASE SetLimit \/ DeleteConfig \/ Tick
  BY <1>4, AdminKeeps
<1>5. CASE DeleteBucket
  BY <1>5, DeleteKeeps
<1>6. CASE UNCHANGED vars
  BY <1>6
     DEF vars, bucket, ThrottleInv, ThrottleTypeOK, LockInv, StartInv, BalanceInv, Balanced,
         Bucket, Drawn, FullAfterRest
<1> QED
  BY <1>1, <1>2, <1>3, <1>4, <1>5, <1>6 DEF Next

\* The invariant the two theorems rest on.
LEMMA ThrottleInvariant == Spec => []ThrottleInv
BY ThrottleInit, ThrottleNext, PTL DEF Spec

\* For every limit and any number of concurrent Dequeue transactions: the
\* bucket of consumeTokens dispenses no more than the time that has passed and
\* a second for each bucket started afresh.
THEOREM RateBoundHolds == Spec => []RateBound
<1>1. ThrottleInv => RateBound
  <2> SUFFICES ASSUME ThrottleInv PROVE spent <= clock + allowance
    BY DEF RateBound
  <2>1. Drawn \in Nat
    <3>1. holder # Null => tx[holder].allowed * Cost \in Nat
      BY CallerShape, CostOrder, ThrottleConstants
         DEF ThrottleInv, ThrottleTypeOK, LockInv, Claiming
    <3> QED
      BY <3>1 DEF Drawn
  <2> QED
    BY <2>1 DEF ThrottleInv, ThrottleTypeOK, BalanceInv, Balanced, Bucket
<1> QED
  BY <1>1, ThrottleInvariant, PTL

\* For every limit: a Dequeue that begins a second after the bucket was last
\* refilled is allowed what it asks for, up to the limit, however old the
\* transactions were that refilled the bucket before.
THEOREM FullAfterRestHolds == Spec => []FullAfterRest
<1>1. ThrottleInv => FullAfterRest
  BY DEF ThrottleInv
<1> QED
  BY <1>1, ThrottleInvariant, PTL

=============================================================================
