------------------------- MODULE GoConsumer_proofs -------------------------
(***************************************************************************)
(* Proofs about GoConsumer, for any number of messages, consumers and      *)
(* streams, any window, concurrency, batch size and retry budget: a        *)
(* claimed message has one owner between the database and the handler, or  *)
(* a failure has let go of it.                                             *)
(*                                                                         *)
(* The property counts owners.  The inductive invariant says the same      *)
(* without counting (OwnedOnce), and adds what the steps rely on: a stream *)
(* nobody reads is empty, a stream carries no message twice, a call reads  *)
(* a stream exactly while it is in drainStream, a batch is held by its     *)
(* handler only, and what is lost is still claimed.                        *)
(***************************************************************************)
EXTENDS GoConsumer, FiniteSetTheorems, SequenceTheorems, TLAPS

\* Exactly one of the four sets of owners has a member, and only one.
OneOf(S, T, H, G) ==
    \/ (\E x : S = {x}) /\ T = {} /\ H = {} /\ G = {}
    \/ (\E x : T = {x}) /\ S = {} /\ H = {} /\ G = {}
    \/ (\E x : H = {x}) /\ S = {} /\ T = {} /\ G = {}
    \/ (\E x : G = {x}) /\ S = {} /\ T = {} /\ H = {}

Owned(m) == OneOf(Sending(m), Travelling(m), InHand(m), Handling(m))

Unowned(m) ==
    Sending(m) = {} /\ Travelling(m) = {} /\ InHand(m) = {} /\ Handling(m) = {}

OwnedOnce == \A m \in Messages : IF m \in Claimed /\ m \notin lost THEN Owned(m) ELSE Unowned(m)

\* What the steps of one stream rely on.
StreamsInOrder ==
    /\ \A s \in Streams : ~Read(s) => pipe[s] = <<>>
    /\ \A s \in Streams : \A i, j \in 1..Len(pipe[s]) : pipe[s][i] = pipe[s][j] => i = j

\* What the steps of one consumer rely on.
CallsInOrder ==
    /\ \A c \in Consumers : streamOf[c] # Null <=> loop[c].step \in {"drain", "slot"}
    /\ \A c \in Consumers : batch[c] # {} => loop[c].step = "batch"

OwnerInv ==
    /\ ConsumerTypeOK
    /\ StreamsInOrder
    /\ CallsInOrder
    /\ lost \subseteq Claimed
    /\ OwnedOnce

-----------------------------------------------------------------------------
(* Facts about the operators *)

\* Every set of numbers that has a member has a smallest one.  (The intervals
\* 0..n are finite sets, and strict inclusion of finite sets is well founded.)
LEMMA SmallestNumber ==
    ASSUME NEW T, T \subseteq Nat, T # {}
    PROVE  \E n \in T : \A k \in T : n <= k
<1> DEFINE R == StrictSubsetOrdering(Nat)
           F == FiniteSubsetsOf(Nat)
           U == {0..n : n \in T}
<1>1. IsWellFoundedOn(R, F)
  BY FS_StrictSubsetOrderingWellFounded
<1>2. U \subseteq F
  <2>1. ASSUME NEW n \in T
        PROVE  IsFiniteSet(0..n) /\ 0..n \subseteq Nat
    BY FS_Interval
  <2> QED
    BY <2>1 DEF FiniteSubsetsOf
<1>3. U # {}
  OBVIOUS
<1> HIDE DEF R, F
<1>4. PICK x \in U : \A y \in U : ~ (<<y, x>> \in R)
  <2> HIDE DEF U
  <2> QED
    BY <1>1, <1>2, <1>3, WFMin
<1>5. PICK n \in T : x = 0..n
  OBVIOUS
<1>6. ASSUME NEW k \in T, k < n
      PROVE  FALSE
  <2>1. 0..k \subseteq 0..n /\ 0..k # 0..n
    BY <1>6
  <2>2. 0..k \in SUBSET Nat /\ 0..n \in SUBSET Nat
    OBVIOUS
  <2>3. <<0..k, 0..n>> \in R
    BY <2>1, <2>2 DEF R, StrictSubsetOrdering
  <2> QED
    BY <1>4, <1>5, <2>3
<1> QED
  BY <1>6

\* Dequeue takes the one oldest pending message (ORDER BY created_at LIMIT 1).
LEMMA OldestIsOne ==
    ASSUME Pending # {}
    PROVE  \E m \in Pending : Oldest(1) = {m}
<1>1. Pending \subseteq Nat
  BY ConsumerConstants DEF Pending
<1>2. PICK m \in Pending : \A k \in Pending : m <= k
  BY <1>1, SmallestNumber
<1>3. m \in Oldest(1)
  <2>1. \A k \in Pending : ~(k < m)
    BY <1>1, <1>2
  <2>2. {k \in Pending : k < m} = {}
    BY <2>1
  <2> QED
    BY <2>2, FS_EmptySet DEF Oldest
<1>4. ASSUME NEW n \in Oldest(1), n # m
      PROVE  FALSE
  <2> DEFINE Earlier == {k \in Pending : k < n}
  <2>1. n \in Pending /\ Cardinality(Earlier) < 1
    BY DEF Oldest
  <2>2. m \in Earlier
    BY <1>1, <1>2, <1>4, <2>1
  <2>3. Earlier \in SUBSET Nat /\ (\A k \in Earlier : k <= n) /\ n \in Nat
    <3>1. n \in Nat /\ \A k \in Pending : k \in Nat /\ (k < n => k <= n)
      BY <1>1, <2>1
    <3> QED
      BY <3>1
  <2> HIDE DEF Earlier
  <2>4. IsFiniteSet(Earlier)
    BY <2>3, FS_BoundedSetOfNaturals
  <2>5. Cardinality(Earlier) = 0
    BY <2>1, <2>4, FS_CardinalityType
  <2> QED
    BY <2>2, <2>4, <2>5, FS_EmptySet
<1> QED
  BY <1>3, <1>4

LEMMA OldestArePending == \A n : Oldest(n) \subseteq Pending
BY DEF Oldest

\* Settling a row keeps its type (Ack, Nack).
LEMMA SettledType ==
    ASSUME NEW r \in [status : {"pending", "claimed", "ended"}, retry : Nat], NEW verb
    PROVE  /\ Settled(r, verb) \in [status : {"pending", "claimed", "ended"}, retry : Nat]
           /\ Settled(r, verb).status # "claimed"
BY ConsumerConstants DEF Settled, Ack, Nack, Retried

\* What a stream carries after a message was appended, taken or cut off.
LEMMA ToSetOf ==
    ASSUME NEW q \in Seq(Messages)
    PROVE  /\ ToSet(q) \subseteq Messages
           /\ \A k : k \in ToSet(q) <=> \E i \in 1..Len(q) : q[i] = k
BY DEF ToSet

LEMMA ToSetEmpty == ToSet(<<>>) = {}
BY DEF ToSet

LEMMA ToSetAppend ==
    ASSUME NEW q \in Seq(Messages), NEW m \in Messages
    PROVE  /\ Append(q, m) \in Seq(Messages)
           /\ ToSet(Append(q, m)) = ToSet(q) \cup {m}
<1> DEFINE r == Append(q, m)
<1>1. /\ r \in Seq(Messages) /\ Len(r) = Len(q) + 1 /\ Len(q) \in Nat
      /\ \A i \in 1..Len(q) : r[i] = q[i]
      /\ r[Len(q) + 1] = m
  OBVIOUS
<1> HIDE DEF r
<1>2. ASSUME NEW k
      PROVE  k \in ToSet(r) <=> k \in ToSet(q) \/ k = m
  <2>1. ASSUME k \in ToSet(r)
        PROVE  k \in ToSet(q) \/ k = m
    <3>1. PICK i \in 1..Len(q) + 1 : r[i] = k
      BY <1>1, <2>1, ToSetOf
    <3>2. i \in 1..Len(q) \/ i = Len(q) + 1
      BY <1>1
    <3> QED
      BY <1>1, <3>1, <3>2, ToSetOf
  <2>2. ASSUME NEW i \in 1..Len(q), q[i] = k
        PROVE  k \in ToSet(r)
    <3>1. i \in 1..Len(r) /\ r[i] = k
      BY <1>1, <2>2
    <3> QED
      BY <1>1, <3>1, ToSetOf
  <2>3. m \in ToSet(r)
    <3>1. Len(q) + 1 \in 1..Len(r)
      BY <1>1
    <3> QED
      BY <1>1, <3>1, ToSetOf
  <2> QED
    BY <2>1, <2>2, <2>3, ToSetOf
<1> QED
  BY <1>1, <1>2 DEF r

LEMMA ToSetTail ==
    ASSUME NEW q \in Seq(Messages), q # <<>>
    PROVE  /\ Head(q) \in Messages /\ Tail(q) \in Seq(Messages)
           /\ ToSet(q) = {Head(q)} \cup ToSet(Tail(q))
           /\ Len(Tail(q)) = Len(q) - 1
<1>1. /\ Head(q) \in Messages /\ Tail(q) \in Seq(Messages)
      /\ Len(Tail(q)) = Len(q) - 1 /\ Len(q) \in Nat \ {0}
      /\ \A i \in 1..Len(q) - 1 : Tail(q)[i] = q[i + 1]
      /\ Head(q) = q[1]
  OBVIOUS
<1>2. ASSUME NEW k \in ToSet(q)
      PROVE  k \in {Head(q)} \cup ToSet(Tail(q))
  <2>1. PICK i \in 1..Len(q) : q[i] = k
    BY <1>2, ToSetOf
  <2>2. CASE i = 1
    BY <1>1, <2>1, <2>2
  <2>3. CASE i # 1
    <3>1. i - 1 \in 1..Len(Tail(q)) /\ Tail(q)[i - 1] = k
      BY <1>1, <2>1, <2>3
    <3> QED
      BY <1>1, <3>1, ToSetOf
  <2> QED
    BY <2>2, <2>3
<1>3. ASSUME NEW k \in {Head(q)} \cup ToSet(Tail(q))
      PROVE  k \in ToSet(q)
  <2>1. CASE k = Head(q)
    BY <1>1, <2>1, ToSetOf
  <2>2. CASE k \in ToSet(Tail(q))
    <3>1. PICK i \in 1..Len(Tail(q)) : Tail(q)[i] = k
      BY <1>1, <2>2, ToSetOf
    <3>2. i + 1 \in 1..Len(q) /\ q[i + 1] = k
      BY <1>1, <3>1
    <3> QED
      BY <3>2, ToSetOf
  <2> QED
    BY <1>3, <2>1, <2>2
<1> QED
  BY <1>1, <1>2, <1>3

LEMMA ToSetCut ==
    ASSUME NEW q \in Seq(Messages), NEW n \in 0..Len(q)
    PROVE  /\ SubSeq(q, 1, n) \in Seq(Messages)
           /\ Len(SubSeq(q, 1, n)) = n
           /\ \A i \in 1..n : SubSeq(q, 1, n)[i] = q[i]
           /\ \A k : k \in ToSet(SubSeq(q, 1, n)) <=> \E i \in 1..n : q[i] = k
           /\ \A k : k \in ToSet(SubSeq(q, n + 1, Len(q))) <=> \E i \in n + 1..Len(q) : q[i] = k
<1>1. /\ SubSeq(q, 1, n) \in Seq(Messages)
      /\ Len(SubSeq(q, 1, n)) = n
      /\ \A i \in 1..n : SubSeq(q, 1, n)[i] = q[i]
  OBVIOUS
<1>2. \A k : k \in ToSet(SubSeq(q, 1, n)) <=> \E i \in 1..n : q[i] = k
  <2>1. \A k : k \in ToSet(SubSeq(q, 1, n)) <=> \E i \in 1..n : SubSeq(q, 1, n)[i] = k
    BY <1>1, ToSetOf
  <2> QED
    BY <1>1, <2>1
<1>3. DEFINE r == SubSeq(q, n + 1, Len(q))
<1>4. /\ r \in Seq(Messages) /\ Len(r) = Len(q) - n
      /\ \A i \in 1..Len(q) - n : r[i] = q[n + i]
  <2>1. \A i \in n + 1..Len(q) : q[i] \in Messages
    OBVIOUS
  <2>2. n + 1 \in Int /\ Len(q) \in Int
    OBVIOUS
  <2>3. /\ r \in Seq(Messages)
        /\ Len(r) = IF n + 1 <= Len(q) THEN Len(q) - (n + 1) + 1 ELSE 0
        /\ \A i \in 1..Len(q) - (n + 1) + 1 : r[i] = q[n + 1 + i - 1]
    BY <2>1, <2>2, SubSeqProperties
  <2> HIDE DEF r
  <2> QED
    BY <2>2, <2>3
<1> HIDE DEF r
<1>5. ASSUME NEW k
      PROVE  k \in ToSet(r) <=> \E i \in n + 1..Len(q) : q[i] = k
  <2>1. ASSUME k \in ToSet(r)
        PROVE  \E i \in n + 1..Len(q) : q[i] = k
    <3>1. PICK i \in 1..Len(r) : r[i] = k
      BY <1>4, <2>1, ToSetOf
    <3>2. n + i \in n + 1..Len(q) /\ q[n + i] = k
      BY <1>4, <3>1
    <3> QED
      BY <3>2
  <2>2. ASSUME NEW i \in n + 1..Len(q), q[i] = k
        PROVE  k \in ToSet(r)
    <3>1. i - n \in 1..Len(r) /\ r[i - n] = k
      BY <1>4, <2>2
    <3> QED
      BY <1>4, <3>1, ToSetOf
  <2> QED
    BY <2>1, <2>2
<1> QED
  BY <1>1, <1>2, <1>5 DEF r

-----------------------------------------------------------------------------
(* Types *)

RowType == [status : {"pending", "claimed", "ended"}, retry : Nat]
ServeType == [at : Position({"loop", "ended"}, {"send"}), link : {"up", "cut", "down"}]

\* Claiming rows keeps their types and claims exactly them (Dequeue, DequeueN).
LEMMA ClaimType ==
    ASSUME row \in [Messages -> RowType], NEW S, S \subseteq Pending, Claim(S)
    PROVE  /\ row' \in [Messages -> RowType]
           /\ Claimed' = Claimed \cup S
<1>1. \A m \in Messages : row[m] \in RowType
  OBVIOUS
<1>2. \A r \in RowType : /\ [r EXCEPT !.status = "claimed"] \in RowType
                         /\ [r EXCEPT !.status = "claimed"].status = "claimed"
  BY DEF RowType
<1>3. row' \in [Messages -> RowType]
  BY <1>1, <1>2 DEF Claim
<1>4. \A m \in Messages : row'[m].status = IF m \in S THEN "claimed" ELSE row[m].status
  BY <1>1, <1>2 DEF Claim
<1> QED
  BY <1>3, <1>4 DEF Claimed, Pending

\* Writing one field of a Subscribe call keeps its type, and the others as they
\* are.
LEMMA ServeTypes ==
    ASSUME serve \in [Streams -> ServeType], NEW s \in Streams
    PROVE  /\ \A p \in Position({"loop", "ended"}, {"send"}) :
                 [serve EXCEPT ![s].at = p] \in [Streams -> ServeType]
           /\ \A l \in {"up", "cut", "down"} :
                 [serve EXCEPT ![s].link = l] \in [Streams -> ServeType]
           /\ Served \in ServeType /\ Unserved \in ServeType
BY DEF ServeType, Served, Unserved, At, Position

LEMMA SetsType ==
    ASSUME NEW D, NEW S, NEW f \in [D -> SUBSET S], NEW d \in D, NEW X \in SUBSET S
    PROVE  [f EXCEPT ![d] = X] \in [D -> SUBSET S]
OBVIOUS

LEMMA PipeTypes ==
    ASSUME ConsumerTypeOK, NEW s \in Streams, NEW q \in Seq(Messages), Len(q) <= Window,
           pipe' = [pipe EXCEPT ![s] = q]
    PROVE  /\ pipe' \in [Streams -> Seq(Messages)]
           /\ \A t \in Streams : Len(pipe'[t]) <= Window
<1>1. pipe \in [Streams -> Seq(Messages)] /\ \A t \in Streams : Len(pipe[t]) <= Window
  BY DEF ConsumerTypeOK
<1>2. \A t \in Streams : pipe'[t] = IF t = s THEN q ELSE pipe[t]
  BY <1>1
<1> QED
  BY <1>1, <1>2

LEMMA ConsumerTypesInit == Init => ConsumerTypeOK
BY ConsumerConstants
   DEF Init, ConsumerTypeOK, Position, Step, At, Unserved, Consumers

\* Every step keeps the types: a window is never overfilled, a backoff stays
\* in its range (nextBackoff), a slot holds a message.
LEMMA ConsumerTypesNext ==
    ASSUME ConsumerTypeOK, CallsInOrder, [Next]_vars
    PROVE  ConsumerTypeOK'
<1> USE ConsumerConstants
<1> USE DEF ConsumerTypeOK
<1>1. ASSUME NEW s \in Streams, Take(s)
      PROVE  ConsumerTypeOK'
  <2>1. PICK m \in Messages : Oldest(1) = {m}
    BY <1>1, OldestIsOne DEF Take, Pending
  <2>2. serve' = [serve EXCEPT ![s].at = Holding("send", m)]
    BY <1>1, <2>1 DEF Take
  <2>3. row' \in [Messages -> RowType]
    BY <1>1, ClaimType, OldestArePending DEF Take, RowType
  <2>4. serve' \in [Streams -> ServeType]
    <3>1. Holding("send", m) \in Position({"loop", "ended"}, {"send"})
      BY DEF Holding, Position
    <3>2. serve \in [Streams -> ServeType]
      BY DEF ServeType
    <3> QED
      BY <2>2, <3>1, <3>2, ServeTypes
  <2> QED
    BY <1>1, <2>3, <2>4 DEF Take, client, RowType, ServeType
<1>2. ASSUME NEW s \in Streams, TakeFails(s)
      PROVE  ConsumerTypeOK'
  <2>1. Oldest(1) \subseteq Messages
    BY OldestArePending DEF Pending
  <2>2. row' \in [Messages -> RowType]
    BY <1>2, ClaimType, OldestArePending DEF TakeFails, RowType
  <2>3. serve' \in [Streams -> ServeType]
    BY <1>2, ServeTypes DEF TakeFails, ServeType
  <2> QED
    BY <1>2, <2>1, <2>2, <2>3 DEF TakeFails, client, RowType, ServeType
<1>3. ASSUME NEW s \in Streams, Send(s)
      PROVE  ConsumerTypeOK'
  <2>1. serve[s].at.msg \in Messages
    BY <1>3 DEF Send, Position
  <2>2. \A q \in Seq(Messages) : Len(Append(q, serve[s].at.msg)) = Len(q) + 1
    BY <2>1
  <2>3. serve' \in [Streams -> ServeType]
    BY <1>3, ServeTypes DEF Send, ServeType, Position, At
  <2>4. /\ pipe' \in [Streams -> Seq(Messages)] /\ lost' \subseteq Messages
        /\ \A t \in Streams : Len(pipe'[t]) <= Window
    <3> DEFINE m == serve[s].at.msg
    <3>1. pipe[s] \in Seq(Messages) /\ Len(pipe[s]) \in Nat /\ Len(pipe[s]) < Window
      BY <1>3 DEF Send
    <3>2. Append(pipe[s], m) \in Seq(Messages) /\ Len(Append(pipe[s], m)) = Len(pipe[s]) + 1
      BY <2>1, <3>1
    <3>3. \/ pipe' = [pipe EXCEPT ![s] = Append(pipe[s], m)] /\ lost' = lost
          \/ pipe' = pipe /\ lost' = lost \cup {m}
      BY <1>3 DEF Send
    <3>4. Len(Append(pipe[s], m)) <= Window
      BY <3>1, <3>2
    <3>5. CASE pipe' = [pipe EXCEPT ![s] = Append(pipe[s], m)] /\ lost' = lost
      BY <3>2, <3>4, <3>5, PipeTypes
    <3>6. CASE pipe' = pipe /\ lost' = lost \cup {m}
      BY <2>1, <3>6
    <3> QED
      BY <3>3, <3>5, <3>6
  <2> QED
    BY <1>3, <2>3, <2>4 DEF Send, client, ServeType
<1>4. ASSUME NEW s \in Streams, Leave(s)
      PROVE  ConsumerTypeOK'
  BY <1>4 DEF Leave, Unserved, At, Position, client
<1>5. ASSUME NEW s \in Streams, Cut(s)
      PROVE  ConsumerTypeOK'
  <2>1. PICK n \in 0..Len(pipe[s]) :
           /\ pipe' = [pipe EXCEPT ![s] = SubSeq(@, 1, n)]
           /\ lost' = lost \cup ToSet(SubSeq(pipe[s], n + 1, Len(pipe[s])))
    BY <1>5 DEF Cut
  <2>2. /\ SubSeq(pipe[s], 1, n) \in Seq(Messages) /\ Len(SubSeq(pipe[s], 1, n)) <= Window
        /\ ToSet(SubSeq(pipe[s], n + 1, Len(pipe[s]))) \subseteq Messages
    <3>1. pipe[s] \in Seq(Messages) /\ Len(pipe[s]) <= Window
      OBVIOUS
    <3>2. \A i \in 1..Len(pipe[s]) : pipe[s][i] \in Messages
      BY <3>1
    <3>3. n + 1..Len(pipe[s]) \subseteq 1..Len(pipe[s])
      BY <3>1
    <3>4. Len(SubSeq(pipe[s], 1, n)) = n /\ SubSeq(pipe[s], 1, n) \in Seq(Messages)
      BY <3>1, ToSetCut
    <3>5. \A k \in ToSet(SubSeq(pipe[s], n + 1, Len(pipe[s]))) :
             \E i \in n + 1..Len(pipe[s]) : pipe[s][i] = k
      <4> DEFINE q == pipe[s]
      <4>1. q \in Seq(Messages) /\ n \in 0..Len(q)
        BY <3>1
      <4> HIDE DEF q
      <4>2. \A k : k \in ToSet(SubSeq(q, n + 1, Len(q))) <=> \E i \in n + 1..Len(q) : q[i] = k
        BY <4>1, ToSetCut
      <4> QED
        BY <4>2 DEF q
    <3>6. ToSet(SubSeq(pipe[s], n + 1, Len(pipe[s]))) \subseteq Messages
      BY <3>2, <3>3, <3>5
    <3>7. n <= Window
      BY <3>1
    <3> QED
      BY <3>4, <3>6, <3>7
  <2>3. serve' \in [Streams -> ServeType]
    <3>1. serve' = [serve EXCEPT ![s].link = IF @ = "up" THEN "cut" ELSE @]
      BY <1>5 DEF Cut
    <3>2. serve[s].link \in {"up", "cut", "down"}
      OBVIOUS
    <3> QED
      BY <3>1, <3>2, ServeTypes DEF ServeType
  <2>4. /\ pipe' \in [Streams -> Seq(Messages)] /\ lost' \subseteq Messages
        /\ \A t \in Streams : Len(pipe'[t]) <= Window
    BY <2>1, <2>2
  <2> QED
    BY <1>5, <2>3, <2>4 DEF Cut, client, ServeType
<1>6. ASSUME NEW s \in Streams, Notice(s)
      PROVE  ConsumerTypeOK'
  BY <1>6 DEF Notice, client
<1>7. ASSUME NEW c \in Streaming, Subscribe(c)
      PROVE  ConsumerTypeOK'
  <2>1. PICK s \in Streams :
           /\ serve' = [serve EXCEPT ![s] = Served]
           /\ pipe' = [pipe EXCEPT ![s] = <<>>]
           /\ streamOf' = [streamOf EXCEPT ![c] = s]
    BY <1>7 DEF Subscribe
  <2> QED
    BY <1>7, <2>1 DEF Subscribe, Goto, Served, At, Position, Step, Consumers
<1>8. ASSUME NEW c \in Streaming, Recv(c)
      PROVE  ConsumerTypeOK'
  <2>1. streamOf[c] \in Streams
    BY <1>8 DEF Recv, CallsInOrder, At, Consumers
  <2> QED
    BY <1>8, <2>1, ToSetTail DEF Recv, Goto, Holding, Position, Step, Consumers
<1>9. ASSUME NEW c \in Streaming, RecvError(c)
      PROVE  ConsumerTypeOK'
  <2>1. streamOf[c] \in Streams
    BY <1>9 DEF RecvError, CallsInOrder, At, Consumers
  <2>2. pipe[streamOf[c]] \in Seq(Messages) /\ ToSet(pipe[streamOf[c]]) \subseteq Messages
    BY <2>1, ToSetOf
  <2>3. loop' \in [Consumers -> Position(Step, {"slot"})]
    <3>1. At("wait") \in Position(Step, {"slot"}) /\ At("returned") \in Position(Step, {"slot"})
      BY DEF At, Position, Step
    <3> QED
      BY <1>9, <3>1 DEF RecvError, Goto
  <2>4. /\ pipe' \in [Streams -> Seq(Messages)] /\ lost' \subseteq Messages
        /\ \A t \in Streams : Len(pipe'[t]) <= Window
    <3>1. pipe' = [pipe EXCEPT ![streamOf[c]] = <<>>] /\ lost' = lost \cup ToSet(pipe[streamOf[c]])
      BY <1>9 DEF RecvError
    <3>2. Len(<<>>) = 0 /\ <<>> \in Seq(Messages)
      OBVIOUS
    <3>3. Len(<<>>) <= Window
      BY <3>2
    <3> QED
      BY <2>1, <2>2, <3>1, <3>2, <3>3, PipeTypes
  <2> QED
    BY <1>9, <2>3, <2>4 DEF RecvError, Consumers
<1>10. ASSUME NEW c \in Streaming, Dispatch(c)
       PROVE  ConsumerTypeOK'
  <2>1. loop[c].msg \in Messages
    BY <1>10 DEF Dispatch, Position, Step, Consumers
  <2> QED
    BY <1>10, <2>1 DEF Dispatch, Goto, At, Position, Step, Handler, Consumers, server
<1>11. ASSUME NEW c \in Streaming, NEW h \in handlers[c], HandlerEnds(c, h)
       PROVE  ConsumerTypeOK'
  <2>1. h \in Handler /\ h.msg \in Messages
    BY DEF Consumers, Handler
  <2>2. \A verb \in {"ack", "nack"} : [h EXCEPT !.step = verb] \in Handler
    BY <2>1 DEF Handler
  <2>3. handlers' \in [Consumers -> SUBSET Handler] /\ lost' \subseteq Messages
    <3>0. c \in Consumers /\ handlers[c] \in SUBSET Handler
      BY DEF Consumers
    <3>1. CASE ctx[c] = "live"
      <4>1. PICK verb \in {"ack", "nack"} :
               /\ handlers' = [handlers EXCEPT ![c] = (@ \ {h}) \cup {[h EXCEPT !.step = verb]}]
               /\ lost' = lost
        BY <1>11, <3>1 DEF HandlerEnds
      <4>2. (handlers[c] \ {h}) \cup {[h EXCEPT !.step = verb]} \in SUBSET Handler
        BY <2>2, <3>0
      <4> QED
        BY <3>0, <4>1, <4>2, SetsType
    <3>2. CASE ctx[c] # "live"
      <4>1. handlers' = [handlers EXCEPT ![c] = @ \ {h}] /\ lost' = lost \cup {h.msg}
        BY <1>11, <3>2 DEF HandlerEnds
      <4>2. handlers[c] \ {h} \in SUBSET Handler
        BY <3>0
      <4> QED
        BY <2>1, <3>0, <4>1, <4>2, SetsType
    <3> QED
      BY <3>1, <3>2
  <2> QED
    BY <1>11, <2>3 DEF HandlerEnds, server
<1>12. ASSUME NEW c \in Streaming, NEW h \in handlers[c], SettleCall(c, h)
       PROVE  ConsumerTypeOK'
  <2>1. h.msg \in Messages
    BY DEF Consumers, Handler
  <2>2. row' \in [Messages -> RowType]
    <3>1. Settled(row[h.msg], h.step) \in RowType
      BY <2>1, SettledType DEF RowType
    <3>2. row \in [Messages -> RowType]
      BY DEF RowType
    <3> QED
      BY <1>12, <2>1, <3>1, <3>2 DEF SettleCall
  <2> QED
    BY <1>12, <2>1, <2>2 DEF SettleCall, Consumers, server, RowType
<1>13. ASSUME NEW c \in Polling, BatchDequeue(c)
       PROVE  ConsumerTypeOK'
  <2>1. Oldest(BatchSize) \subseteq Messages
    BY OldestArePending DEF Pending
  <2>2. row' \in [Messages -> RowType]
    BY <1>13, ClaimType, OldestArePending DEF BatchDequeue, RowType
  <2>3. loop' \in [Consumers -> Position(Step, {"slot"})]
    <3>1. At("wait") \in Position(Step, {"slot"}) /\ At("batch") \in Position(Step, {"slot"})
      BY DEF At, Position, Step
    <3> QED
      BY <1>13, <3>1 DEF BatchDequeue, Goto
  <2>4. /\ batch' \in [Consumers -> SUBSET Messages] /\ lost' \subseteq Messages
        /\ backoff' \in [Consumers -> BackoffStart..BackoffMax]
    <3>1. \/ /\ batch' = [batch EXCEPT ![c] = Oldest(BatchSize)] /\ lost' = lost
             /\ backoff' = [backoff EXCEPT ![c] = BackoffStart]
          \/ lost' = lost \cup Oldest(BatchSize) /\ batch' = batch /\ backoff' = backoff
      BY <1>13 DEF BatchDequeue
    <3>2. BackoffStart \in BackoffStart..BackoffMax /\ Oldest(BatchSize) \in SUBSET Messages
      BY <2>1
    <3>3. c \in Consumers
      BY DEF Consumers
    <3>4. CASE /\ batch' = [batch EXCEPT ![c] = Oldest(BatchSize)] /\ lost' = lost
               /\ backoff' = [backoff EXCEPT ![c] = BackoffStart]
      <4>1. batch' \in [Consumers -> SUBSET Messages]
        BY <3>2, <3>3, <3>4, SetsType
      <4> QED
        BY <3>2, <3>4, <4>1
    <3>5. CASE lost' = lost \cup Oldest(BatchSize) /\ batch' = batch /\ backoff' = backoff
      BY <2>1, <3>5
    <3> QED
      BY <3>1, <3>4, <3>5
  <2> QED
    BY <1>13, <2>2, <2>3, <2>4 DEF BatchDequeue, server, RowType
<1>14. ASSUME NEW c \in Polling, BatchEnds(c)
       PROVE  ConsumerTypeOK'
  BY <1>14 DEF BatchEnds, Goto, At, Position, Step, Consumers, server
<1>15. ASSUME NEW c \in Polling, NEW m \in Messages, NEW verb, SettleOne(c, m, verb)
       PROVE  ConsumerTypeOK'
  <2>1. row' \in [Messages -> RowType]
    BY <1>15, SettledType DEF SettleOne, RowType
  <2> QED
    BY <1>15, <2>1 DEF SettleOne, Consumers, server, RowType
<1>16. ASSUME NEW c \in Consumers, CallFails(c)
       PROVE  ConsumerTypeOK'
  BY <1>16 DEF CallFails, Goto, At, Position, Step, server
<1>17. ASSUME NEW c \in Consumers, Wake(c)
       PROVE  ConsumerTypeOK'
  <2>1. \A b \in BackoffStart..BackoffMax : nextBackoff(b) \in BackoffStart..BackoffMax
    BY DEF nextBackoff
  <2> QED
    BY <1>17, <2>1 DEF Wake, Goto, At, Position, Step, server
<1>18. ASSUME NEW c \in Consumers, CtxDone(c)
       PROVE  ConsumerTypeOK'
  BY <1>18 DEF CtxDone, Goto, At, Position, Step, server
<1>19. ASSUME NEW c \in Consumers, Cancel(c)
       PROVE  ConsumerTypeOK'
  BY <1>19 DEF Cancel, server
<1>20. ASSUME NEW c \in Consumers, Crash(c)
       PROVE  ConsumerTypeOK'
  <2>1. \A s \in Streams : ToSet(pipe[s]) \subseteq Messages
    BY ToSetOf
  <2>2. lost' \subseteq Messages
    <3>1. {loop[c].msg} \cup {h.msg : h \in handlers[c]} \cup batch[c] \subseteq Messages \cup {Null}
      BY DEF Position, Handler
    <3> QED
      BY <1>20, <2>1, <3>1 DEF Crash
  <2> QED
    BY <1>20, <2>2 DEF Crash, Goto, At, Position, Step
<1>21. CASE UNCHANGED vars
  BY <1>21 DEF vars
<1> QED
  BY <1>1, <1>2, <1>3, <1>4, <1>5, <1>6, <1>7, <1>8, <1>9, <1>10, <1>11, <1>12, <1>13,
     <1>14, <1>15, <1>16, <1>17, <1>18, <1>19, <1>20, <1>21 DEF Next

-----------------------------------------------------------------------------
(* Order of the calls and of the streams *)

\* A step of one call.
LEMMA OneCallMoves ==
    ASSUME CallsInOrder, NEW c \in Consumers,
           \A d \in Consumers : d # c => /\ loop'[d] = loop[d] /\ batch'[d] = batch[d]
                                         /\ streamOf'[d] = streamOf[d],
           streamOf'[c] # Null <=> loop'[c].step \in {"drain", "slot"},
           batch'[c] # {} => loop'[c].step = "batch"
    PROVE  CallsInOrder'
BY DEF CallsInOrder

\* A call reads a stream exactly while it is in drainStream, and has a batch
\* only while its handler runs.
LEMMA CallsStayInOrder ==
    ASSUME ConsumerTypeOK, CallsInOrder, [Next]_vars
    PROVE  CallsInOrder'
<1> USE ConsumerConstants
<1>a. \A c \in Consumers : /\ streamOf[c] # Null <=> loop[c].step \in {"drain", "slot"}
                           /\ batch[c] # {} => loop[c].step = "batch"
  BY DEF CallsInOrder
<1>b. /\ DOMAIN loop = Consumers /\ DOMAIN batch = Consumers /\ DOMAIN streamOf = Consumers
      /\ Streaming \subseteq Consumers /\ Polling \subseteq Consumers
  BY DEF ConsumerTypeOK, Consumers
<1>1. ASSUME NEW s \in Streams,
             Take(s) \/ TakeFails(s) \/ Send(s) \/ Leave(s) \/ Cut(s) \/ Notice(s)
      PROVE  CallsInOrder'
  BY <1>1 DEF Take, TakeFails, Send, Leave, Cut, Notice, client, CallsInOrder
<1>2. ASSUME NEW c \in Streaming, Subscribe(c)
      PROVE  CallsInOrder'
  <2>1. PICK s \in Streams : streamOf' = [streamOf EXCEPT ![c] = s]
    BY <1>2 DEF Subscribe
  <2> QED
    BY <1>2, <1>a, <1>b, <2>1, OneCallMoves DEF Subscribe, Goto, At
<1>3. ASSUME NEW c \in Streaming, Recv(c)
      PROVE  CallsInOrder'
  BY <1>3, <1>a, <1>b, OneCallMoves DEF Recv, Goto, At, Holding
<1>4. ASSUME NEW c \in Streaming, RecvError(c)
      PROVE  CallsInOrder'
  BY <1>4, <1>a, <1>b, OneCallMoves DEF RecvError, Goto, At
<1>5. ASSUME NEW c \in Streaming, Dispatch(c)
      PROVE  CallsInOrder'
  BY <1>5, <1>a, <1>b, OneCallMoves DEF Dispatch, Goto, At
<1>6. ASSUME NEW c \in Streaming, NEW h \in handlers[c], HandlerEnds(c, h) \/ SettleCall(c, h)
      PROVE  CallsInOrder'
  BY <1>6 DEF HandlerEnds, SettleCall, CallsInOrder
<1>7. ASSUME NEW c \in Polling, BatchDequeue(c)
      PROVE  CallsInOrder'
  <2>1. /\ loop[c] = At("poll") /\ streamOf' = streamOf
        /\ \/ batch' = [batch EXCEPT ![c] = Oldest(BatchSize)] /\ Goto(c, At("batch"))
           \/ batch' = batch /\ Goto(c, At("wait"))
    BY <1>7 DEF BatchDequeue
  <2> QED
    BY <1>a, <1>b, <2>1, OneCallMoves DEF Goto, At
<1>8. ASSUME NEW c \in Polling, BatchEnds(c)
      PROVE  CallsInOrder'
  BY <1>8, <1>a, <1>b, OneCallMoves DEF BatchEnds, Goto, At
<1>9. ASSUME NEW c \in Polling, NEW m \in Messages, NEW verb, SettleOne(c, m, verb)
      PROVE  CallsInOrder'
  BY <1>9, <1>a, <1>b, OneCallMoves DEF SettleOne, At
<1>10. ASSUME NEW c \in Consumers, CallFails(c)
       PROVE  CallsInOrder'
  BY <1>10, <1>a, <1>b, OneCallMoves DEF CallFails, Goto, At
<1>11. ASSUME NEW c \in Consumers, Wake(c)
       PROVE  CallsInOrder'
  BY <1>11, <1>a, <1>b, OneCallMoves DEF Wake, Goto, At
<1>12. ASSUME NEW c \in Consumers, CtxDone(c)
       PROVE  CallsInOrder'
  BY <1>12, <1>a, <1>b, OneCallMoves DEF CtxDone, Goto, At
<1>13. ASSUME NEW c \in Consumers, Cancel(c)
       PROVE  CallsInOrder'
  BY <1>13 DEF Cancel, CallsInOrder
<1>14. ASSUME NEW c \in Consumers, Crash(c)
       PROVE  CallsInOrder'
  BY <1>14, <1>b, OneCallMoves DEF Crash, Goto, At
<1>15. CASE UNCHANGED vars
  BY <1>15 DEF vars, CallsInOrder
<1> QED
  BY <1>1, <1>2, <1>3, <1>4, <1>5, <1>6, <1>7, <1>8, <1>9, <1>10, <1>11, <1>12, <1>13,
     <1>14, <1>15 DEF Next

Distinct(q) == \A i, j \in 1..Len(q) : q[i] = q[j] => i = j

\* A step that touches one stream.
LEMMA OneStreamMoves ==
    ASSUME StreamsInOrder, NEW s,
           \A t \in Streams : t # s => pipe'[t] = pipe[t] /\ (Read(t) => Read(t)'),
           s \in Streams => Distinct(pipe'[s]) /\ (pipe'[s] # <<>> => Read(s)')
    PROVE  StreamsInOrder'
BY DEF StreamsInOrder, Distinct

LEMMA DistinctParts ==
    ASSUME NEW q \in Seq(Messages), Distinct(q)
    PROVE  /\ \A m \in Messages : m \notin ToSet(q) => Distinct(Append(q, m))
           /\ q # <<>> => Distinct(Tail(q)) /\ Head(q) \notin ToSet(Tail(q))
           /\ \A n \in 0..Len(q) : Distinct(SubSeq(q, 1, n))
<1>1. ASSUME NEW m \in Messages, m \notin ToSet(q)
      PROVE  Distinct(Append(q, m))
  <2>1. \A i \in 1..Len(q) : q[i] # m
    BY <1>1, ToSetOf
  <2> QED
    BY <2>1 DEF Distinct
<1>2. ASSUME q # <<>>
      PROVE  Distinct(Tail(q)) /\ Head(q) \notin ToSet(Tail(q))
  <2>1. /\ Tail(q) \in Seq(Messages) /\ Len(Tail(q)) = Len(q) - 1 /\ Len(q) \in Nat \ {0}
        /\ \A i \in 1..Len(q) - 1 : Tail(q)[i] = q[i + 1]
        /\ Head(q) = q[1]
    BY <1>2
  <2>2. ASSUME NEW i \in 1..Len(q) - 1, NEW j \in 1..Len(q) - 1, q[i + 1] = q[j + 1]
        PROVE  i = j
    <3>1. i + 1 \in 1..Len(q) /\ j + 1 \in 1..Len(q)
      BY <2>1
    <3>2. i + 1 = j + 1
      BY <2>2, <3>1 DEF Distinct
    <3> QED
      BY <3>2
  <2>3. ASSUME NEW i \in 1..Len(q) - 1
        PROVE  q[i + 1] # q[1]
    <3>1. i + 1 \in 1..Len(q) /\ 1 \in 1..Len(q) /\ i + 1 # 1
      BY <2>1
    <3> QED
      BY <3>1 DEF Distinct
  <2>4. Distinct(Tail(q))
    BY <2>1, <2>2 DEF Distinct
  <2>5. ASSUME Head(q) \in ToSet(Tail(q))
        PROVE  FALSE
    <3>1. PICK i \in 1..Len(Tail(q)) : Tail(q)[i] = Head(q)
      BY <2>1, <2>5, ToSetOf
    <3> QED
      BY <2>1, <2>3, <3>1
  <2> QED
    BY <2>4, <2>5
<1>3. ASSUME NEW n \in 0..Len(q)
      PROVE  Distinct(SubSeq(q, 1, n))
  <2>1. /\ Len(SubSeq(q, 1, n)) = n
        /\ \A i \in 1..n : SubSeq(q, 1, n)[i] = q[i]
    BY ToSetCut
  <2>2. 1..n \subseteq 1..Len(q)
    OBVIOUS
  <2> QED
    BY <2>1, <2>2 DEF Distinct
<1> QED
  BY <1>1, <1>2, <1>3

\* A stream that nobody reads is empty, and no stream carries a message twice.
LEMMA StreamsStayInOrder ==
    ASSUME OwnerInv, [Next]_vars
    PROVE  StreamsInOrder'
<1> USE ConsumerConstants
<1>a. ConsumerTypeOK /\ StreamsInOrder /\ CallsInOrder
  BY DEF OwnerInv
<1>b. /\ \A s \in Streams : pipe[s] \in Seq(Messages) /\ Distinct(pipe[s])
      /\ \A s \in Streams : pipe[s] # <<>> => Read(s)
  BY <1>a DEF ConsumerTypeOK, StreamsInOrder, Distinct
<1>c. /\ DOMAIN pipe = Streams /\ DOMAIN streamOf = Consumers
      /\ Streaming \subseteq Consumers
      /\ \A c \in Consumers : streamOf[c] # Null <=> loop[c].step \in {"drain", "slot"}
      /\ \A c \in Consumers : streamOf[c] \in Streams \cup {Null}
  BY <1>a DEF ConsumerTypeOK, CallsInOrder, Consumers
<1>1. ASSUME NEW s \in Streams, Send(s)
      PROVE  StreamsInOrder'
  <2> DEFINE m == serve[s].at.msg
  <2>1. m \in Messages
    BY <1>1, <1>a DEF Send, ConsumerTypeOK, Position
  <2>2. m \notin ToSet(pipe[s])
    <3>1. s \in Sending(m)
      BY DEF Sending
    <3>2. Travelling(m) = {}
      BY <2>1, <3>1 DEF OwnerInv, OwnedOnce, Owned, OneOf, Unowned
    <3> QED
      BY <3>2 DEF Travelling
  <2>3. Distinct(Append(pipe[s], m))
    BY <1>b, <2>1, <2>2, DistinctParts
  <2>4. \A t \in Streams : Read(t)' <=> Read(t)
    BY <1>1 DEF Send, client, Read
  <2>5. CASE pipe' = [pipe EXCEPT ![s] = Append(@, m)] /\ Read(s)
    <3>1. /\ \A t \in Streams : t # s => pipe'[t] = pipe[t]
          /\ pipe'[s] = Append(pipe[s], m)
      BY <1>c, <2>5
    <3> QED
      BY <1>a, <2>3, <2>4, <2>5, <3>1, OneStreamMoves
  <2>6. CASE pipe' = pipe
    BY <1>a, <2>4, <2>6 DEF StreamsInOrder
  <2> QED
    BY <1>1, <2>5, <2>6 DEF Send
<1>2. ASSUME NEW s \in Streams, Cut(s)
      PROVE  StreamsInOrder'
  <2>1. PICK n \in 0..Len(pipe[s]) : pipe' = [pipe EXCEPT ![s] = SubSeq(@, 1, n)]
    BY <1>2 DEF Cut
  <2>2. \A t \in Streams : Read(t)' <=> Read(t)
    BY <1>2 DEF Cut, client, Read
  <2>3. Distinct(SubSeq(pipe[s], 1, n))
    BY <1>b, DistinctParts
  <2>4. ASSUME pipe[s] = <<>>
        PROVE  SubSeq(pipe[s], 1, n) = <<>>
    <3>1. n = 0
      BY <2>4
    <3> QED
      BY <2>4, <3>1
  <2>5. /\ \A t \in Streams : t # s => pipe'[t] = pipe[t]
        /\ pipe'[s] = SubSeq(pipe[s], 1, n)
    BY <1>c, <2>1
  <2> QED
    BY <1>a, <1>b, <2>2, <2>3, <2>4, <2>5, OneStreamMoves
<1>3. ASSUME NEW c \in Streaming, Subscribe(c)
      PROVE  StreamsInOrder'
  <2>1. PICK s \in Streams : /\ pipe' = [pipe EXCEPT ![s] = <<>>]
                             /\ streamOf' = [streamOf EXCEPT ![c] = s]
    BY <1>3 DEF Subscribe
  <2>2. streamOf[c] = Null
    BY <1>3, <1>c DEF Subscribe, At
  <2>3. \A t \in Streams : Read(t) => Read(t)'
    BY <1>c, <2>1, <2>2 DEF Read
  <2>4. Distinct(<<>>)
    BY DEF Distinct
  <2>5. /\ \A t \in Streams : t # s => pipe'[t] = pipe[t]
        /\ pipe'[s] = <<>>
    BY <1>c, <2>1
  <2> QED
    BY <1>a, <2>3, <2>4, <2>5, OneStreamMoves
<1>4. ASSUME NEW c \in Streaming, Recv(c)
      PROVE  StreamsInOrder'
  <2> DEFINE s == streamOf[c]
  <2>1. s \in Streams
    BY <1>4, <1>c DEF Recv, At
  <2>2. /\ pipe[s] # <<>> /\ pipe' = [pipe EXCEPT ![s] = Tail(@)] /\ streamOf' = streamOf
    BY <1>4 DEF Recv
  <2>3. Distinct(Tail(pipe[s]))
    BY <1>b, <2>1, <2>2, DistinctParts
  <2>4. \A t \in Streams : Read(t)' <=> Read(t)
    BY <2>2 DEF Read
  <2>5. /\ \A t \in Streams : t # s => pipe'[t] = pipe[t]
        /\ pipe'[s] = Tail(pipe[s])
    BY <1>c, <2>1, <2>2
  <2> QED
    BY <1>a, <1>b, <2>1, <2>2, <2>3, <2>4, <2>5, OneStreamMoves
<1>5. ASSUME NEW c \in Consumers, NEW s, s = streamOf[c],
             \A t \in Streams : pipe'[t] = IF t = s THEN <<>> ELSE pipe[t],
             streamOf' = [streamOf EXCEPT ![c] = Null]
      PROVE  StreamsInOrder'
  <2>1. \A t \in Streams : t # s /\ Read(t) => Read(t)'
    BY <1>c, <1>5 DEF Read
  <2>2. Distinct(<<>>)
    BY DEF Distinct
  <2> QED
    BY <1>a, <1>5, <2>1, <2>2, OneStreamMoves
<1>6. ASSUME NEW c \in Streaming, RecvError(c)
      PROVE  StreamsInOrder'
  <2>1. /\ \A t \in Streams : pipe'[t] = IF t = streamOf[c] THEN <<>> ELSE pipe[t]
        /\ streamOf' = [streamOf EXCEPT ![c] = Null]
    BY <1>6, <1>c DEF RecvError
  <2> QED
    BY <1>c, <1>5, <2>1
<1>7. ASSUME NEW c \in Consumers, Crash(c)
      PROVE  StreamsInOrder'
  <2>1. /\ \A t \in Streams : pipe'[t] = IF t = streamOf[c] THEN <<>> ELSE pipe[t]
        /\ streamOf' = [streamOf EXCEPT ![c] = Null]
    BY <1>7 DEF Crash
  <2> QED
    BY <1>5, <2>1
<1>8. CASE UNCHANGED <<pipe, streamOf>>
  BY <1>a, <1>8 DEF StreamsInOrder, Read
<1>9. ASSUME NEW s \in Streams, Take(s) \/ TakeFails(s) \/ Leave(s) \/ Notice(s)
      PROVE  UNCHANGED <<pipe, streamOf>>
  BY <1>9 DEF Take, TakeFails, Leave, Notice, client
<1>10. ASSUME NEW c \in Streaming, Dispatch(c)
       PROVE  UNCHANGED <<pipe, streamOf>>
  BY <1>10 DEF Dispatch, server
<1>11. ASSUME NEW c \in Streaming, NEW h \in handlers[c], HandlerEnds(c, h) \/ SettleCall(c, h)
       PROVE  UNCHANGED <<pipe, streamOf>>
  BY <1>11 DEF HandlerEnds, SettleCall, server
<1>12. ASSUME NEW c \in Polling, BatchDequeue(c) \/ BatchEnds(c)
       PROVE  UNCHANGED <<pipe, streamOf>>
  BY <1>12 DEF BatchDequeue, BatchEnds, server
<1>13. ASSUME NEW c \in Polling, NEW m \in Messages, NEW verb, SettleOne(c, m, verb)
       PROVE  UNCHANGED <<pipe, streamOf>>
  BY <1>13 DEF SettleOne, server
<1>14. ASSUME NEW c \in Consumers, CallFails(c) \/ Wake(c) \/ CtxDone(c) \/ Cancel(c)
       PROVE  UNCHANGED <<pipe, streamOf>>
  BY <1>14 DEF CallFails, Wake, CtxDone, Cancel, server
<1> QED
  BY <1>1, <1>2, <1>3, <1>4, <1>6, <1>7, <1>8, <1>9, <1>10, <1>11, <1>12, <1>13,
     <1>14 DEF Next, vars

-----------------------------------------------------------------------------
(* Owners *)

\* Whoever has a message is its only owner, and the claim has not been lost.
LEMMA SoleOwner ==
    ASSUME OwnedOnce, NEW m \in Messages
    PROVE  /\ \A s \in Sending(m) : /\ m \in Claimed \ lost /\ Sending(m) = {s}
                                    /\ Travelling(m) = {} /\ InHand(m) = {} /\ Handling(m) = {}
           /\ \A s \in Travelling(m) : /\ m \in Claimed \ lost /\ Travelling(m) = {s}
                                       /\ Sending(m) = {} /\ InHand(m) = {} /\ Handling(m) = {}
           /\ \A c \in InHand(m) : /\ m \in Claimed \ lost /\ InHand(m) = {c}
                                   /\ Sending(m) = {} /\ Travelling(m) = {} /\ Handling(m) = {}
           /\ \A p \in Handling(m) : /\ m \in Claimed \ lost /\ Handling(m) = {p}
                                     /\ Sending(m) = {} /\ Travelling(m) = {} /\ InHand(m) = {}
           /\ m \notin Claimed => Unowned(m)
<1> DEFINE S == Sending(m)
           T == Travelling(m)
           H == InHand(m)
           G == Handling(m)
<1>1. IF m \in Claimed /\ m \notin lost THEN OneOf(S, T, H, G)
      ELSE S = {} /\ T = {} /\ H = {} /\ G = {}
  BY DEF OwnedOnce, Owned, Unowned
<1> HIDE DEF S, T, H, G
<1>2. /\ \A s \in S : m \in Claimed \ lost /\ S = {s} /\ T = {} /\ H = {} /\ G = {}
      /\ \A s \in T : m \in Claimed \ lost /\ T = {s} /\ S = {} /\ H = {} /\ G = {}
      /\ \A c \in H : m \in Claimed \ lost /\ H = {c} /\ S = {} /\ T = {} /\ G = {}
      /\ \A p \in G : m \in Claimed \ lost /\ G = {p} /\ S = {} /\ T = {} /\ H = {}
      /\ m \notin Claimed => S = {} /\ T = {} /\ H = {} /\ G = {}
  BY <1>1 DEF OneOf
<1> QED
  BY <1>2 DEF S, T, H, G, Unowned

\* The owners of a message after a step that touches one Subscribe call, one
\* stream, one call of a consumer, or its handlers.
LEMMA SendingMoves ==
    ASSUME NEW s, \A t \in Streams : t # s => serve'[t].at.msg = serve[t].at.msg,
           NEW m, s \in Streams => (serve'[s].at.msg = m <=> serve[s].at.msg = m)
    PROVE  Sending(m)' = Sending(m)
BY DEF Sending

LEMMA TravellingMoves ==
    ASSUME NEW s, \A t \in Streams : t # s => pipe'[t] = pipe[t],
           NEW m, s \in Streams => (m \in ToSet(pipe'[s]) <=> m \in ToSet(pipe[s]))
    PROVE  Travelling(m)' = Travelling(m)
BY DEF Travelling

LEMMA InHandMoves ==
    ASSUME NEW c, \A d \in Consumers : d # c => loop'[d].msg = loop[d].msg /\ batch'[d] = batch[d],
           NEW m, c \in Consumers => ((loop'[c].msg = m \/ m \in batch'[c])
                                         <=> (loop[c].msg = m \/ m \in batch[c]))
    PROVE  InHand(m)' = InHand(m)
BY DEF InHand

LEMMA HandlingMoves ==
    ASSUME NEW c, \A d \in Consumers : d # c => handlers'[d] = handlers[d],
           NEW m, \A h \in Handler : h.msg = m => (h \in handlers'[c] <=> h \in handlers[c])
    PROVE  Handling(m)' = Handling(m)
BY DEF Handling

\* A message whose owners, claim and loss a step leaves alone.
LEMMA OwnerStays ==
    ASSUME OwnedOnce, NEW m \in Messages,
           Sending(m)' = Sending(m), Travelling(m)' = Travelling(m),
           InHand(m)' = InHand(m), Handling(m)' = Handling(m),
           m \in (Claimed \ lost)' <=> m \in Claimed \ lost
    PROVE  IF m \in Claimed' /\ m \notin lost' THEN Owned(m)' ELSE Unowned(m)'
BY DEF OwnedOnce, Owned, Unowned

\* The new owner of a message that had no other.
LEMMA NewOwner ==
    ASSUME NEW m,
           \/ /\ \E x : Sending(m)' = {x}
              /\ Travelling(m)' = {} /\ InHand(m)' = {} /\ Handling(m)' = {}
           \/ /\ \E x : Travelling(m)' = {x}
              /\ Sending(m)' = {} /\ InHand(m)' = {} /\ Handling(m)' = {}
           \/ /\ \E x : InHand(m)' = {x}
              /\ Sending(m)' = {} /\ Travelling(m)' = {} /\ Handling(m)' = {}
           \/ /\ \E x : Handling(m)' = {x}
              /\ Sending(m)' = {} /\ Travelling(m)' = {} /\ InHand(m)' = {}
    PROVE  Owned(m)'
BY DEF Owned, OneOf


LEMMA OwnersUntouched ==
    ASSUME NEW m
    PROVE  /\ UNCHANGED serve => Sending(m)' = Sending(m)
           /\ UNCHANGED pipe => Travelling(m)' = Travelling(m)
           /\ UNCHANGED <<loop, batch>> => InHand(m)' = InHand(m)
           /\ UNCHANGED handlers => Handling(m)' = Handling(m)
           /\ UNCHANGED row => Claimed' = Claimed
BY DEF Sending, Travelling, InHand, Handling, Claimed

\* What the steps below show of each message: its claim has one owner, and what
\* is lost is still claimed.
OwnersAfter ==
    \A m \in Messages :
        /\ IF m \in Claimed' /\ m \notin lost' THEN Owned(m)' ELSE Unowned(m)'
        /\ m \in lost' => m \in Claimed'

\* The steps of Subscribe and of the network.
LEMMA ServerKeepsOwners ==
    ASSUME OwnerInv, NEW s \in Streams,
           Take(s) \/ TakeFails(s) \/ Send(s) \/ Leave(s) \/ Cut(s) \/ Notice(s)
    PROVE  OwnersAfter
<1> USE ConsumerConstants
<1>a. ConsumerTypeOK /\ OwnedOnce /\ lost \subseteq Claimed
  BY DEF OwnerInv
<1>b. /\ Null \notin Messages
      /\ serve[s].at \in Position({"loop", "ended"}, {"send"})
      /\ DOMAIN serve = Streams /\ DOMAIN pipe = Streams
      /\ DOMAIN serve[s] = {"at", "link"}
      /\ pipe[s] \in Seq(Messages)
  BY <1>a DEF ConsumerTypeOK
<1>1. CASE Take(s)
  <2>1. PICK m \in Pending : Oldest(1) = {m}
    BY <1>1, OldestIsOne DEF Take
  <2>2. serve' = [serve EXCEPT ![s].at = Holding("send", m)]
    BY <1>1, <2>1 DEF Take
  <2>3. Claimed' = Claimed \cup {m} /\ lost' = lost
    BY <1>1, <1>a, <2>1, ClaimType DEF Take, ConsumerTypeOK, RowType
  <2>4. m \in Messages /\ m \notin Claimed /\ m \notin lost
    BY <1>a DEF Pending, Claimed
  <2>5. /\ serve[s].at.msg = Null /\ serve'[s].at.msg = m
        /\ \A t \in Streams : t # s => serve'[t].at.msg = serve[t].at.msg
    BY <1>1, <1>b, <2>2 DEF Take, At, Holding
  <2>6. UNCHANGED <<pipe, loop, batch, handlers>>
    BY <1>1 DEF Take, client
  <2>7. ASSUME NEW k \in Messages, k # m
        PROVE  IF k \in Claimed' /\ k \notin lost' THEN Owned(k)' ELSE Unowned(k)'
    <3>1. Sending(k)' = Sending(k)
      BY <1>b, <2>5, <2>7, SendingMoves
    <3> QED
      BY <1>a, <2>3, <2>6, <2>7, <3>1, OwnerStays, OwnersUntouched
  <2>8. Owned(m)'
    <3>1. Unowned(m)
      BY <1>a, <2>4, SoleOwner
    <3>2. Sending(m)' = {s}
      BY <2>5, <3>1 DEF Sending, Unowned
    <3> QED
      BY <2>6, <3>1, <3>2, NewOwner, OwnersUntouched DEF Unowned
  <2> QED
    BY <1>a, <2>3, <2>4, <2>7, <2>8 DEF OwnersAfter
<1>2. CASE TakeFails(s)
  <2>1. /\ serve[s].at.msg = Null /\ serve'[s].at.msg = Null
        /\ \A t \in Streams : t # s => serve'[t].at.msg = serve[t].at.msg
    BY <1>2, <1>b DEF TakeFails, At, Unserved
  <2>2. UNCHANGED <<pipe, loop, batch, handlers>>
    BY <1>2 DEF TakeFails, client
  <2>3. \/ Claimed' = Claimed /\ lost' = lost
        \/ Claimed' = Claimed \cup Oldest(1) /\ lost' = lost \cup Oldest(1)
    BY <1>2, <1>a, ClaimType, OldestArePending, OwnersUntouched
       DEF TakeFails, ConsumerTypeOK, RowType
  <2>4. Oldest(1) \cap Claimed = {}
    BY OldestArePending DEF Pending, Claimed
  <2>5. ASSUME NEW k \in Messages
        PROVE  IF k \in Claimed' /\ k \notin lost' THEN Owned(k)' ELSE Unowned(k)'
    <3>1. Sending(k)' = Sending(k)
      BY <1>b, <2>1, SendingMoves
    <3>2. k \in (Claimed \ lost)' <=> k \in Claimed \ lost
      BY <2>3, <2>4
    <3> QED
      BY <1>a, <2>2, <3>1, <3>2, OwnerStays, OwnersUntouched
  <2> QED
    BY <1>a, <2>3, <2>5 DEF OwnersAfter
<1>3. CASE Send(s)
  <2>1. PICK m \in Messages : m = serve[s].at.msg
    BY <1>3, <1>b DEF Send, Position
  <2>2. /\ serve'[s].at.msg = Null
        /\ \A t \in Streams : t # s => serve'[t].at.msg = serve[t].at.msg
    BY <1>3, <1>b DEF Send, At
  <2>3. UNCHANGED <<row, loop, batch, handlers>>
    BY <1>3 DEF Send, client
  <2>4. /\ Sending(m) = {s} /\ Travelling(m) = {} /\ InHand(m) = {} /\ Handling(m) = {}
        /\ m \in Claimed \ lost
    <3>1. s \in Sending(m)
      BY <2>1 DEF Sending
    <3> QED
      BY <1>a, <3>1, SoleOwner
  <2>5. Sending(m)' = {} /\ InHand(m)' = {} /\ Handling(m)' = {}
    <3>1. Sending(m)' = {}
      BY <1>b, <2>2, <2>4 DEF Sending
    <3> QED
      BY <2>3, <2>4, <3>1, OwnersUntouched
  <2>6. Claimed' = Claimed
    BY <2>3, OwnersUntouched
  <2>7. ASSUME NEW k \in Messages, k # m, Travelling(k)' = Travelling(k),
               k \in lost' <=> k \in lost
        PROVE  IF k \in Claimed' /\ k \notin lost' THEN Owned(k)' ELSE Unowned(k)'
    <3>1. Sending(k)' = Sending(k)
      BY <1>b, <2>1, <2>2, <2>7, SendingMoves
    <3> QED
      BY <1>a, <2>3, <2>6, <2>7, <3>1, OwnerStays, OwnersUntouched
  <2>8. CASE pipe' = [pipe EXCEPT ![s] = Append(@, m)] /\ lost' = lost
    <3>1. /\ ToSet(pipe'[s]) = ToSet(pipe[s]) \cup {m}
          /\ \A t \in Streams : t # s => pipe'[t] = pipe[t]
      BY <1>b, <2>8, ToSetAppend
    <3>2. Travelling(m)' = {s}
      BY <2>4, <3>1 DEF Travelling
    <3>3. Owned(m)'
      BY <2>5, <3>2, NewOwner
    <3>4. \A k \in Messages : k # m => Travelling(k)' = Travelling(k)
      BY <3>1, TravellingMoves
    <3> QED
      BY <1>a, <2>4, <2>6, <2>7, <2>8, <3>3, <3>4 DEF OwnersAfter
  <2>9. CASE lost' = lost \cup {m} /\ UNCHANGED pipe
    <3>1. \A k \in Messages : Travelling(k)' = Travelling(k)
      BY <2>9, OwnersUntouched
    <3>2. Unowned(m)'
      BY <2>4, <2>5, <3>1 DEF Unowned
    <3> QED
      BY <1>a, <2>4, <2>6, <2>7, <2>9, <3>1, <3>2 DEF OwnersAfter
  <2> QED
    BY <1>3, <2>1, <2>8, <2>9 DEF Send
<1>4. CASE Leave(s)
  <2>1. /\ serve'[s].at.msg = Null
        /\ \A t \in Streams : t # s => serve'[t].at.msg = serve[t].at.msg
    BY <1>4, <1>b DEF Leave, Unserved, At
  <2>2. UNCHANGED <<row, pipe, loop, batch, handlers>>
    BY <1>4 DEF Leave, client
  <2>3. Claimed' = Claimed
    BY <2>2, OwnersUntouched
  <2>4. ASSUME NEW k \in Messages
        PROVE  /\ IF k \in Claimed' /\ k \notin lost' THEN Owned(k)' ELSE Unowned(k)'
               /\ k \in lost' => k \in Claimed'
    <3>1. CASE k = serve[s].at.msg
      <4>1. s \in Sending(k)
        BY <3>1 DEF Sending
      <4>2. /\ Sending(k) = {s} /\ Travelling(k) = {} /\ InHand(k) = {} /\ Handling(k) = {}
            /\ k \in Claimed \ lost
        BY <1>a, <4>1, SoleOwner
      <4>3. Sending(k)' = {}
        BY <1>b, <2>1, <4>2 DEF Sending
      <4>4. Unowned(k)'
        BY <2>2, <4>2, <4>3, OwnersUntouched DEF Unowned
      <4>5. k \in lost'
        BY <1>4, <1>b, <3>1 DEF Leave
      <4> QED
        BY <2>3, <4>2, <4>4, <4>5
    <3>2. CASE k # serve[s].at.msg
      <4>1. Sending(k)' = Sending(k)
        BY <1>b, <2>1, <3>2, SendingMoves
      <4>2. k \in lost' <=> k \in lost
        BY <1>4, <3>2 DEF Leave
      <4> QED
        BY <1>a, <2>2, <2>3, <4>1, <4>2, OwnerStays, OwnersUntouched
    <3> QED
      BY <3>1, <3>2
  <2> QED
    BY <2>4 DEF OwnersAfter
<1>5. CASE Cut(s)
  <2>1. PICK n \in 0..Len(pipe[s]) :
           /\ pipe' = [pipe EXCEPT ![s] = SubSeq(@, 1, n)]
           /\ lost' = lost \cup ToSet(SubSeq(pipe[s], n + 1, Len(pipe[s])))
    BY <1>5 DEF Cut
  <2>2. UNCHANGED <<row, loop, batch, handlers>>
    BY <1>5 DEF Cut, client
  <2>3. Claimed' = Claimed /\ \A k \in Messages : Sending(k)' = Sending(k)
    <3>1. \A t \in Streams : serve'[t].at.msg = serve[t].at.msg
      BY <1>5, <1>b DEF Cut
    <3> QED
      BY <2>2, <3>1, OwnersUntouched DEF Sending
  <2> DEFINE q == pipe[s]
             kept == ToSet(SubSeq(q, 1, n))
             cut == ToSet(SubSeq(q, n + 1, Len(q)))
  <2>4. ToSet(q) = kept \cup cut /\ kept \cap cut = {}
    <3>1. /\ \A k : k \in kept <=> \E i \in 1..n : q[i] = k
          /\ \A k : k \in cut <=> \E i \in n + 1..Len(q) : q[i] = k
          /\ \A k : k \in ToSet(q) <=> \E i \in 1..Len(q) : q[i] = k
      <4>1. q \in Seq(Messages) /\ n \in 0..Len(q)
        BY <1>b
      <4> HIDE DEF q
      <4>2. /\ \A k : k \in ToSet(SubSeq(q, 1, n)) <=> \E i \in 1..n : q[i] = k
            /\ \A k : k \in ToSet(SubSeq(q, n + 1, Len(q))) <=> \E i \in n + 1..Len(q) : q[i] = k
        BY <4>1, ToSetCut
      <4>3. \A k : k \in ToSet(q) <=> \E i \in 1..Len(q) : q[i] = k
        BY <4>1, ToSetOf
      <4> QED
        BY <4>2, <4>3
    <3>2. \A i, j \in 1..Len(q) : q[i] = q[j] => i = j
      BY DEF OwnerInv, StreamsInOrder
    <3>3. Len(q) \in Nat /\ n \in 0..Len(q)
      BY <1>b
    <3> HIDE DEF q, kept, cut
    <3>4. ASSUME NEW k \in ToSet(q)
          PROVE  k \in kept \cup cut
      <4>1. PICK i \in 1..Len(q) : q[i] = k
        BY <3>1
      <4>2. i \in 1..n \/ i \in n + 1..Len(q)
        BY <3>3
      <4> QED
        BY <3>1, <4>1, <4>2
    <3>5. kept \subseteq ToSet(q)
      <4>1. 1..n \subseteq 1..Len(q)
        BY <3>3
      <4> QED
        BY <3>1, <4>1
    <3>6. cut \subseteq ToSet(q)
      <4>1. n + 1..Len(q) \subseteq 1..Len(q)
        BY <3>3
      <4> QED
        BY <3>1, <4>1
    <3>7. ASSUME NEW k \in kept, k \in cut
          PROVE  FALSE
      <4>1. PICK i \in 1..n : q[i] = k
        BY <3>1
      <4>2. PICK j \in n + 1..Len(q) : q[j] = k
        BY <3>1, <3>7
      <4>3. i \in 1..Len(q) /\ j \in 1..Len(q) /\ i # j
        BY <3>3
      <4> QED
        BY <3>2, <4>1, <4>2, <4>3
    <3> QED
      BY <3>4, <3>5, <3>6, <3>7
  <2>5. /\ \A t \in Streams : t # s => pipe'[t] = pipe[t]
        /\ ToSet(pipe'[s]) = kept
        /\ lost' = lost \cup cut
    BY <1>b, <2>1
  <2> HIDE DEF kept, cut
  <2>6. ASSUME NEW k \in Messages
        PROVE  /\ IF k \in Claimed' /\ k \notin lost' THEN Owned(k)' ELSE Unowned(k)'
               /\ k \in lost' => k \in Claimed'
    <3>1. CASE k \in cut
      <4>1. s \in Travelling(k)
        BY <2>4, <3>1 DEF Travelling
      <4>2. /\ Travelling(k) = {s} /\ Sending(k) = {} /\ InHand(k) = {} /\ Handling(k) = {}
            /\ k \in Claimed \ lost
        BY <1>a, <4>1, SoleOwner
      <4>3. Travelling(k)' = {}
        BY <2>4, <2>5, <3>1, <4>2 DEF Travelling
      <4>4. Unowned(k)'
        BY <2>2, <2>3, <4>2, <4>3, OwnersUntouched DEF Unowned
      <4> QED
        BY <2>3, <2>5, <3>1, <4>2, <4>4
    <3>2. CASE k \notin cut
      <4>1. k \in ToSet(pipe'[s]) <=> k \in ToSet(pipe[s])
        BY <2>4, <2>5, <3>2
      <4>2. Travelling(k)' = Travelling(k)
        BY <2>5, <4>1, TravellingMoves
      <4> QED
        BY <1>a, <2>2, <2>3, <2>5, <3>2, <4>2, OwnerStays, OwnersUntouched
    <3> QED
      BY <3>1, <3>2
  <2> QED
    BY <2>6 DEF OwnersAfter
<1>6. CASE Notice(s)
  <2>1. \A t \in Streams : serve'[t].at.msg = serve[t].at.msg
    BY <1>6, <1>b DEF Notice
  <2>2. \A k \in Messages : Sending(k)' = Sending(k)
    BY <2>1 DEF Sending
  <2>3. UNCHANGED <<row, lost, pipe, loop, batch, handlers>>
    BY <1>6 DEF Notice, client
  <2> QED
    BY <1>a, <2>2, <2>3, OwnerStays, OwnersUntouched DEF OwnersAfter
<1> QED
  BY <1>1, <1>2, <1>3, <1>4, <1>5, <1>6

\* The steps of one Consume call and of its handlers.
LEMMA ConsumeKeepsOwners ==
    ASSUME OwnerInv, NEW c \in Streaming,
           \/ Subscribe(c) \/ Recv(c) \/ RecvError(c) \/ Dispatch(c)
           \/ \E h \in handlers[c] : HandlerEnds(c, h) \/ SettleCall(c, h)
    PROVE  OwnersAfter
<1> USE ConsumerConstants
<1>a. ConsumerTypeOK /\ OwnedOnce /\ lost \subseteq Claimed /\ StreamsInOrder /\ CallsInOrder
  BY DEF OwnerInv
<1>b. /\ Null \notin Messages
      /\ c \in Consumers
      /\ DOMAIN serve = Streams /\ DOMAIN pipe = Streams
      /\ DOMAIN loop = Consumers /\ DOMAIN handlers = Consumers /\ DOMAIN row = Messages
      /\ \A s \in Streams : pipe[s] \in Seq(Messages)
      /\ streamOf[c] # Null <=> loop[c].step \in {"drain", "slot"}
      /\ streamOf[c] \in Streams \cup {Null}
      /\ loop[c] \in Position(Step, {"slot"})
      /\ batch[c] # {} => loop[c].step = "batch"
  BY <1>a DEF ConsumerTypeOK, CallsInOrder, Consumers
<1>1. CASE Subscribe(c)
  <2>1. PICK s \in Streams : /\ Free(s)
                             /\ serve' = [serve EXCEPT ![s] = Served]
                             /\ pipe' = [pipe EXCEPT ![s] = <<>>]
    BY <1>1 DEF Subscribe
  <2>2. \A t \in Streams : serve'[t].at.msg = serve[t].at.msg
    BY <1>b, <2>1 DEF Free, Served, Unserved, At
  <2>3. \A t \in Streams : pipe'[t] = pipe[t]
    BY <1>a, <1>b, <2>1 DEF Free, StreamsInOrder
  <2>4. \A d \in Consumers : loop'[d].msg = loop[d].msg /\ batch'[d] = batch[d]
    BY <1>1, <1>b DEF Subscribe, Goto, At
  <2>5. \A k \in Messages : /\ Sending(k)' = Sending(k) /\ Travelling(k)' = Travelling(k)
                            /\ InHand(k)' = InHand(k)
    BY <2>2, <2>3, <2>4 DEF Sending, Travelling, InHand
  <2>6. UNCHANGED <<row, lost, handlers>>
    BY <1>1 DEF Subscribe
  <2> QED
    BY <1>a, <2>5, <2>6, OwnerStays, OwnersUntouched DEF OwnersAfter
<1>2. CASE Recv(c)
  <2> DEFINE s == streamOf[c]
  <2>1. s \in Streams /\ loop[c].msg = Null
    BY <1>2, <1>b DEF Recv, At
  <2>2. /\ pipe[s] # <<>> /\ pipe' = [pipe EXCEPT ![s] = Tail(@)]
        /\ loop' = [loop EXCEPT ![c] = Holding("slot", Head(pipe[s]))]
        /\ UNCHANGED <<row, lost, serve, handlers, batch>>
    BY <1>2 DEF Recv, Goto
  <2>3. PICK m \in Messages : m = Head(pipe[s])
    BY <1>b, <2>1, <2>2, ToSetTail
  <2>4. ToSet(pipe[s]) = {m} \cup ToSet(Tail(pipe[s])) /\ m \notin ToSet(Tail(pipe[s]))
    <3>1. Distinct(pipe[s])
      BY <1>a, <2>1 DEF StreamsInOrder, Distinct
    <3> QED
      BY <1>b, <2>1, <2>2, <2>3, <3>1, ToSetTail, DistinctParts
  <2>5. /\ \A t \in Streams : t # s => pipe'[t] = pipe[t]
        /\ pipe'[s] = Tail(pipe[s])
        /\ \A d \in Consumers : d # c => loop'[d].msg = loop[d].msg /\ batch'[d] = batch[d]
        /\ loop'[c].msg = m /\ batch'[c] = batch[c] /\ batch[c] = {}
    BY <1>2, <1>b, <2>1, <2>2, <2>3 DEF Holding, Recv, At
  <2>6. /\ Travelling(m) = {s} /\ Sending(m) = {} /\ InHand(m) = {} /\ Handling(m) = {}
        /\ m \in Claimed \ lost
    <3>1. s \in Travelling(m)
      BY <2>1, <2>4 DEF Travelling
    <3> QED
      BY <1>a, <3>1, SoleOwner
  <2>7. Travelling(m)' = {}
    BY <2>4, <2>5, <2>6 DEF Travelling
  <2>8. InHand(m)' = {c}
    BY <1>b, <2>5, <2>6 DEF InHand
  <2>9. Owned(m)'
    BY <2>2, <2>6, <2>7, <2>8, NewOwner, OwnersUntouched
  <2>10. ASSUME NEW k \in Messages, k # m
         PROVE  IF k \in Claimed' /\ k \notin lost' THEN Owned(k)' ELSE Unowned(k)'
    <3>1. Travelling(k)' = Travelling(k)
      BY <2>4, <2>5, <2>10, TravellingMoves
    <3>2. InHand(k)' = InHand(k)
      BY <1>b, <2>1, <2>5, <2>10, InHandMoves
    <3> QED
      BY <1>a, <2>2, <3>1, <3>2, OwnerStays, OwnersUntouched
  <2> QED
    BY <1>a, <2>2, <2>6, <2>9, <2>10, OwnersUntouched DEF OwnersAfter
<1>3. CASE RecvError(c)
  <2> DEFINE s == streamOf[c]
  <2>1. s \in Streams /\ loop[c].msg = Null
    BY <1>3, <1>b DEF RecvError, At
  <2>2. /\ pipe' = [pipe EXCEPT ![s] = <<>>] /\ lost' = lost \cup ToSet(pipe[s])
        /\ UNCHANGED <<row, serve, handlers, batch>>
    BY <1>3 DEF RecvError
  <2>3. /\ \A t \in Streams : t # s => pipe'[t] = pipe[t]
        /\ ToSet(pipe'[s]) = {}
        /\ \A d \in Consumers : loop'[d].msg = loop[d].msg
    BY <1>3, <1>b, <2>1, <2>2, ToSetEmpty DEF RecvError, Goto, At
  <2>4. Claimed' = Claimed /\ \A k \in Messages : InHand(k)' = InHand(k)
    BY <2>2, <2>3, OwnersUntouched DEF InHand
  <2>5. ASSUME NEW k \in Messages
        PROVE  /\ IF k \in Claimed' /\ k \notin lost' THEN Owned(k)' ELSE Unowned(k)'
               /\ k \in lost' => k \in Claimed'
    <3>1. CASE k \in ToSet(pipe[s])
      <4>1. s \in Travelling(k)
        BY <2>1, <3>1 DEF Travelling
      <4>2. /\ Travelling(k) = {s} /\ Sending(k) = {} /\ InHand(k) = {} /\ Handling(k) = {}
            /\ k \in Claimed \ lost
        BY <1>a, <4>1, SoleOwner
      <4>3. Travelling(k)' = {}
        BY <2>3, <4>2 DEF Travelling
      <4>4. Unowned(k)'
        BY <2>2, <2>4, <4>2, <4>3, OwnersUntouched DEF Unowned
      <4> QED
        BY <2>2, <2>4, <3>1, <4>2, <4>4
    <3>2. CASE k \notin ToSet(pipe[s])
      <4>1. Travelling(k)' = Travelling(k)
        BY <2>3, <3>2, TravellingMoves
      <4> QED
        BY <1>a, <2>2, <2>4, <3>2, <4>1, OwnerStays, OwnersUntouched
    <3> QED
      BY <3>1, <3>2
  <2> QED
    BY <2>5 DEF OwnersAfter
<1>4. CASE Dispatch(c)
  <2>1. PICK m \in Messages : m = loop[c].msg
    BY <1>4, <1>b DEF Dispatch, Position, Step
  <2> DEFINE new == [msg |-> m, step |-> "run"]
  <2>2. new \in Handler /\ new.msg = m
    BY DEF Handler
  <2>3. /\ handlers'[c] = handlers[c] \cup {new}
        /\ \A d \in Consumers : d # c => handlers'[d] = handlers[d]
        /\ loop'[c].msg = Null /\ batch' = batch /\ batch[c] = {}
        /\ \A d \in Consumers : d # c => loop'[d].msg = loop[d].msg
        /\ UNCHANGED <<row, lost, serve, pipe>>
    BY <1>4, <1>b, <2>1 DEF Dispatch, Goto, At, server
  <2>4. /\ InHand(m) = {c} /\ Sending(m) = {} /\ Travelling(m) = {} /\ Handling(m) = {}
        /\ m \in Claimed \ lost
    <3>1. c \in InHand(m)
      BY <1>b, <2>1 DEF InHand
    <3> QED
      BY <1>a, <3>1, SoleOwner
  <2>5. InHand(m)' = {}
    BY <1>b, <2>3, <2>4 DEF InHand
  <2>6. Handling(m)' = {<<c, new>>}
    <3> HIDE DEF new
    <3>1. ASSUME NEW d \in Consumers, NEW h \in Handler, h.msg = m, h \in handlers[d]
          PROVE  FALSE
      <4>1. <<d, h>> \in Handling(m)
        BY <3>1 DEF Handling
      <4> QED
        BY <2>4, <4>1
    <3>2. \A p \in Consumers \X Handler :
             p[2] \in handlers'[p[1]] /\ p[2].msg = m <=> p = <<c, new>>
      BY <1>b, <2>2, <2>3, <3>1
    <3> QED
      BY <1>b, <2>2, <3>2 DEF Handling
  <2>7. Owned(m)'
    BY <2>3, <2>4, <2>5, <2>6, NewOwner, OwnersUntouched
  <2>8. ASSUME NEW k \in Messages, k # m
        PROVE  IF k \in Claimed' /\ k \notin lost' THEN Owned(k)' ELSE Unowned(k)'
    <3>1. InHand(k)' = InHand(k)
      BY <1>b, <2>1, <2>3, <2>8, InHandMoves
    <3>2. Handling(k)' = Handling(k)
      BY <2>2, <2>3, <2>8, HandlingMoves
    <3> QED
      BY <1>a, <2>3, <3>1, <3>2, OwnerStays, OwnersUntouched
  <2> QED
    BY <1>a, <2>3, <2>4, <2>7, <2>8, OwnersUntouched DEF OwnersAfter
<1>5. ASSUME NEW h \in handlers[c], HandlerEnds(c, h) \/ SettleCall(c, h)
      PROVE  OwnersAfter
  <2>1. h \in Handler /\ handlers[c] \subseteq Handler
    BY <1>a, <1>b DEF ConsumerTypeOK
  <2>2. PICK m \in Messages : m = h.msg
    BY <2>1 DEF Handler
  <2>3. UNCHANGED <<serve, pipe, loop, batch>>
    BY <1>5 DEF HandlerEnds, SettleCall, server
  <2>4. /\ Handling(m) = {<<c, h>>} /\ Sending(m) = {} /\ Travelling(m) = {} /\ InHand(m) = {}
        /\ m \in Claimed \ lost
    <3>1. <<c, h>> \in Handling(m)
      BY <1>b, <2>1, <2>2 DEF Handling
    <3> QED
      BY <1>a, <3>1, SoleOwner
  <2>5. \A d \in Consumers : \A g \in handlers[d] : g \in Handler /\ g.msg = m => d = c /\ g = h
    <3>1. ASSUME NEW d \in Consumers, NEW g \in handlers[d], g \in Handler, g.msg = m
          PROVE  d = c /\ g = h
      <4>1. <<d, g>> \in Handling(m)
        BY <3>1 DEF Handling
      <4> QED
        BY <2>4, <4>1
    <3> QED
      BY <3>1
  <2>6. ASSUME NEW k \in Messages, k # m, Handling(k)' = Handling(k),
               k \in (Claimed \ lost)' <=> k \in Claimed \ lost
        PROVE  IF k \in Claimed' /\ k \notin lost' THEN Owned(k)' ELSE Unowned(k)'
    BY <1>a, <2>3, <2>6, OwnerStays, OwnersUntouched
  <2>7. ASSUME NEW verb \in {"ack", "nack"}, row' = row, lost' = lost,
               handlers' = [handlers EXCEPT ![c] = (@ \ {h}) \cup {[h EXCEPT !.step = verb]}]
        PROVE  OwnersAfter
    <3> DEFINE new == [h EXCEPT !.step = verb]
    <3>1. new \in Handler /\ new.msg = m
      BY <2>1, <2>2 DEF Handler
    <3>2. /\ handlers'[c] = (handlers[c] \ {h}) \cup {new}
          /\ \A d \in Consumers : d # c => handlers'[d] = handlers[d]
      BY <1>b, <2>7
    <3> HIDE DEF new
    <3>3. Handling(m)' = {<<c, new>>}
      <4>1. \A p \in Consumers \X Handler :
               p[2] \in handlers'[p[1]] /\ p[2].msg = m <=> p = <<c, new>>
        BY <1>b, <2>5, <3>1, <3>2
      <4> QED
        BY <1>b, <3>1, <4>1 DEF Handling
    <3>4. Owned(m)'
      BY <2>3, <2>4, <3>3, NewOwner, OwnersUntouched
    <3>5. \A k \in Messages : k # m => Handling(k)' = Handling(k)
      BY <2>2, <3>1, <3>2, HandlingMoves
    <3> QED
      BY <1>a, <2>4, <2>6, <2>7, <3>4, <3>5, OwnersUntouched DEF OwnersAfter
  <2>8. ASSUME handlers' = [handlers EXCEPT ![c] = @ \ {h}],
               \/ Claimed' = Claimed /\ lost' = lost \cup {m}
               \/ Claimed' = Claimed \ {m} /\ lost' = lost
        PROVE  OwnersAfter
    <3>1. /\ handlers'[c] = handlers[c] \ {h}
          /\ \A d \in Consumers : d # c => handlers'[d] = handlers[d]
      BY <1>b, <2>8
    <3>2. Handling(m)' = {}
      <4>1. \A p \in Consumers \X Handler : ~(p[2] \in handlers'[p[1]] /\ p[2].msg = m)
        BY <2>5, <3>1
      <4> QED
        BY <4>1 DEF Handling
    <3>3. Unowned(m)'
      BY <2>3, <2>4, <3>2, OwnersUntouched DEF Unowned
    <3>4. \A k \in Messages : k # m => Handling(k)' = Handling(k)
      BY <2>2, <3>1, HandlingMoves
    <3> QED
      BY <1>a, <2>4, <2>6, <2>8, <3>3, <3>4 DEF OwnersAfter
  <2>9. CASE HandlerEnds(c, h)
    <3>1. Claimed' = Claimed /\ row' = row
      BY <2>9, OwnersUntouched DEF HandlerEnds
    <3>2. \/ \E verb \in {"ack", "nack"} :
                /\ handlers' = [handlers EXCEPT ![c] = (@ \ {h}) \cup {[h EXCEPT !.step = verb]}]
                /\ lost' = lost
          \/ handlers' = [handlers EXCEPT ![c] = @ \ {h}] /\ lost' = lost \cup {m}
      BY <2>2, <2>9 DEF HandlerEnds
    <3> QED
      BY <2>7, <2>8, <3>1, <3>2
  <2>10. CASE SettleCall(c, h)
    <3>1. handlers' = [handlers EXCEPT ![c] = @ \ {h}]
      BY <2>10 DEF SettleCall
    <3>2. CASE lost' = lost \cup {m} /\ row' = row
      BY <2>8, <3>1, <3>2, OwnersUntouched
    <3>3. CASE row' = [row EXCEPT ![m] = Settled(@, h.step)] /\ lost' = lost
      <4>1. Settled(row[m], h.step).status # "claimed"
        BY <1>a, SettledType DEF ConsumerTypeOK
      <4>2. Claimed' = Claimed \ {m}
        BY <1>b, <3>3, <4>1 DEF Claimed
      <4> QED
        BY <2>8, <3>1, <3>3, <4>2
    <3> QED
      BY <2>2, <2>10, <3>2, <3>3 DEF SettleCall
  <2> QED
    BY <1>5, <2>9, <2>10
<1> QED
  BY <1>1, <1>2, <1>3, <1>4, <1>5

\* The steps of ConsumeBatch, and those that every call can take.
LEMMA CallKeepsOwners ==
    ASSUME OwnerInv, NEW c \in Consumers,
           \/ BatchDequeue(c) \/ BatchEnds(c)
           \/ \E m \in Messages, verb \in {"ack", "nack"} : SettleOne(c, m, verb)
           \/ CallFails(c) \/ Wake(c) \/ CtxDone(c) \/ Cancel(c) \/ Crash(c)
    PROVE  OwnersAfter
<1> USE ConsumerConstants
<1>a. ConsumerTypeOK /\ OwnedOnce /\ lost \subseteq Claimed /\ CallsInOrder
  BY DEF OwnerInv
<1>b. /\ Null \notin Messages
      /\ DOMAIN pipe = Streams /\ DOMAIN loop = Consumers /\ DOMAIN batch = Consumers
      /\ DOMAIN handlers = Consumers /\ DOMAIN row = Messages
      /\ streamOf[c] \in Streams \cup {Null}
      /\ batch[c] # {} => loop[c].step = "batch"
      /\ batch[c] \subseteq Messages
      /\ handlers[c] \subseteq Handler
  BY <1>a DEF ConsumerTypeOK, CallsInOrder
<1>1. CASE BatchDequeue(c)
  <2> DEFINE S == Oldest(BatchSize)
  <2>1. Claimed' = Claimed \cup S
    BY <1>1, <1>a, ClaimType, OldestArePending DEF BatchDequeue, ConsumerTypeOK, RowType
  <2>2. S \subseteq Messages /\ S \cap Claimed = {} /\ S \cap lost = {}
    BY <1>a, OldestArePending DEF Pending, Claimed
  <2>3. UNCHANGED <<serve, pipe, handlers>>
    BY <1>1 DEF BatchDequeue, server
  <2>4. loop[c].msg = Null /\ batch[c] = {}
    BY <1>1, <1>b DEF BatchDequeue, At
  <2>5. /\ \A d \in Consumers : d # c => loop'[d].msg = loop[d].msg /\ batch'[d] = batch[d]
        /\ loop'[c].msg = Null
        /\ \/ batch'[c] = S /\ lost' = lost
           \/ batch'[c] = {} /\ lost' = lost \cup S
    <3>1. \/ batch' = [batch EXCEPT ![c] = S] /\ lost' = lost /\ Goto(c, At("batch"))
          \/ lost' = lost \cup S /\ batch' = batch /\ Goto(c, At("wait"))
      BY <1>1 DEF BatchDequeue
    <3> HIDE DEF S
    <3> QED
      BY <1>b, <2>4, <3>1 DEF Goto, At
  <2> HIDE DEF S
  <2>6. ASSUME NEW k \in Messages
        PROVE  /\ IF k \in Claimed' /\ k \notin lost' THEN Owned(k)' ELSE Unowned(k)'
               /\ k \in lost' => k \in Claimed'
    <3>1. CASE k \in S /\ batch'[c] = S /\ lost' = lost
      <4>1. Unowned(k)
        BY <1>a, <2>2, <3>1, SoleOwner
      <4>2. InHand(k)' = {c}
        BY <1>b, <2>5, <3>1, <4>1 DEF InHand, Unowned
      <4>3. Owned(k)'
        BY <2>3, <4>1, <4>2, NewOwner, OwnersUntouched DEF Unowned
      <4> QED
        BY <2>1, <2>2, <3>1, <4>3
    <3>2. CASE k \notin S \/ (batch'[c] = {} /\ lost' = lost \cup S)
      <4>1. InHand(k)' = InHand(k)
        BY <1>b, <2>4, <2>5, <3>2, InHandMoves
      <4>2. k \in (Claimed \ lost)' <=> k \in Claimed \ lost
        BY <2>1, <2>2, <2>5, <3>2
      <4> QED
        BY <1>a, <2>1, <2>3, <2>5, <4>1, <4>2, OwnerStays, OwnersUntouched
    <3>3. \/ k \in S /\ batch'[c] = S /\ lost' = lost
          \/ k \notin S \/ (batch'[c] = {} /\ lost' = lost \cup S)
      BY <2>5
    <3> QED
      BY <3>1, <3>2, <3>3
  <2> QED
    BY <2>6 DEF OwnersAfter
<1>2. CASE BatchEnds(c)
  <2>1. /\ UNCHANGED <<row, serve, pipe, handlers>>
        /\ lost' = lost \cup batch[c]
        /\ \A d \in Consumers : d # c => loop'[d].msg = loop[d].msg /\ batch'[d] = batch[d]
        /\ loop[c].msg = Null /\ loop'[c].msg = Null /\ batch'[c] = {}
    BY <1>2, <1>b DEF BatchEnds, Goto, At, server
  <2>2. Claimed' = Claimed
    BY <2>1, OwnersUntouched
  <2>3. ASSUME NEW k \in Messages
        PROVE  /\ IF k \in Claimed' /\ k \notin lost' THEN Owned(k)' ELSE Unowned(k)'
               /\ k \in lost' => k \in Claimed'
    <3>1. CASE k \in batch[c]
      <4>1. c \in InHand(k)
        BY <3>1 DEF InHand
      <4>2. /\ InHand(k) = {c} /\ Sending(k) = {} /\ Travelling(k) = {} /\ Handling(k) = {}
            /\ k \in Claimed \ lost
        BY <1>a, <4>1, SoleOwner
      <4>3. InHand(k)' = {}
        BY <1>b, <2>1, <4>2 DEF InHand
      <4>4. Unowned(k)'
        BY <2>1, <4>2, <4>3, OwnersUntouched DEF Unowned
      <4> QED
        BY <2>1, <2>2, <3>1, <4>2, <4>4
    <3>2. CASE k \notin batch[c]
      <4>1. InHand(k)' = InHand(k)
        BY <1>b, <2>1, <3>2, InHandMoves
      <4> QED
        BY <1>a, <2>1, <2>2, <3>2, <4>1, OwnerStays, OwnersUntouched
    <3> QED
      BY <3>1, <3>2
  <2> QED
    BY <2>3 DEF OwnersAfter
<1>3. ASSUME NEW m \in Messages, NEW verb \in {"ack", "nack"}, SettleOne(c, m, verb)
      PROVE  OwnersAfter
  <2>1. /\ m \in batch[c] /\ loop[c].msg = Null
        /\ UNCHANGED <<loop, serve, pipe, handlers>>
        /\ \A d \in Consumers : d # c => batch'[d] = batch[d]
        /\ batch'[c] = batch[c] \ {m}
    BY <1>3, <1>b DEF SettleOne, At, server
  <2>2. /\ InHand(m) = {c} /\ Sending(m) = {} /\ Travelling(m) = {} /\ Handling(m) = {}
        /\ m \in Claimed \ lost
    <3>1. c \in InHand(m)
      BY <2>1 DEF InHand
    <3> QED
      BY <1>a, <3>1, SoleOwner
  <2>3. \/ Claimed' = Claimed \ {m} /\ lost' = lost
        \/ Claimed' = Claimed /\ lost' = lost \cup {m}
    <3>1. CASE row' = [row EXCEPT ![m] = Settled(@, verb)] /\ lost' = lost
      <4>1. Settled(row[m], verb).status # "claimed"
        BY <1>a, SettledType DEF ConsumerTypeOK
      <4> QED
        BY <1>b, <3>1, <4>1 DEF Claimed
    <3>2. CASE lost' = lost \cup {m} /\ row' = row
      BY <3>2, OwnersUntouched
    <3> QED
      BY <1>3, <3>1, <3>2 DEF SettleOne
  <2>4. InHand(m)' = {}
    BY <1>b, <2>1, <2>2 DEF InHand
  <2>5. Unowned(m)'
    BY <2>1, <2>2, <2>4, OwnersUntouched DEF Unowned
  <2>6. ASSUME NEW k \in Messages, k # m
        PROVE  IF k \in Claimed' /\ k \notin lost' THEN Owned(k)' ELSE Unowned(k)'
    <3>1. InHand(k)' = InHand(k)
      BY <2>1, <2>6, InHandMoves
    <3>2. k \in (Claimed \ lost)' <=> k \in Claimed \ lost
      BY <2>3, <2>6
    <3> QED
      BY <1>a, <2>1, <3>1, <3>2, OwnerStays, OwnersUntouched
  <2> QED
    BY <1>a, <2>2, <2>3, <2>5, <2>6 DEF OwnersAfter
<1>4. CASE CallFails(c) \/ Wake(c) \/ CtxDone(c) \/ Cancel(c)
  <2>1. UNCHANGED <<row, lost, serve, pipe, handlers, batch>>
    BY <1>4 DEF CallFails, Wake, CtxDone, Cancel, server
  <2>2. \A d \in Consumers : loop'[d].msg = loop[d].msg
    BY <1>4, <1>b DEF CallFails, Wake, CtxDone, Cancel, Goto, At
  <2>3. \A k \in Messages : InHand(k)' = InHand(k)
    BY <2>1, <2>2 DEF InHand
  <2> QED
    BY <1>a, <2>1, <2>3, OwnerStays, OwnersUntouched DEF OwnersAfter
<1>5. CASE Crash(c)
  <2> DEFINE onTheWay == IF streamOf[c] = Null THEN {} ELSE ToSet(pipe[streamOf[c]])
             inHand == {k \in Messages : loop[c].msg = k \/ k \in batch[c]}
             handled == {k \in Messages : \E h \in handlers[c] : h.msg = k}
  <2>1. /\ UNCHANGED <<row, serve>>
        /\ \A d \in Consumers : d # c => /\ loop'[d].msg = loop[d].msg /\ batch'[d] = batch[d]
                                         /\ handlers'[d] = handlers[d]
        /\ loop'[c].msg = Null /\ batch'[c] = {} /\ handlers'[c] = {}
        /\ \A t \in Streams : pipe'[t] = IF t = streamOf[c] THEN <<>> ELSE pipe[t]
    BY <1>5, <1>b DEF Crash, Goto, At
  <2>2. \A k \in Messages : k \in lost' <=> \/ k \in lost \/ k \in onTheWay
                                            \/ k \in inHand \/ k \in handled
    BY <1>5, <1>b DEF Crash
  <2>3. Claimed' = Claimed
    BY <2>1, OwnersUntouched
  <2>4. ASSUME NEW k \in Messages
        PROVE  /\ k \in onTheWay => streamOf[c] \in Streams /\ streamOf[c] \in Travelling(k)
               /\ k \in inHand <=> c \in InHand(k)
               /\ k \in handled => \E h \in Handler : <<c, h>> \in Handling(k)
    <3>1. k \in handled => \E h \in Handler : <<c, h>> \in Handling(k)
      BY <1>b DEF Handling
    <3> QED
      BY <1>b, <3>1 DEF Travelling, InHand
  <2>5. ASSUME NEW k \in Messages
        PROVE  /\ Travelling(k)' = Travelling(k) \ {streamOf[c]}
               /\ InHand(k)' = InHand(k) \ {c}
               /\ Handling(k)' = {p \in Handling(k) : p[1] # c}
    <3>1. Travelling(k)' = Travelling(k) \ {streamOf[c]}
      BY <2>1, ToSetEmpty DEF Travelling
    <3>2. InHand(k)' = InHand(k) \ {c}
      BY <1>b, <2>1 DEF InHand
    <3>3. Handling(k)' = {p \in Handling(k) : p[1] # c}
      BY <2>1 DEF Handling
    <3> QED
      BY <3>1, <3>2, <3>3
  <2> HIDE DEF onTheWay, inHand, handled
  <2>6. ASSUME NEW k \in Messages
        PROVE  /\ IF k \in Claimed' /\ k \notin lost' THEN Owned(k)' ELSE Unowned(k)'
               /\ k \in lost' => k \in Claimed'
    <3>0. Sending(k)' = Sending(k)
      BY <2>1, OwnersUntouched
    <3>1. CASE k \in onTheWay
      <4>1. /\ Travelling(k) = {streamOf[c]} /\ Sending(k) = {} /\ InHand(k) = {}
            /\ Handling(k) = {} /\ k \in Claimed \ lost
        BY <1>a, <2>4, <3>1, SoleOwner
      <4>2. Unowned(k)'
        BY <2>5, <3>0, <4>1 DEF Unowned
      <4> QED
        BY <2>2, <2>3, <3>1, <4>1, <4>2
    <3>2. CASE k \in inHand
      <4>1. /\ InHand(k) = {c} /\ Sending(k) = {} /\ Travelling(k) = {}
            /\ Handling(k) = {} /\ k \in Claimed \ lost
        BY <1>a, <2>4, <3>2, SoleOwner
      <4>2. Unowned(k)'
        BY <2>5, <3>0, <4>1 DEF Unowned
      <4> QED
        BY <2>2, <2>3, <3>2, <4>1, <4>2
    <3>3. CASE k \in handled
      <4>1. PICK h \in Handler : <<c, h>> \in Handling(k)
        BY <2>4, <3>3
      <4>2. /\ Handling(k) = {<<c, h>>} /\ Sending(k) = {} /\ Travelling(k) = {}
            /\ InHand(k) = {} /\ k \in Claimed \ lost
        BY <1>a, <4>1, SoleOwner
      <4>3. Unowned(k)'
        BY <2>5, <3>0, <4>2 DEF Unowned
      <4> QED
        BY <2>2, <2>3, <3>3, <4>2, <4>3
    <3>4. CASE k \notin onTheWay /\ k \notin inHand /\ k \notin handled
      <4>1. InHand(k)' = InHand(k)
        BY <2>4, <2>5, <3>4
      <4>2. Travelling(k)' = Travelling(k)
        <5>1. streamOf[c] \notin Travelling(k)
          BY <1>b, <3>4, ConsumerConstants DEF onTheWay, Travelling
        <5> QED
          BY <2>5, <5>1
      <4>3. Handling(k)' = Handling(k)
        <5>1. \A p \in Handling(k) : p[1] # c
          BY <3>4 DEF handled, Handling
        <5> QED
          BY <2>5, <5>1
      <4> QED
        BY <1>a, <2>2, <2>3, <3>0, <3>4, <4>1, <4>2, <4>3, OwnerStays
    <3> QED
      BY <3>1, <3>2, <3>3, <3>4
  <2> QED
    BY <2>6 DEF OwnersAfter
<1> QED
  BY <1>1, <1>2, <1>3, <1>4, <1>5

LEMMA OwnerInvInit == Init => OwnerInv
<1>1. SUFFICES ASSUME Init
               PROVE  OwnerInv
  OBVIOUS
<1>2. ConsumerTypeOK
  BY <1>1, ConsumerTypesInit
<1>3. StreamsInOrder
  BY <1>1 DEF Init, StreamsInOrder
<1>4. CallsInOrder
  BY <1>1 DEF Init, CallsInOrder, At
<1>5. Claimed = {} /\ lost = {}
  BY <1>1 DEF Init, Claimed
<1>6. ASSUME NEW m \in Messages
      PROVE  Unowned(m)
  <2>1. Sending(m) = {} /\ InHand(m) = {}
    BY <1>1, ConsumerConstants DEF Init, Sending, InHand, Unserved, At
  <2>2. Travelling(m) = {}
    BY <1>1, ToSetEmpty DEF Init, Travelling
  <2>3. Handling(m) = {}
    BY <1>1 DEF Init, Handling
  <2> QED
    BY <2>1, <2>2, <2>3 DEF Unowned
<1> QED
  BY <1>2, <1>3, <1>4, <1>5, <1>6 DEF OwnerInv, OwnedOnce

LEMMA OwnerInvNext == OwnerInv /\ [Next]_vars => OwnerInv'
<1>1. SUFFICES ASSUME OwnerInv, [Next]_vars
               PROVE  OwnerInv'
  OBVIOUS
<1>2. ConsumerTypeOK' /\ CallsInOrder' /\ StreamsInOrder'
  BY <1>1, ConsumerTypesNext, CallsStayInOrder, StreamsStayInOrder DEF OwnerInv
<1>3. OwnersAfter
  <2>1. CASE UNCHANGED vars
    <3>1. OwnedOnce /\ lost \subseteq Claimed
      BY <1>1 DEF OwnerInv
    <3> QED
      BY <2>1, <3>1, OwnerStays, OwnersUntouched DEF vars, OwnersAfter
  <2>2. CASE Next
    <3>1. ASSUME NEW s \in Streams,
                 Take(s) \/ TakeFails(s) \/ Send(s) \/ Leave(s) \/ Cut(s) \/ Notice(s)
          PROVE  OwnersAfter
      BY <1>1, <3>1, ServerKeepsOwners
    <3>2. ASSUME NEW c \in Streaming,
                 \/ Subscribe(c) \/ Recv(c) \/ RecvError(c) \/ Dispatch(c)
                 \/ \E h \in handlers[c] : HandlerEnds(c, h) \/ SettleCall(c, h)
          PROVE  OwnersAfter
      BY <1>1, <3>2, ConsumeKeepsOwners
    <3>3. ASSUME NEW c \in Consumers,
                 \/ BatchDequeue(c) \/ BatchEnds(c)
                 \/ \E m \in Messages, verb \in {"ack", "nack"} : SettleOne(c, m, verb)
                 \/ CallFails(c) \/ Wake(c) \/ CtxDone(c) \/ Cancel(c) \/ Crash(c)
          PROVE  OwnersAfter
      BY <1>1, <3>3, CallKeepsOwners
    <3>4. Polling \subseteq Consumers
      BY DEF Consumers
    <3> QED
      BY <2>2, <3>1, <3>2, <3>3, <3>4 DEF Next
  <2> QED
    BY <1>1, <2>1, <2>2
<1>4. OwnedOnce' /\ (lost \subseteq Claimed)'
  <2>1. lost' \subseteq Messages
    BY <1>2 DEF ConsumerTypeOK
  <2> QED
    BY <1>3, <2>1 DEF OwnersAfter, OwnedOnce
<1> QED
  BY <1>2, <1>4 DEF OwnerInv

\* Without counting: one owner is a sum of one, none a sum of zero.
LEMMA OwnersCounted == OwnerInv => ClaimHasOneOwner
<1>1. SUFFICES ASSUME OwnerInv, NEW m \in Messages
               PROVE  Cardinality(Sending(m)) + Cardinality(Travelling(m))
                        + Cardinality(InHand(m)) + Cardinality(Handling(m))
                      = IF m \in Claimed /\ m \notin lost THEN 1 ELSE 0
  BY DEF ClaimHasOneOwner
<1> DEFINE S == Sending(m)
           T == Travelling(m)
           H == InHand(m)
           G == Handling(m)
<1>2. IF m \in Claimed /\ m \notin lost THEN OneOf(S, T, H, G)
      ELSE S = {} /\ T = {} /\ H = {} /\ G = {}
  BY <1>1 DEF OwnerInv, OwnedOnce, Owned, Unowned
<1> HIDE DEF S, T, H, G
<1>3. Cardinality({}) = 0 /\ \A x : Cardinality({x}) = 1
  BY FS_EmptySet, FS_Singleton
<1>4. ASSUME OneOf(S, T, H, G)
      PROVE  Cardinality(S) + Cardinality(T) + Cardinality(H) + Cardinality(G) = 1
  <2>1. CASE (\E x : S = {x}) /\ T = {} /\ H = {} /\ G = {}
    <3>1. Cardinality(S) = 1
      BY <1>3, <2>1, Zenon
    <3> QED
      BY <1>3, <2>1, <3>1
  <2>2. CASE (\E x : T = {x}) /\ S = {} /\ H = {} /\ G = {}
    <3>1. Cardinality(T) = 1
      BY <1>3, <2>2, Zenon
    <3> QED
      BY <1>3, <2>2, <3>1
  <2>3. CASE (\E x : H = {x}) /\ S = {} /\ T = {} /\ G = {}
    <3>1. Cardinality(H) = 1
      BY <1>3, <2>3, Zenon
    <3> QED
      BY <1>3, <2>3, <3>1
  <2>4. CASE (\E x : G = {x}) /\ S = {} /\ T = {} /\ H = {}
    <3>1. Cardinality(G) = 1
      BY <1>3, <2>4, Zenon
    <3> QED
      BY <1>3, <2>4, <3>1
  <2> QED
    BY <1>4, <2>1, <2>2, <2>3, <2>4, Zenon DEF OneOf
<1>5. Cardinality(S) + Cardinality(T) + Cardinality(H) + Cardinality(G)
        = IF m \in Claimed /\ m \notin lost THEN 1 ELSE 0
  BY <1>2, <1>3, <1>4
<1> QED
  BY <1>5 DEF S, T, H, G

\* However streams break, windows and slots fill, calls fail and consumers stop
\* or crash, a claimed message is with exactly one of a Subscribe call, a
\* stream, a consumer or a handler, unless a failure let go of it: none is
\* forgotten without one, and none is handled twice at a time.
THEOREM ClaimHasOneOwnerHolds == Spec => []ClaimHasOneOwner
<1>1. Spec => []OwnerInv
  BY OwnerInvInit, OwnerInvNext, PTL DEF Spec
<1> QED
  BY <1>1, OwnersCounted, PTL

=============================================================================
