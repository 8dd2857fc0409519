--------------------------- MODULE ConsumerGroups ---------------------------
(***************************************************************************)
(* Consumer groups: the message_deliveries table, the trigger that mints a *)
(* delivery per registered group for every inserted message, the foreign   *)
(* key that deletes them with it, and the group variants of dequeue, ack   *)
(* and nack.  The message table underneath is MessageQueue, all of whose   *)
(* actions run unchanged beside these.                                     *)
(*                                                                         *)
(* A registration, its end and a group's ack are transactions of several   *)
(* statements under READ COMMITTED, so each is two actions here: the       *)
(* statements that read, whose writes nobody else sees yet and whose rows  *)
(* stay locked, and the commit that publishes them.  Enqueues, claims and  *)
(* other transactions run in between.  The order in which the statements   *)
(* of one transaction take their locks, and the deadlocks this leads to,   *)
(* are the subject of GroupTransactions.                                   *)
(***************************************************************************)
EXTENDS MessageQueue

CONSTANTS
    Groups,         \* names of consumer groups
    Members,        \* client processes that dequeue for a group
    GroupsMayLeave  \* whether a group may be unregistered

DeliveryStatus == {"pending", "processing", "failed"}

Delivery ==
    [status     : DeliveryStatus,
     retry      : Nat,
     maxRetries : Nat,
     vis        : Clock]

\* A registration between its statements and its commit: the rows its backfill
\* has inserted; or the end of one: the rows it has deleted.
Change ==
    [joins : BOOLEAN,
     rows  : [Ids -> Delivery \cup {Null}]]

\* An AckForGroup between its COUNT and its commit: whose call it is, whether no
\* other delivery was counted, and the columns its SELECT has read.
OpenAck ==
    [by   : Members,
     last : BOOLEAN,
     row  : Row]

ASSUME GroupAssumption ==
    /\ GroupsMayLeave \in BOOLEAN
    /\ Null \notin Delivery \cup Change \cup OpenAck

VARIABLES
    groups,      \* the consumer_groups table: registered <<topic, group>> pairs
    deliveries,  \* the message_deliveries table, by message and group
    change,      \* open transactions that register or unregister, by topic and group
    acking,      \* open AckForGroup transactions, by message and group
    gheld,       \* the deliveries each member has received and not settled
    got,         \* history: the last payload each group received of a message
    raced,       \* history: the groups whose registration, or its end, overlapped
                 \* the INSERT of the message or a last ack of it
    crossed      \* history: messages of which two groups' acks have overlapped

groupVars == <<groups, deliveries, change, acking, gheld, got, raced, crossed>>
allVars == <<messages, nextId, log, acks, config, seen, request, held,
             groups, deliveries, change, acking, gheld, got, raced, crossed>>

NoDeliveries == [g \in Groups |-> Null]

\* A delivery as the trigger and the backfill insert it.
Minted(r) ==
    [status |-> "pending", retry |-> 0, maxRetries |-> r.maxRetries, vis |-> "null"]

\* fn_mint_deliveries: one delivery for each group registered on the row's topic.
MintDeliveries(r) ==
    [g \in Groups |-> IF <<r.topic, g>> \in groups THEN Minted(r) ELSE Null]

\* The delivery row of m for g is locked by a transaction that has not committed.
Locked(m, g) ==
    \/ acking[m][g] # Null
    \/ \E t \in KnownTopic : change[t][g] # Null /\ change[t][g].rows[m] # Null

\* What a change of the messages table does to message_deliveries: the trigger
\* runs for inserted rows only and sees the groups committed by then; ON DELETE
\* CASCADE waits for the locks on the deliveries of deleted ones.
Cascade ==
    /\ \A m \in Ids :
          messages[m] # Null /\ messages'[m] = Null => \A g \in Groups : ~Locked(m, g)
    /\ deliveries' = [m \in Ids |->
          IF messages'[m] = Null THEN NoDeliveries
          ELSE IF messages[m] = Null THEN MintDeliveries(messages'[m])
          ELSE deliveries[m]]

\* The groups that are joining or leaving the topic while m is inserted into it.
RacingInsert(m) ==
    {g \in Groups :
        /\ messages[m] = Null /\ messages'[m] # Null
        /\ \E t \in KnownTopic : messages'[m].topic = t /\ change[t][g] # Null}

GInit ==
    /\ Init
    /\ groups = {}
    /\ deliveries = [m \in Ids |-> NoDeliveries]
    /\ change = [t \in KnownTopic |-> [g \in Groups |-> Null]]
    /\ acking = [m \in Ids |-> NoDeliveries]
    /\ gheld = [c \in Members |-> {}]
    /\ got = [m \in Ids |-> NoDeliveries]
    /\ raced = [m \in Ids |-> {}]
    /\ crossed = {}

\* A step of the message table.
MessageStep ==
    /\ Next
    /\ Cascade
    /\ raced' = [m \in Ids |-> raced[m] \cup RacingInsert(m)]
    /\ UNCHANGED <<groups, change, acking, gheld, got, crossed>>

-----------------------------------------------------------------------------
(* Registration *)

\* The transaction that changes the registration of g on t has run its statements.
Open(t, g, joins, rows) ==
    /\ change[t][g] = Null
    /\ change' = [change EXCEPT ![t][g] = [joins |-> joins, rows |-> rows]]
    /\ UNCHANGED <<vars, groups, deliveries, acking, gheld, got, raced, crossed>>

\* Seeded fault: no backfill.
RegisterWithoutBackfill(t, g) ==
    /\ <<t, g>> \notin groups
    /\ Open(t, g, TRUE, [m \in Ids |-> Null])

\* INSERT of the group, and the backfill: a delivery for every message of the topic
\* that is pending by now.  A second registration waits for the first and is
\* refused; the backfill waits for whoever has locked a delivery it would insert.
RegisterConsumerGroup(t, g) ==
    /\ RequireRegistration => \E cfg \in GetTopicConfig(t) : cfg # Null
    /\ <<t, g>> \notin groups
    /\ \A m \in Ids : InStatus(m, {"pending"}) /\ messages[m].topic = t => ~Locked(m, g)
    /\ Open(t, g, TRUE, [m \in Ids |->
           IF /\ InStatus(m, {"pending"})
              /\ messages[m].topic = t
              /\ deliveries[m][g] = Null
           THEN Minted(messages[m])
           ELSE Null])

\* Seeded fault: the deliveries of the group stay.
UnregisterKeepsDeliveries(t, g) ==
    /\ GroupsMayLeave
    /\ <<t, g>> \in groups
    /\ Open(t, g, FALSE, [m \in Ids |-> Null])

\* DELETE of the group, and of its deliveries of the messages that are in the topic
\* by now, each under its row lock.
UnregisterConsumerGroup(t, g) ==
    /\ GroupsMayLeave
    /\ <<t, g>> \in groups
    /\ \A m \in Live : messages[m].topic = t => ~Locked(m, g)
    /\ Open(t, g, FALSE, [m \in Ids |->
           IF messages[m] # Null /\ messages[m].topic = t THEN deliveries[m][g] ELSE Null])

\* The registration has backfilled m, of which an open ack has counted no delivery.
RacingAck(t, g, m) ==
    /\ change[t][g].joins /\ change[t][g].rows[m] # Null
    /\ \E h \in Groups : acking[m][h] # Null /\ acking[m][h].last

\* The commit of either.
CommitChange(t, g) ==
    /\ change[t][g] # Null
    /\ groups' = IF change[t][g].joins THEN groups \cup {<<t, g>>} ELSE groups \ {<<t, g>>}
    /\ deliveries' = [m \in Ids |->
           IF change[t][g].rows[m] = Null THEN deliveries[m]
           ELSE [deliveries[m] EXCEPT ![g] =
                    IF change[t][g].joins THEN change[t][g].rows[m] ELSE Null]]
    /\ change' = [change EXCEPT ![t][g] = Null]
    /\ raced' = [m \in Ids |-> IF RacingAck(t, g, m) THEN raced[m] \cup {g} ELSE raced[m]]
    /\ UNCHANGED <<vars, acking, gheld, got, crossed>>

-----------------------------------------------------------------------------
(* Dequeue, ack and nack for a group *)

HasDelivery(m, g, S) == deliveries[m][g] # Null /\ deliveries[m][g].status \in S

\* The WHERE clause of the group dequeues.  The message's own status is not asked.
ClaimableFor(t, g) ==
    {m \in Live : /\ messages[m].topic = t
                  /\ HasDelivery(m, g, {"pending"})
                  /\ ~Locked(m, g)
                  /\ deliveries[m][g].vis # "running"
                  /\ messages[m].ttl # "elapsed"
                  /\ \/ deliveries[m][g].maxRetries = 0
                     \/ deliveries[m][g].retry < deliveries[m][g].maxRetries}

ClaimFor(c, g, S) ==
    /\ deliveries' = [m \in Ids |->
           IF m \in S
           THEN [deliveries[m] EXCEPT ![g].status = "processing", ![g].vis = "running"]
           ELSE deliveries[m]]
    /\ gheld' = [gheld EXCEPT ![c] = @ \cup {<<m, g>> : m \in S}]
    /\ got' = [m \in Ids |->
           IF m \in S THEN [got[m] EXCEPT ![g] = messages[m].payload] ELSE got[m]]
    /\ UNCHANGED <<vars, groups, change, acking, raced, crossed>>

DequeueForGroup(c, t, g) ==
    \E locked \in SUBSET ClaimableFor(t, g) :
        \E m \in ClaimableFor(t, g) \ locked :
            /\ \A n \in ClaimableFor(t, g) \ locked : m <= n
            /\ ClaimFor(c, g, {m})

\* Unlike DequeueN, the group batch does not exclude DLQ topics.
DequeueNForGroup(c, t, g, n) ==
    \E locked \in SUBSET ClaimableFor(t, g) :
        \E S \in SUBSET (ClaimableFor(t, g) \ locked) :
            /\ S # {}
            /\ Cardinality(S) <= n
            /\ Cardinality(S) = n \/ S = ClaimableFor(t, g) \ locked
            /\ \A m \in S, o \in (ClaimableFor(t, g) \ locked) \ S : m < o
            /\ ClaimFor(c, g, S)

SettleFor(c, m, g) == gheld' = [gheld EXCEPT ![c] = @ \ {<<m, g>>}]

\* Seeded fault: the count runs before the delete and includes the own delivery.
CountBeforeDelete(m, g) == \A h \in Groups : deliveries[m][h] = Null

\* Seeded fault: the first ack counts as the last.
AnyDelivery(m, g) == TRUE

LastDelivery(m, g) == \A h \in Groups \ {g} : deliveries[m][h] = Null

\* SELECT ... FOR UPDATE of the delivery, its DELETE and the COUNT of the rows that
\* are left.  Rows that another open ack has deleted still count.
AckForGroup(c, m, g) ==
    /\ <<m, g>> \in gheld[c]
    /\ ~Locked(m, g)
    /\ HasDelivery(m, g, {"processing"})
    /\ acking' = [acking EXCEPT ![m][g] =
           [by   |-> c,
            last |-> LastDelivery(m, g),
            row  |-> [messages[m] EXCEPT !.maxRetries = deliveries[m][g].maxRetries]]]
    /\ crossed' = IF \E h \in Groups : acking[m][h] # Null THEN crossed \cup {m} ELSE crossed
    /\ UNCHANGED <<vars, groups, deliveries, change, gheld, got, raced>>

\* Seeded fault: the delete is not restricted to the group.
AckForEveryGroup(m, g) ==
    /\ acking[m][g] # Null
    /\ deliveries' = [deliveries EXCEPT ![m] = NoDeliveries]
    /\ acking' = [acking EXCEPT ![m][g] = Null]
    /\ SettleFor(acking[m][g].by, m, g)
    /\ UNCHANGED <<vars, groups, change, got, raced, crossed>>

\* The rest of the ack.  With no delivery counted the message is archived as it was
\* read and deleted, and the cascade takes what deliveries there are by now.
CommitAck(m, g) ==
    /\ acking[m][g] # Null
    /\ IF acking[m][g].last
       THEN /\ \A h \in Groups \ {g} : ~Locked(m, h)
            /\ IF Replayable(acking[m][g].row.topic)
               THEN /\ log' = [log EXCEPT ![m] = Archived(acking[m][g].row, acks + 1)]
                    /\ acks' = acks + 1
               ELSE UNCHANGED <<log, acks>>
            /\ messages' = [messages EXCEPT ![m] = Null]
            /\ deliveries' = [deliveries EXCEPT ![m] = NoDeliveries]
       ELSE /\ deliveries' = [deliveries EXCEPT ![m][g] = Null]
            /\ UNCHANGED <<messages, log, acks>>
    /\ acking' = [acking EXCEPT ![m][g] = Null]
    /\ SettleFor(acking[m][g].by, m, g)
    /\ UNCHANGED <<nextId, config, seen, request, held, groups, change, got, raced, crossed>>

\* Seeded fault: the retry boundary is off by one.
NackedOnceMore(d, threshold) ==
    [d EXCEPT !.status = IF d.retry + 1 > d.maxRetries THEN "failed" ELSE "pending",
              !.retry  = @ + 1,
              !.vis    = "null"]

\* At the threshold the delivery fails where it is: groups have no DLQ.
NackedDelivery(d, threshold) ==
    LET next == d.retry + 1 IN
    IF threshold > 0 /\ next >= threshold
    THEN [d EXCEPT !.status = "failed", !.retry = next]
    ELSE [d EXCEPT !.status = IF d.maxRetries > 0 /\ next >= d.maxRetries
                              THEN "failed" ELSE "pending",
                   !.retry  = next,
                   !.vis    = "null"]

NackForGroup(c, m, g) ==
    /\ <<m, g>> \in gheld[c]
    /\ ~Locked(m, g)
    /\ HasDelivery(m, g, {"processing"})
    /\ \E cfg \in GetTopicConfig(messages[m].topic) \cup {Null} :
           deliveries' = [deliveries EXCEPT ![m][g] =
               NackedDelivery(@, effectiveDLQThreshold(cfg))]
    /\ SettleFor(c, m, g)
    /\ UNCHANGED <<vars, groups, change, acking, got, raced, crossed>>

\* ErrNotFound or ErrNotProcessing: the client lets go of the delivery.
SettleForRejected(c, m, g) ==
    /\ <<m, g>> \in gheld[c]
    /\ ~Locked(m, g)
    /\ ~HasDelivery(m, g, {"processing"})
    /\ SettleFor(c, m, g)
    /\ UNCHANGED <<vars, groups, deliveries, change, acking, got, raced, crossed>>

DeliveryVisibilityElapses(m, g) ==
    /\ deliveries[m][g] # Null
    /\ deliveries[m][g].vis = "running"
    /\ deliveries' = [deliveries EXCEPT ![m][g].vis = "elapsed"]
    /\ UNCHANGED <<vars, groups, change, acking, gheld, got, raced, crossed>>

-----------------------------------------------------------------------------
GNext ==
    \/ MessageStep
    \/ \E t \in KnownTopic, g \in Groups :
          \/ RegisterConsumerGroup(t, g)
          \/ UnregisterConsumerGroup(t, g)
          \/ CommitChange(t, g)
    \/ \E m \in Ids, g \in Groups : DeliveryVisibilityElapses(m, g) \/ CommitAck(m, g)
    \/ \E c \in Members, g \in Groups :
          \/ \E t \in KnownTopic : DequeueForGroup(c, t, g)
          \/ \E t \in KnownTopic, n \in Ids : DequeueNForGroup(c, t, g, n)
          \/ \E m \in Ids : \/ AckForGroup(c, m, g)
                            \/ NackForGroup(c, m, g)
                            \/ SettleForRejected(c, m, g)

GSpec == GInit /\ [][GNext]_allVars

\* Group members keep polling the topics and settle what they receive, transactions
\* are carried to their end, and the expiry reaper keeps ticking.
GFairness ==
    /\ \A c \in Members, g \in Groups :
          /\ \A t \in KnownTopic : WF_allVars(DequeueForGroup(c, t, g))
          /\ WF_allVars(\E m \in Ids : \/ AckForGroup(c, m, g)
                                       \/ NackForGroup(c, m, g)
                                       \/ SettleForRejected(c, m, g))
    /\ \A t \in KnownTopic, g \in Groups : WF_allVars(CommitChange(t, g))
    /\ \A m \in Ids, g \in Groups : WF_allVars(CommitAck(m, g))
    /\ WF_allVars(/\ RunExpiryReaper /\ Cascade
                  /\ UNCHANGED <<groups, change, acking, gheld, got, raced, crossed>>)

GFairSpec == GSpec /\ GFairness

-----------------------------------------------------------------------------
(* Properties *)

\* The group tables hold values of their column types.
GTypeOK ==
    /\ TypeOK
    /\ groups \subseteq Topic \X Groups
    /\ deliveries \in [Ids -> [Groups -> Delivery \cup {Null}]]
    /\ change \in [KnownTopic -> [Groups -> Change \cup {Null}]]
    /\ acking \in [Ids -> [Groups -> OpenAck \cup {Null}]]
    /\ gheld \in [Members -> SUBSET (Ids \X Groups)]
    /\ got \in [Ids -> [Groups -> Payloads \cup {Null}]]
    /\ raced \in [Ids -> SUBSET Groups]
    /\ crossed \subseteq Ids

\* A delivery belongs to a group registered on its message's topic, or its message
\* was inserted while the group was leaving: the DELETE of UnregisterConsumerGroup
\* did not see it (there is no foreign key to consumer_groups).
NoGhostDelivery ==
    \A m \in Live, g \in Groups :
        deliveries[m][g] # Null /\ g \notin raced[m]
        => <<messages[m].topic, g>> \in groups

\* A registered group either still has a delivery row for a message of its topic or
\* has received the payload the pending message carries now, or the message was
\* inserted while the group was joining: neither the trigger nor the backfill saw
\* the other.  No other interleaving lets a group miss a message.
GroupMissesNothing ==
    \A m \in Live, g \in Groups :
        /\ messages[m].status = "pending"
        /\ <<messages[m].topic, g>> \in groups
        /\ deliveries[m][g] = Null
        /\ g \notin raced[m]
        => got[m][g] = messages[m].payload

\* A pending message of a topic that has groups waits for at least one of them, and
\* is gone after the last ack: only two acks that overlapped, each counting the
\* other's row, leave it behind (AckForGroup).
NoServedRemnant ==
    \A m \in Live \ crossed :
        /\ messages[m].status = "pending"
        /\ \E g \in Groups : <<messages[m].topic, g>> \in groups /\ g \notin raced[m]
        => \E g \in Groups : deliveries[m][g] # Null

\* Acknowledging or failing a message for one group leaves the other groups'
\* deliveries as they are; only the end of the message itself ends them.
GroupIndependence ==
    [][\A m \in Ids, g, h \in Groups :
          /\ g # h
          /\ HasDelivery(m, g, {"processing"}) /\ ~HasDelivery(m, g, {"processing"})'
          /\ messages'[m] # Null
          => deliveries'[m][h] = deliveries[m][h]]_allVars

\* The acknowledgement that archives a message takes no other group's delivery with
\* it, except one backfilled by a registration that committed between the COUNT of
\* that ack and its DELETE (AckForGroup).
ArchivedWhenAllAcked ==
    [][\A m \in Ids :
          log[m] = Null /\ log'[m] # Null
          => Cardinality({g \in Groups :
                 deliveries[m][g] # Null /\ g \notin raced[m]}) <= 1]_allVars

\* Every delivery a group can take is eventually settled or gone.
DeliverySettles ==
    \A m \in Ids, g \in Groups :
        (HasDelivery(m, g, {"pending"}) /\ InStatus(m, Active))
        ~> (~HasDelivery(m, g, {"pending", "processing"}) \/ ~InStatus(m, Active))

=============================================================================
