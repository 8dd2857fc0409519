----------------------- MODULE ConsumerGroups_proofs -----------------------
(***************************************************************************)
(* Proofs about consumer groups over the message table.  What the message  *)
(* table itself does to its rows comes from MessageQueue_proofs (RowStep   *)
(* and LogStep); what is added here is the delivery rows beside them.      *)
(***************************************************************************)
EXTENDS ConsumerGroups, MessageQueue_proofs, FiniteSetTheorems

\* A delivery row belongs to a row of messages (the foreign key of migration 013).
Backed ==
    \A m \in Ids, g \in Groups : deliveries[m][g] # Null => messages[m] # Null

\* So does the row an open registration has inserted, or its end deleted; what a
\* registration inserts is pending.
RowsBacked ==
    \A t \in KnownTopic, g \in Groups, m \in Ids :
        change[t][g] # Null /\ change[t][g].rows[m] # Null =>
            /\ messages[m] # Null
            /\ change[t][g].joins => change[t][g].rows[m].status = "pending"

\* An open ack has locked a delivery that is being processed, and no open change of
\* the group's registration has the same row.
AckHolds ==
    \A m \in Ids, g \in Groups :
        acking[m][g] # Null =>
            /\ HasDelivery(m, g, {"processing"})
            /\ \A t \in KnownTopic : change[t][g] # Null => change[t][g].rows[m] = Null

GInv == GTypeOK /\ Backed /\ RowsBacked /\ AckHolds

\* No message ever changes its topic: nobody nacks a message as a whole, or no
\* nack promotes.
TopicsStay == Consumers = {} \/ (NoBudgetOverride /\ DlqThreshold = 0)

\* What keeps a message in its topic: it has never been dead-lettered, and either
\* nobody claims it as a whole or no override can reach a nack.
Plain ==
    /\ \A m \in Ids : messages[m] # Null => messages[m].original = Null
    /\ \A m \in Ids : log[m] # Null => log[m].original = Null
    /\ \A m \in Ids, g \in Groups : acking[m][g] # Null => acking[m][g].row.original = Null
    /\ Consumers = {} => \A m \in Ids : ~InStatus(m, {"processing"})
    /\ NoBudgetOverride =>
          \A t \in Topics : \A cfg \in seen[t] : cfg # Null => cfg.maxRetries = Null

\* A member that has a delivery in hand was given the payload the message carries.
Handed ==
    \A m \in Ids, g \in Groups :
        HasDelivery(m, g, {"processing"}) /\ messages[m] # Null
        => got[m][g] = messages[m].payload

-----------------------------------------------------------------------------
(* Types *)

\* What the trigger and the backfill insert is a delivery.
LEMMA MintedType ==
    ASSUME NEW r \in Row
    PROVE  Minted(r) \in Delivery /\ Minted(r) # Null
BY GroupAssumption DEF Minted, Delivery, DeliveryStatus, Clock, Row

\* So is what a nack of a group writes.
LEMMA NackedDeliveryType ==
    ASSUME NEW d \in Delivery, NEW threshold \in Nat
    PROVE  NackedDelivery(d, threshold) \in Delivery
<1> DEFINE status == IF d.maxRetries > 0 /\ d.retry + 1 >= d.maxRetries
                     THEN "failed" ELSE "pending"
<1>1. d.retry + 1 \in Nat /\ d.status \in DeliveryStatus /\ d.maxRetries \in Nat
  BY DEF Delivery
<1>2. status \in DeliveryStatus
  BY DEF DeliveryStatus
<1>3. [d EXCEPT !.status = "failed", !.retry = d.retry + 1] \in Delivery
  BY <1>1 DEF Delivery, DeliveryStatus
<1> HIDE DEF status
<1>4. [d EXCEPT !.status = status, !.retry = d.retry + 1, !.vis = "null"] \in Delivery
  BY <1>1, <1>2 DEF Delivery, Clock
<1> QED
  BY <1>3, <1>4 DEF NackedDelivery, status

\* A delivery row, and one with a column changed.
LEMMA DeliveryAt ==
    ASSUME GTypeOK, NEW m \in Ids, NEW g \in Groups, deliveries[m][g] # Null
    PROVE  /\ deliveries[m][g] \in Delivery
           /\ [deliveries[m][g] EXCEPT !.status = "processing", !.vis = "running"] \in Delivery
           /\ [deliveries[m][g] EXCEPT !.vis = "elapsed"] \in Delivery
<1>1. deliveries[m][g] \in Delivery
  BY DEF GTypeOK
<1>2. \A d \in Delivery :
          /\ [d EXCEPT !.status = "processing", !.vis = "running"] \in Delivery
          /\ [d EXCEPT !.vis = "elapsed"] \in Delivery
  BY DEF Delivery, DeliveryStatus, Clock
<1> QED
  BY <1>1, <1>2

\* Initially there are no groups and no deliveries.
LEMMA GTypeInit == GInit => GInv
<1> SUFFICES ASSUME GInit PROVE GInv
  OBVIOUS
<1>1. TypeOK
  BY TypeInit DEF GInit
<1> QED
  BY <1>1 DEF GInit, GInv, GTypeOK, Backed, RowsBacked, AckHolds, NoDeliveries

\* A step of the message table mints and cascades.
LEMMA MessageStepType ==
    ASSUME GInv, MessageStep
    PROVE  GInv'
<1>1. TypeOK'
  BY TypeNext DEF GInv, GTypeOK, MessageStep
<1>2. deliveries' = [m \in Ids |->
          IF messages'[m] = Null THEN NoDeliveries
          ELSE IF messages[m] = Null THEN MintDeliveries(messages'[m])
          ELSE deliveries[m]]
  BY DEF MessageStep, Cascade
<1>3. ASSUME NEW m \in Ids
      PROVE  deliveries'[m] \in [Groups -> Delivery \cup {Null}]
  <2>1. CASE messages'[m] = Null
    BY <1>2, <2>1 DEF NoDeliveries
  <2>2. CASE messages'[m] # Null /\ messages[m] = Null
    <3>1. messages'[m] \in Row
      BY <1>1, <2>2 DEF TypeOK
    <3>2. Minted(messages'[m]) \in Delivery
      BY <3>1, MintedType
    <3> QED
      BY <1>2, <2>2, <3>2 DEF MintDeliveries
  <2>3. CASE messages'[m] # Null /\ messages[m] # Null
    BY <1>2, <2>3 DEF GInv, GTypeOK
  <2> QED
    BY <2>1, <2>2, <2>3
<1>4. deliveries' \in [Ids -> [Groups -> Delivery \cup {Null}]]
  BY <1>2, <1>3
<1>5. Backed'
  <2> SUFFICES ASSUME NEW m \in Ids, NEW g \in Groups, deliveries'[m][g] # Null,
                      messages'[m] = Null
               PROVE  FALSE
    BY DEF Backed
  <2> QED
    BY <1>2 DEF NoDeliveries
<1>6. /\ groups' = groups /\ gheld' = gheld /\ got' = got
      /\ change' = change /\ acking' = acking /\ crossed' = crossed
      /\ raced' = [m \in Ids |-> raced[m] \cup RacingInsert(m)]
  BY DEF MessageStep
<1>7. ASSUME NEW m \in Ids, NEW g \in Groups, Locked(m, g), messages[m] # Null
      PROVE  messages'[m] # Null /\ deliveries'[m] = deliveries[m]
  BY <1>2, <1>7 DEF MessageStep, Cascade
<1>8. RowsBacked'
  BY <1>6, <1>7 DEF GInv, RowsBacked, Locked
<1>9. AckHolds'
  <2> SUFFICES ASSUME NEW m \in Ids, NEW g \in Groups, acking[m][g] # Null
               PROVE  HasDelivery(m, g, {"processing"})'
    BY <1>6 DEF GInv, AckHolds
  <2>1. HasDelivery(m, g, {"processing"}) /\ Locked(m, g)
    BY DEF GInv, AckHolds, Locked
  <2>2. messages[m] # Null
    BY <2>1 DEF GInv, Backed, HasDelivery
  <2> QED
    BY <1>7, <2>1, <2>2 DEF HasDelivery
<1>10. raced' \in [Ids -> SUBSET Groups]
  BY <1>6 DEF RacingInsert, GInv, GTypeOK
<1> QED
  BY <1>1, <1>4, <1>5, <1>6, <1>8, <1>9, <1>10 DEF GInv, GTypeOK

\* A step that leaves the message table alone and writes deliveries of messages
\* that are there.
LEMMA DeliveriesType ==
    ASSUME GInv, UNCHANGED vars,
           groups' \subseteq Topic \X Groups,
           deliveries' \in [Ids -> [Groups -> Delivery \cup {Null}]],
           gheld' \in [Members -> SUBSET (Ids \X Groups)],
           got' \in [Ids -> [Groups -> Payloads \cup {Null}]],
           change' = change, acking' = acking, raced' = raced, crossed' = crossed,
           \A m \in Ids, g \in Groups :
               /\ deliveries'[m][g] # Null => deliveries[m][g] # Null \/ messages[m] # Null
               /\ acking[m][g] # Null => HasDelivery(m, g, {"processing"})'
    PROVE  GInv'
<1>1. TypeOK'
  BY DEF GInv, GTypeOK, TypeOK, vars
<1>2. Backed' /\ RowsBacked' /\ AckHolds'
  BY DEF GInv, Backed, RowsBacked, AckHolds, vars
<1> QED
  BY <1>1, <1>2 DEF GInv, GTypeOK

\* The rows an open registration or its end has.
OpenedRows(t, g, joins, rows) ==
    /\ rows \in [Ids -> Delivery \cup {Null}]
    /\ \A m \in Ids : rows[m] # Null => messages[m] # Null /\ acking[m][g] = Null
    /\ \A m \in Ids : rows[m] # Null => messages[m].topic = t
    /\ joins => \A m \in Ids : rows[m] # Null => rows[m].status = "pending"

\* The statements of a registration and of its end leave what is committed alone.
OpenEffect(t, g, joins, rows) ==
    /\ change[t][g] = Null
    /\ change' = [change EXCEPT ![t][g] = [joins |-> joins, rows |-> rows]]
    /\ UNCHANGED <<vars, groups, deliveries, acking, gheld, got, raced, crossed>>

\* What a registration opens with.
LEMMA RegisterOpens ==
    ASSUME GInv, NEW t \in KnownTopic, NEW g \in Groups, RegisterConsumerGroup(t, g)
    PROVE  \E rows : /\ OpenedRows(t, g, TRUE, rows) /\ OpenEffect(t, g, TRUE, rows)
                     /\ \A m \in Ids : /\ InStatus(m, {"pending"})
                                       /\ messages[m].topic = t
                                       /\ deliveries[m][g] = Null
                                       => rows[m] # Null
<1> DEFINE rows == [m \in Ids |-> IF /\ InStatus(m, {"pending"})
                                    /\ messages[m].topic = t
                                    /\ deliveries[m][g] = Null
                                 THEN Minted(messages[m])
                                 ELSE Null]
<1>1. OpenEffect(t, g, TRUE, rows)
  BY DEF RegisterConsumerGroup, Open, OpenEffect
<1>2. ASSUME NEW m \in Ids
      PROVE  /\ rows[m] \in Delivery \cup {Null}
             /\ rows[m] # Null => /\ messages[m] # Null /\ acking[m][g] = Null
                                  /\ messages[m].topic = t /\ rows[m].status = "pending"
             /\ InStatus(m, {"pending"}) /\ messages[m].topic = t /\ deliveries[m][g] = Null
                => rows[m] # Null
  <2>1. InStatus(m, {"pending"}) => messages[m] # Null /\ messages[m] \in Row
    BY DEF InStatus, GInv, GTypeOK, TypeOK
  <2>2. InStatus(m, {"pending"}) => Minted(messages[m]) \in Delivery /\ Minted(messages[m]) # Null
    BY <2>1, MintedType
  <2>3. InStatus(m, {"pending"}) /\ messages[m].topic = t => acking[m][g] = Null
    BY DEF RegisterConsumerGroup, Locked
  <2>4. Minted(messages[m]).status = "pending"
    BY DEF Minted
  <2> QED
    BY <2>1, <2>2, <2>3, <2>4
<1>3. OpenedRows(t, g, TRUE, rows)
  BY <1>2 DEF OpenedRows
<1> HIDE DEF rows
<1> QED
  BY <1>1, <1>2, <1>3

\* What the end of a registration opens with.
LEMMA UnregisterOpens ==
    ASSUME GInv, NEW t \in KnownTopic, NEW g \in Groups, UnregisterConsumerGroup(t, g)
    PROVE  \E rows : /\ OpenedRows(t, g, FALSE, rows) /\ OpenEffect(t, g, FALSE, rows)
                     /\ GroupsMayLeave
                     /\ \A m \in Ids : /\ messages[m] # Null /\ messages[m].topic = t
                                       /\ deliveries[m][g] # Null
                                       => rows[m] # Null
<1> DEFINE rows == [m \in Ids |-> IF messages[m] # Null /\ messages[m].topic = t
                                 THEN deliveries[m][g] ELSE Null]
<1>1. OpenEffect(t, g, FALSE, rows) /\ GroupsMayLeave
  BY DEF UnregisterConsumerGroup, Open, OpenEffect
<1>2. ASSUME NEW m \in Ids
      PROVE  /\ rows[m] \in Delivery \cup {Null}
             /\ rows[m] # Null => /\ messages[m] # Null /\ acking[m][g] = Null
                                  /\ messages[m].topic = t
             /\ messages[m] # Null /\ messages[m].topic = t /\ deliveries[m][g] # Null
                => rows[m] # Null
  <2>1. deliveries[m][g] \in Delivery \cup {Null}
    BY DEF GInv, GTypeOK
  <2>2. messages[m] # Null /\ messages[m].topic = t => acking[m][g] = Null
    BY DEF UnregisterConsumerGroup, Locked, Live
  <2> QED
    BY <2>1, <2>2
<1>3. OpenedRows(t, g, FALSE, rows)
  BY <1>2 DEF OpenedRows
<1> HIDE DEF rows
<1> QED
  BY <1>1, <1>2, <1>3

\* Opening either keeps the types and the locks.
LEMMA OpenType ==
    ASSUME GInv, NEW t \in KnownTopic, NEW g \in Groups, NEW joins \in BOOLEAN, NEW rows,
           OpenedRows(t, g, joins, rows), OpenEffect(t, g, joins, rows)
    PROVE  /\ GInv'
           /\ change'[t][g] # Null
           /\ change'[t][g].joins = joins /\ change'[t][g].rows = rows
           /\ \A s \in KnownTopic, h \in Groups :
                 s # t \/ h # g => change'[s][h] = change[s][h]
<1> DEFINE c == [joins |-> joins, rows |-> rows]
<1>1. c \in Change /\ c # Null /\ c.joins = joins /\ c.rows = rows
  BY GroupAssumption DEF Change, OpenedRows
<1>2. change \in [KnownTopic -> [Groups -> Change \cup {Null}]]
  BY DEF GInv, GTypeOK
<1>3. change' = [change EXCEPT ![t][g] = c]
  BY DEF OpenEffect
<1> HIDE DEF c
<1>4. /\ change' \in [KnownTopic -> [Groups -> Change \cup {Null}]]
      /\ change'[t][g] = c
      /\ \A s \in KnownTopic, h \in Groups : s # t \/ h # g => change'[s][h] = change[s][h]
  BY <1>1, <1>2, <1>3
<1>5. UNCHANGED <<vars, groups, deliveries, acking, gheld, got, raced, crossed>>
  BY DEF OpenEffect
<1>6. TypeOK'
  BY <1>5 DEF GInv, GTypeOK, TypeOK, vars
<1>7. GTypeOK'
  BY <1>4, <1>5, <1>6 DEF GInv, GTypeOK
<1>8. messages' = messages
  BY <1>5 DEF vars
<1>9. \A m \in Ids : rows[m] # Null => /\ messages[m] # Null /\ acking[m][g] = Null
                                       /\ joins => rows[m].status = "pending"
  BY DEF OpenedRows
<1>10. Backed' /\ RowsBacked'
  BY <1>1, <1>4, <1>5, <1>8, <1>9 DEF GInv, Backed, RowsBacked
<1>11. AckHolds'
  BY <1>1, <1>4, <1>5, <1>9 DEF GInv, AckHolds, HasDelivery
<1> QED
  BY <1>1, <1>4, <1>7, <1>10, <1>11 DEF GInv

\* What the commit of either does to one delivery.
ChangeEffect(t, g) ==
    /\ change[t][g] # Null
    /\ groups' = IF change[t][g].joins THEN groups \cup {<<t, g>>} ELSE groups \ {<<t, g>>}
    /\ \A m \in Ids : change[t][g].rows[m] # Null =>
          /\ messages[m] # Null
          /\ IF change[t][g].joins
             THEN deliveries'[m][g] = change[t][g].rows[m]
             ELSE deliveries'[m][g] = Null
    /\ \A m \in Ids, h \in Groups :
          h # g \/ change[t][g].rows[m] = Null => deliveries'[m][h] = deliveries[m][h]
    /\ change'[t][g] = Null
    /\ \A s \in KnownTopic, h \in Groups : s # t \/ h # g => change'[s][h] = change[s][h]
    /\ \A m \in Ids : raced'[m] = IF RacingAck(t, g, m) THEN raced[m] \cup {g} ELSE raced[m]
    /\ UNCHANGED <<vars, acking, gheld, got, crossed>>

\* The commit of a registration or of its end.
LEMMA ChangeCommits ==
    ASSUME GInv, NEW t \in KnownTopic, NEW g \in Groups, CommitChange(t, g)
    PROVE  GInv' /\ ChangeEffect(t, g)
<1> DEFINE joins == change[t][g].joins
           rows == change[t][g].rows
<1>1. /\ change \in [KnownTopic -> [Groups -> Change \cup {Null}]]
      /\ deliveries \in [Ids -> [Groups -> Delivery \cup {Null}]]
  BY DEF GInv, GTypeOK
<1>2. /\ change[t][g] # Null
      /\ joins \in BOOLEAN /\ rows \in [Ids -> Delivery \cup {Null}]
  BY <1>1 DEF CommitChange, Change
<1>3. /\ deliveries' = [m \in Ids |->
             IF rows[m] = Null THEN deliveries[m]
             ELSE [deliveries[m] EXCEPT ![g] = IF joins THEN rows[m] ELSE Null]]
      /\ change' = [change EXCEPT ![t][g] = Null]
      /\ groups' = IF joins THEN groups \cup {<<t, g>>} ELSE groups \ {<<t, g>>}
      /\ raced' = [m \in Ids |-> IF RacingAck(t, g, m) THEN raced[m] \cup {g} ELSE raced[m]]
      /\ UNCHANGED <<vars, acking, gheld, got, crossed>>
  BY DEF CommitChange
<1> HIDE DEF joins, rows
<1>4. /\ change' \in [KnownTopic -> [Groups -> Change \cup {Null}]]
      /\ change'[t][g] = Null
      /\ \A s \in KnownTopic, h \in Groups : s # t \/ h # g => change'[s][h] = change[s][h]
  BY <1>1, <1>3
<1>5. ASSUME NEW m \in Ids
      PROVE  /\ deliveries'[m] \in [Groups -> Delivery \cup {Null}]
             /\ rows[m] # Null => IF joins THEN deliveries'[m][g] = rows[m]
                                  ELSE deliveries'[m][g] = Null
             /\ \A h \in Groups :
                   h # g \/ rows[m] = Null => deliveries'[m][h] = deliveries[m][h]
  BY <1>1, <1>2, <1>3
<1>6. deliveries' \in [Ids -> [Groups -> Delivery \cup {Null}]]
  BY <1>3, <1>5
<1>7. \A m \in Ids : rows[m] # Null => messages[m] # Null
  BY <1>2 DEF GInv, RowsBacked, rows
<1>8. ChangeEffect(t, g)
  BY <1>2, <1>3, <1>4, <1>5, <1>7 DEF ChangeEffect, joins, rows
<1>9. TypeOK' /\ messages' = messages
  BY <1>3 DEF GInv, GTypeOK, TypeOK, vars
<1>10. <<t, g>> \in Topic \X Groups
  BY TuningAssumption DEF KnownTopic, Topic
<1>11. groups' \subseteq Topic \X Groups /\ raced' \in [Ids -> SUBSET Groups]
  BY <1>3, <1>10 DEF GInv, GTypeOK
<1>12. GTypeOK'
  BY <1>3, <1>4, <1>6, <1>9, <1>11 DEF GInv, GTypeOK
<1>13. Backed' /\ RowsBacked'
  BY <1>4, <1>5, <1>7, <1>9 DEF GInv, Backed, RowsBacked
<1>14. AckHolds'
  <2> SUFFICES ASSUME NEW m \in Ids, NEW h \in Groups, acking[m][h] # Null
               PROVE  /\ HasDelivery(m, h, {"processing"})'
                      /\ \A s \in KnownTopic : change'[s][h] # Null => change'[s][h].rows[m] = Null
    BY <1>3 DEF AckHolds
  <2>1. /\ HasDelivery(m, h, {"processing"})
        /\ \A s \in KnownTopic : change[s][h] # Null => change[s][h].rows[m] = Null
    BY DEF GInv, AckHolds
  <2>2. h # g \/ rows[m] = Null
    BY <1>2, <2>1 DEF rows
  <2>3. deliveries'[m][h] = deliveries[m][h]
    BY <1>5, <2>2
  <2> QED
    BY <1>4, <2>1, <2>3 DEF HasDelivery
<1> QED
  BY <1>8, <1>12, <1>13, <1>14 DEF GInv

\* The messages of S wait for group g.
WaitFor(g, S) == \A m \in S : messages[m] # Null /\ HasDelivery(m, g, {"pending"})

\* What a claim of S for group g does to each delivery.
ClaimEffect(g, S) ==
    /\ \A m \in Ids, h \in Groups :
          ~(m \in S /\ h = g) => /\ deliveries'[m][h] = deliveries[m][h]
                                 /\ got'[m][h] = got[m][h]
    /\ \A m \in S : /\ deliveries[m][g] # Null
                     /\ deliveries'[m][g] =
                          [deliveries[m][g] EXCEPT !.status = "processing", !.vis = "running"]
                     /\ deliveries'[m][g] \in Delivery
                     /\ got'[m][g] = messages[m].payload
    /\ UNCHANGED <<vars, groups, change, acking, raced, crossed>>

\* Both dequeues of a group claim messages that have a pending delivery for it.
LEMMA GroupClaim ==
    ASSUME NEW c \in Members, NEW t, NEW g \in Groups,
           DequeueForGroup(c, t, g) \/ \E n \in Ids : DequeueNForGroup(c, t, g, n)
    PROVE  \E S \in SUBSET Ids :
              /\ ClaimFor(c, g, S)
              /\ WaitFor(g, S)
<1>1. PICK S \in SUBSET ClaimableFor(t, g) : ClaimFor(c, g, S)
  <2>1. CASE DequeueForGroup(c, t, g)
    <3>1. PICK m \in ClaimableFor(t, g) : ClaimFor(c, g, {m})
      BY <2>1 DEF DequeueForGroup
    <3>2. {m} \in SUBSET ClaimableFor(t, g)
      OBVIOUS
    <3> QED
      BY <3>1, <3>2
  <2>2. CASE \E n \in Ids : DequeueNForGroup(c, t, g, n)
    <3>1. PICK locked \in SUBSET ClaimableFor(t, g) :
            \E S \in SUBSET (ClaimableFor(t, g) \ locked) : ClaimFor(c, g, S)
      BY <2>2 DEF DequeueNForGroup
    <3> QED
      BY <3>1
  <2> QED
    BY <2>1, <2>2
<1>2. ClaimableFor(t, g) \subseteq Ids
  BY DEF ClaimableFor, Live
<1>3. WaitFor(g, S)
  BY DEF ClaimableFor, Live, WaitFor
<1>4. S \in SUBSET Ids
  BY <1>2
<1> QED
  BY <1>1, <1>3, <1>4

\* What a claim does to each delivery.
LEMMA ClaimedDeliveries ==
    ASSUME GInv, NEW c \in Members, NEW g \in Groups, NEW S \in SUBSET Ids, ClaimFor(c, g, S),
           WaitFor(g, S)
    PROVE  ClaimEffect(g, S)
<1>1. /\ deliveries' = [m \in Ids |->
             IF m \in S
             THEN [deliveries[m] EXCEPT ![g].status = "processing", ![g].vis = "running"]
             ELSE deliveries[m]]
      /\ got' = [m \in Ids |->
             IF m \in S THEN [got[m] EXCEPT ![g] = messages[m].payload] ELSE got[m]]
      /\ UNCHANGED <<vars, groups, change, acking, raced, crossed>>
  BY DEF ClaimFor
<1>2. \A m \in Ids : /\ deliveries[m] \in [Groups -> Delivery \cup {Null}]
                     /\ got[m] \in [Groups -> Payloads \cup {Null}]
  BY DEF GInv, GTypeOK
<1>3. ASSUME NEW m \in S
      PROVE  /\ deliveries[m][g] # Null
             /\ deliveries'[m][g] =
                  [deliveries[m][g] EXCEPT !.status = "processing", !.vis = "running"]
             /\ deliveries'[m][g] \in Delivery
             /\ got'[m][g] = messages[m].payload
  <2>1. deliveries[m][g] # Null
    BY DEF HasDelivery, WaitFor
  <2>2. deliveries'[m][g] =
          [deliveries[m][g] EXCEPT !.status = "processing", !.vis = "running"]
    <3>1. deliveries'[m] = [deliveries[m] EXCEPT ![g].status = "processing", ![g].vis = "running"]
      BY <1>1
    <3> QED
      BY <3>1, <1>2
  <2>3. deliveries'[m][g] \in Delivery
    BY <2>1, <2>2, DeliveryAt DEF GInv
  <2>4. got'[m][g] = messages[m].payload
    BY <1>1, <1>2
  <2> QED
    BY <2>1, <2>2, <2>3, <2>4
<1>4. \A m \in Ids, h \in Groups :
          ~(m \in S /\ h = g) => /\ deliveries'[m][h] = deliveries[m][h]
                                 /\ got'[m][h] = got[m][h]
  BY <1>1, <1>2
<1> QED
  BY <1>1, <1>3, <1>4 DEF ClaimEffect

\* A claim of a group.
LEMMA GroupClaimType ==
    ASSUME GInv, NEW c \in Members, NEW g \in Groups, NEW S \in SUBSET Ids, ClaimFor(c, g, S),
           WaitFor(g, S)
    PROVE  GInv'
<1>1. \A m \in Ids : /\ deliveries[m] \in [Groups -> Delivery \cup {Null}]
                     /\ got[m] \in [Groups -> Payloads \cup {Null}]
  BY DEF GInv, GTypeOK
<1>2. /\ \A m \in Ids : DOMAIN deliveries'[m] = Groups /\ DOMAIN got'[m] = Groups
      /\ \A m \in Ids : /\ deliveries'[m] = [h \in Groups |-> deliveries'[m][h]]
                        /\ got'[m] = [h \in Groups |-> got'[m][h]]
  BY <1>1 DEF ClaimFor
<1>3. \A m \in S : messages[m].payload \in Payloads
  BY DEF GInv, GTypeOK, TypeOK, Row, WaitFor
<1>c. ClaimEffect(g, S)
  BY ClaimedDeliveries
<1>d. /\ \A m \in Ids, h \in Groups :
             ~(m \in S /\ h = g) => /\ deliveries'[m][h] = deliveries[m][h]
                                    /\ got'[m][h] = got[m][h]
      /\ \A m \in S : /\ deliveries'[m][g] \in Delivery
                       /\ got'[m][g] = messages[m].payload
  BY <1>c DEF ClaimEffect
<1>4. \A m \in Ids, h \in Groups : /\ deliveries'[m][h] \in Delivery \cup {Null}
                                  /\ got'[m][h] \in Payloads \cup {Null}
  BY <1>1, <1>3, <1>d
<1>5. \A m \in Ids : /\ deliveries'[m] \in [Groups -> Delivery \cup {Null}]
                     /\ got'[m] \in [Groups -> Payloads \cup {Null}]
  BY <1>2, <1>4
<1>6. /\ deliveries' \in [Ids -> [Groups -> Delivery \cup {Null}]]
      /\ got' \in [Ids -> [Groups -> Payloads \cup {Null}]]
  BY <1>5 DEF ClaimFor
<1>7. gheld' \in [Members -> SUBSET (Ids \X Groups)]
  BY DEF ClaimFor, GInv, GTypeOK
<1>8. /\ UNCHANGED <<vars, groups, change, acking, raced, crossed>>
      /\ groups' \subseteq Topic \X Groups
  BY DEF ClaimFor, GInv, GTypeOK
<1>9. \A m \in Ids, h \in Groups :
          deliveries'[m][h] # Null => deliveries[m][h] # Null \/ messages[m] # Null
  BY <1>d DEF WaitFor
<1>10. ASSUME NEW m \in Ids, NEW h \in Groups, acking[m][h] # Null
       PROVE  HasDelivery(m, h, {"processing"})'
  <2>1. HasDelivery(m, h, {"processing"})
    BY <1>10 DEF GInv, AckHolds
  <2>2. ~(m \in S /\ h = g)
    BY <2>1 DEF WaitFor, HasDelivery
  <2> QED
    BY <1>d, <2>1, <2>2 DEF HasDelivery
<1> QED
  BY <1>6, <1>7, <1>8, <1>9, <1>10, DeliveriesType

\* What the statements of an ack by c do: the row is locked, nothing is published.
AskEffect(c, m, g) ==
    /\ HasDelivery(m, g, {"processing"}) /\ messages[m] # Null
    /\ acking'[m][g] # Null /\ acking'[m][g].by = c
    /\ acking'[m][g].last <=> LastDelivery(m, g)
    /\ acking'[m][g].row.original = messages[m].original
    /\ \A n \in Ids, h \in Groups : n # m \/ h # g => acking'[n][h] = acking[n][h]
    /\ crossed \subseteq crossed'
    /\ \A h \in Groups : acking[m][h] # Null => m \in crossed'
    /\ UNCHANGED <<vars, groups, deliveries, change, gheld, got, raced>>

\* The statements of an ack.
LEMMA AckOpens ==
    ASSUME GInv, NEW c \in Members, NEW m \in Ids, NEW g \in Groups, AckForGroup(c, m, g)
    PROVE  GInv' /\ AskEffect(c, m, g)
<1> DEFINE budget == deliveries[m][g].maxRetries
           row == [messages[m] EXCEPT !.maxRetries = budget]
           a == [by |-> c, last |-> LastDelivery(m, g), row |-> row]
<1>1. /\ acking' = [acking EXCEPT ![m][g] = a]
      /\ crossed' = IF \E h \in Groups : acking[m][h] # Null THEN crossed \cup {m} ELSE crossed
      /\ UNCHANGED <<vars, groups, deliveries, change, gheld, got, raced>>
      /\ ~Locked(m, g) /\ HasDelivery(m, g, {"processing"})
  BY DEF AckForGroup
<1>2. /\ deliveries \in [Ids -> [Groups -> Delivery \cup {Null}]] /\ TypeOK
      /\ acking \in [Ids -> [Groups -> OpenAck \cup {Null}]]
  BY DEF GInv, GTypeOK
<1>3. /\ messages[m] # Null /\ messages[m] \in Row
      /\ deliveries[m][g] \in Delivery
  BY <1>1, <1>2 DEF HasDelivery, GInv, Backed, TypeOK
<1>4. budget \in Nat
  BY <1>3 DEF Delivery
<1> HIDE DEF budget
<1>5. row \in Row /\ row.original = messages[m].original
  BY <1>3, <1>4 DEF Row
<1> HIDE DEF row
<1>6. LastDelivery(m, g) \in BOOLEAN
  BY DEF LastDelivery
<1>7. /\ a \in OpenAck /\ a.by = c /\ a.row = row
      /\ a.last <=> LastDelivery(m, g)
  BY <1>5, <1>6 DEF OpenAck
<1>8. a # Null
  BY <1>7, GroupAssumption
<1> HIDE DEF a
<1>9. /\ acking' \in [Ids -> [Groups -> OpenAck \cup {Null}]]
      /\ acking'[m][g] = a
      /\ \A n \in Ids, h \in Groups : n # m \/ h # g => acking'[n][h] = acking[n][h]
  BY <1>1, <1>2, <1>7
<1>10. /\ crossed \subseteq crossed' /\ crossed' \subseteq Ids
       /\ \A h \in Groups : acking[m][h] # Null => m \in crossed'
  BY <1>1 DEF GInv, GTypeOK
<1>11. AskEffect(c, m, g)
  BY <1>1, <1>3, <1>5, <1>7, <1>8, <1>9, <1>10 DEF AskEffect
<1>12. TypeOK' /\ messages' = messages
  BY <1>1, <1>2 DEF TypeOK, vars
<1>13. GTypeOK'
  BY <1>1, <1>9, <1>10, <1>12 DEF GInv, GTypeOK
<1>14. Backed' /\ RowsBacked'
  BY <1>1, <1>12 DEF GInv, Backed, RowsBacked
<1>15. \A t \in KnownTopic : change[t][g] # Null => change[t][g].rows[m] = Null
  BY <1>1 DEF Locked
<1>16. AckHolds'
  <2> SUFFICES ASSUME NEW n \in Ids, NEW h \in Groups, acking'[n][h] # Null
               PROVE  /\ HasDelivery(n, h, {"processing"})
                      /\ \A t \in KnownTopic : change[t][h] # Null => change[t][h].rows[n] = Null
    BY <1>1 DEF AckHolds, HasDelivery
  <2> QED
    BY <1>1, <1>9, <1>15 DEF GInv, AckHolds
<1> QED
  BY <1>11, <1>13, <1>14, <1>16 DEF GInv

\* What the commit of an ack does to message m and its deliveries.
AckEffect(m, g) ==
    /\ acking[m][g] # Null /\ HasDelivery(m, g, {"processing"}) /\ messages[m] # Null
    /\ deliveries'[m][g] = Null
    /\ \A n \in Ids, h \in Groups : n # m => deliveries'[n][h] = deliveries[n][h]
    /\ \A n \in Ids : n # m => messages'[n] = messages[n] /\ log'[n] = log[n]
    /\ \/ /\ ~acking[m][g].last /\ messages'[m] = messages[m] /\ log'[m] = log[m]
          /\ \A h \in Groups : h # g => deliveries'[m][h] = deliveries[m][h]
       \/ /\ acking[m][g].last /\ messages'[m] = Null
          /\ \A h \in Groups : h # g => deliveries'[m][h] = Null /\ acking[m][h] = Null
          /\ log'[m] = log[m] \/ log'[m].original = acking[m][g].row.original
    /\ acking'[m][g] = Null
    /\ \A n \in Ids, h \in Groups : n # m \/ h # g => acking'[n][h] = acking[n][h]
    /\ UNCHANGED <<seen, groups, change, got, raced, crossed>>

\* An ack takes its delivery away and, if it counted no other, the message.
LEMMA AckedDeliveries ==
    ASSUME GInv, NEW m \in Ids, NEW g \in Groups, CommitAck(m, g)
    PROVE  GInv' /\ AckEffect(m, g)
<1>1. /\ acking[m][g] # Null
      /\ acking' = [acking EXCEPT ![m][g] = Null]
      /\ UNCHANGED <<nextId, config, seen, request, held, groups, change, got, raced, crossed>>
      /\ SettleFor(acking[m][g].by, m, g)
  BY DEF CommitAck
<1>2. /\ deliveries \in [Ids -> [Groups -> Delivery \cup {Null}]] /\ TypeOK
      /\ acking \in [Ids -> [Groups -> OpenAck \cup {Null}]]
  BY DEF GInv, GTypeOK
<1>3. /\ HasDelivery(m, g, {"processing"})
      /\ \A t \in KnownTopic : change[t][g] # Null => change[t][g].rows[m] = Null
      /\ deliveries[m][g] # Null /\ messages[m] # Null
  BY <1>1 DEF HasDelivery, GInv, Backed, AckHolds
<1> DEFINE a == acking[m][g]
           entry == Archived(a.row, acks + 1)
<1>4. a \in OpenAck
  BY <1>1, <1>2
<1>5. entry \in LogEntry /\ entry.original = a.row.original
  <2>1. a.row \in Row /\ acks + 1 \in Nat
    BY <1>2, <1>4 DEF OpenAck, TypeOK
  <2> HIDE DEF a
  <2> QED
    BY <2>1 DEF Archived, LogEntry, Row
<1>6. \/ /\ ~a.last /\ UNCHANGED <<messages, log, acks>>
         /\ deliveries' = [deliveries EXCEPT ![m][g] = Null]
      \/ /\ a.last /\ messages' = [messages EXCEPT ![m] = Null]
         /\ \/ log' = [log EXCEPT ![m] = entry] /\ acks' = acks + 1
            \/ UNCHANGED <<log, acks>>
         /\ deliveries' = [deliveries EXCEPT ![m] = NoDeliveries]
         /\ \A h \in Groups \ {g} : ~Locked(m, h)
  BY DEF CommitAck
<1> HIDE DEF entry, a
<1>7. TypeOK'
  <2>0. /\ messages \in [Ids -> Row \cup {Null}] /\ log \in [Ids -> LogEntry \cup {Null}]
        /\ acks \in Nat
        /\ \A n \in Ids : n >= nextId => messages[n] = Null /\ log[n] = Null
    BY <1>2 DEF TypeOK
  <2>1. ~(m >= nextId)
    BY <2>0, <1>3
  <2>2. messages' \in [Ids -> Row \cup {Null}] /\ acks' \in Nat
    BY <2>0, <1>6
  <2>4. log' \in [Ids -> LogEntry \cup {Null}]
    BY <2>0, <1>5, <1>6
  <2>3. \A n \in Ids : n >= nextId => messages'[n] = Null /\ log'[n] = Null
    BY <2>0, <1>6, <2>1
  <2> QED
    BY <1>1, <1>2, <2>2, <2>3, <2>4 DEF TypeOK
<1>8. /\ \A n \in Ids : n # m => messages'[n] = messages[n] /\ log'[n] = log[n]
      /\ \A n \in Ids, h \in Groups : n # m => deliveries'[n][h] = deliveries[n][h]
      /\ deliveries'[m][g] = Null
      /\ deliveries' \in [Ids -> [Groups -> Delivery \cup {Null}]]
  <2>1. \A n \in Ids : n # m => messages'[n] = messages[n] /\ log'[n] = log[n]
    BY <1>2, <1>6 DEF TypeOK
  <2>2. CASE deliveries' = [deliveries EXCEPT ![m][g] = Null]
    BY <1>2, <2>1, <2>2
  <2>3. CASE deliveries' = [deliveries EXCEPT ![m] = NoDeliveries]
    BY <1>2, <2>1, <2>3 DEF NoDeliveries
  <2> QED
    BY <1>6, <2>2, <2>3
<1>9. \/ /\ ~a.last /\ messages'[m] = messages[m] /\ log'[m] = log[m]
         /\ \A h \in Groups : h # g => deliveries'[m][h] = deliveries[m][h]
      \/ /\ a.last /\ messages'[m] = Null
         /\ \A h \in Groups : h # g => deliveries'[m][h] = Null /\ ~Locked(m, h)
         /\ log'[m] = log[m] \/ log'[m].original = a.row.original
  BY <1>2, <1>5, <1>6 DEF TypeOK, NoDeliveries
<1>10. /\ acking' \in [Ids -> [Groups -> OpenAck \cup {Null}]]
       /\ acking'[m][g] = Null
       /\ \A n \in Ids, h \in Groups : n # m \/ h # g => acking'[n][h] = acking[n][h]
  BY <1>1, <1>2
<1>11. AckEffect(m, g)
  BY <1>1, <1>3, <1>8, <1>9, <1>10 DEF AckEffect, a, Locked
<1>12. gheld' \in [Members -> SUBSET (Ids \X Groups)]
  BY <1>1 DEF SettleFor, GInv, GTypeOK
<1>13. GTypeOK'
  BY <1>1, <1>7, <1>8, <1>10, <1>12 DEF GInv, GTypeOK
<1>14. Backed'
  BY <1>8, <1>9 DEF GInv, Backed
<1>15. RowsBacked'
  BY <1>1, <1>3, <1>8, <1>9 DEF GInv, RowsBacked, Locked
<1>16. AckHolds'
  BY <1>1, <1>8, <1>9, <1>10 DEF GInv, AckHolds, HasDelivery, Locked
<1> QED
  BY <1>11, <1>13, <1>14, <1>15, <1>16 DEF GInv

\* What the steps that write one delivery in place do: it stays, is claimed by
\* nobody new, and no other delivery changes.
TouchEffect(m, g) ==
    /\ \A n \in Ids, h \in Groups : n # m \/ h # g => deliveries'[n][h] = deliveries[n][h]
    /\ deliveries'[m][g] = Null <=> deliveries[m][g] = Null
    /\ deliveries[m][g] # Null /\ deliveries'[m][g].status = "processing"
          => deliveries[m][g].status = "processing"
    /\ UNCHANGED <<vars, groups, change, acking, got, raced, crossed>>

\* A nack, a rejected call and the visibility timeout of a delivery are such steps.
LEMMA TouchedDelivery ==
    ASSUME GInv, NEW m \in Ids, NEW g \in Groups,
           \/ \E c \in Members : NackForGroup(c, m, g) \/ SettleForRejected(c, m, g)
           \/ DeliveryVisibilityElapses(m, g)
    PROVE  GInv' /\ TouchEffect(m, g)
<1>1. /\ deliveries \in [Ids -> [Groups -> Delivery \cup {Null}]] /\ TypeOK
      /\ groups \subseteq Topic \X Groups
      /\ gheld \in [Members -> SUBSET (Ids \X Groups)]
      /\ got \in [Ids -> [Groups -> Payloads \cup {Null}]]
  BY DEF GInv, GTypeOK
<1>2. ASSUME NEW d \in Delivery, deliveries[m][g] # Null,
             deliveries' = [deliveries EXCEPT ![m][g] = d],
             gheld' \in [Members -> SUBSET (Ids \X Groups)],
             acking[m][g] # Null => d.status = "processing",
             UNCHANGED <<vars, groups, change, acking, got, raced, crossed>>
      PROVE  /\ GInv'
             /\ \A n \in Ids, h \in Groups : n # m \/ h # g => deliveries'[n][h] = deliveries[n][h]
             /\ deliveries'[m][g] = d /\ d # Null
  <2>1. /\ deliveries' \in [Ids -> [Groups -> Delivery \cup {Null}]]
        /\ \A n \in Ids, h \in Groups : n # m \/ h # g => deliveries'[n][h] = deliveries[n][h]
        /\ deliveries'[m][g] = d
    BY <1>1, <1>2
  <2>2. messages[m] # Null
    BY <1>2 DEF GInv, Backed
  <2>3. /\ UNCHANGED vars /\ groups' = groups /\ got' = got
        /\ change' = change /\ acking' = acking /\ raced' = raced /\ crossed' = crossed
    BY <1>2
  <2>5. d # Null
    BY GroupAssumption
  <2>6. \A n \in Ids, h \in Groups : acking[n][h] # Null => HasDelivery(n, h, {"processing"})'
    BY <1>2, <2>1, <2>5 DEF GInv, AckHolds, HasDelivery
  <2>4. GInv'
    BY <1>1, <1>2, <2>1, <2>2, <2>3, <2>6, DeliveriesType
  <2> QED
    BY <2>1, <2>4, GroupAssumption
<1>3. CASE \E c \in Members : NackForGroup(c, m, g)
  <2>1. PICK c \in Members : NackForGroup(c, m, g)
    BY <1>3
  <2>2. /\ HasDelivery(m, g, {"processing"}) /\ acking[m][g] = Null
        /\ UNCHANGED <<vars, groups, change, acking, got, raced, crossed>>
    BY <2>1 DEF NackForGroup, Locked
  <2>3. /\ deliveries[m][g] # Null /\ deliveries[m][g] \in Delivery
        /\ deliveries[m][g].status = "processing"
    BY <1>1, <2>2 DEF HasDelivery
  <2>4. PICK cfg \in GetTopicConfig(messages[m].topic) \cup {Null} :
          deliveries' = [deliveries EXCEPT ![m][g] =
              NackedDelivery(@, effectiveDLQThreshold(cfg))]
    BY <2>1 DEF NackForGroup
  <2>5. messages[m] # Null /\ messages[m] \in Row
    BY <1>1, <2>3 DEF GInv, Backed, TypeOK
  <2>6. messages[m].topic \in Topic
    BY <2>5 DEF Row
  <2>7. effectiveDLQThreshold(cfg) \in Nat
    BY <1>1, <2>6, ConfigReadType, ResolvedTypes
  <2> DEFINE d == NackedDelivery(deliveries[m][g], effectiveDLQThreshold(cfg))
  <2>8. d \in Delivery
    BY <2>3, <2>7, NackedDeliveryType
  <2>9. deliveries' = [deliveries EXCEPT ![m][g] = d]
    BY <2>4
  <2> HIDE DEF d
  <2>10. gheld' \in [Members -> SUBSET (Ids \X Groups)]
    BY <1>1, <2>1 DEF NackForGroup, SettleFor
  <2> QED
    BY <1>2, <2>2, <2>3, <2>8, <2>9, <2>10 DEF TouchEffect
<1>4. CASE \E c \in Members : SettleForRejected(c, m, g)
  <2>1. PICK c \in Members : SettleForRejected(c, m, g)
    BY <1>4
  <2>2. UNCHANGED <<vars, groups, deliveries, change, acking, got, raced, crossed>>
    BY <2>1 DEF SettleForRejected
  <2>3. gheld' \in [Members -> SUBSET (Ids \X Groups)]
    BY <1>1, <2>1 DEF SettleForRejected, SettleFor
  <2>5. \A n \in Ids, h \in Groups : acking[n][h] # Null => HasDelivery(n, h, {"processing"})'
    BY <2>2 DEF GInv, AckHolds, HasDelivery
  <2>4. GInv'
    BY <1>1, <2>2, <2>3, <2>5, DeliveriesType
  <2> QED
    BY <2>2, <2>4 DEF TouchEffect
<1>5. CASE DeliveryVisibilityElapses(m, g)
  <2>1. /\ deliveries[m][g] # Null /\ deliveries[m][g] \in Delivery
        /\ UNCHANGED <<vars, groups, change, acking, gheld, got, raced, crossed>>
    BY <1>1, <1>5 DEF DeliveryVisibilityElapses
  <2> DEFINE d == [deliveries[m][g] EXCEPT !.vis = "elapsed"]
  <2>2. d \in Delivery /\ d.status = deliveries[m][g].status
    BY <2>1 DEF Delivery, Clock
  <2>3. deliveries' = [deliveries EXCEPT ![m][g] = d]
    BY <1>1, <1>5 DEF DeliveryVisibilityElapses
  <2> HIDE DEF d
  <2>5. acking[m][g] # Null => d.status = "processing"
    BY <2>2 DEF GInv, AckHolds, HasDelivery
  <2>4. gheld' \in [Members -> SUBSET (Ids \X Groups)]
    BY <1>1, <2>1
  <2> QED
    BY <1>2, <2>1, <2>2, <2>3, <2>4, <2>5 DEF TouchEffect
<1> QED
  BY <1>3, <1>4, <1>5

\* A step of the system, by what it does to the deliveries.
GroupStep ==
    \/ MessageStep
    \/ \E t \in KnownTopic, g \in Groups :
          \/ RegisterConsumerGroup(t, g)
          \/ UnregisterConsumerGroup(t, g)
          \/ ChangeEffect(t, g)
    \/ \E g \in Groups, S \in SUBSET Ids : WaitFor(g, S) /\ ClaimEffect(g, S)
    \/ \E c \in Members, m \in Ids, g \in Groups : AskEffect(c, m, g)
    \/ \E m \in Ids, g \in Groups : AckEffect(m, g) \/ TouchEffect(m, g)
    \/ UNCHANGED <<vars, groups, deliveries, change, acking, got, raced, crossed>>

\* Every step keeps the types, the foreign key and the locks, and is one of those.
LEMMA GroupSteps ==
    ASSUME GInv, [GNext]_allVars
    PROVE  GInv' /\ GroupStep
<1>1. CASE MessageStep
  BY <1>1, MessageStepType DEF GroupStep
<1>2. CASE \E t \in KnownTopic, g \in Groups : RegisterConsumerGroup(t, g)
  <2>1. PICK t \in KnownTopic, g \in Groups : RegisterConsumerGroup(t, g)
    BY <1>2
  <2>2. PICK rows : OpenedRows(t, g, TRUE, rows) /\ OpenEffect(t, g, TRUE, rows)
    BY <2>1, RegisterOpens
  <2>3. GInv'
    BY <2>2, OpenType
  <2> QED
    BY <2>1, <2>3 DEF GroupStep
<1>3. CASE \E t \in KnownTopic, g \in Groups : UnregisterConsumerGroup(t, g)
  <2>1. PICK t \in KnownTopic, g \in Groups : UnregisterConsumerGroup(t, g)
    BY <1>3
  <2>2. PICK rows : OpenedRows(t, g, FALSE, rows) /\ OpenEffect(t, g, FALSE, rows)
    BY <2>1, UnregisterOpens
  <2>3. GInv'
    BY <2>2, OpenType
  <2> QED
    BY <2>1, <2>3 DEF GroupStep
<1>4. CASE \E t \in KnownTopic, g \in Groups : CommitChange(t, g)
  <2>1. PICK t \in KnownTopic, g \in Groups : CommitChange(t, g)
    BY <1>4
  <2>2. GInv' /\ ChangeEffect(t, g)
    BY <2>1, ChangeCommits
  <2> QED
    BY <2>2 DEF GroupStep
<1>5. CASE \E c \in Members, g \in Groups :
             \/ \E t \in KnownTopic : DequeueForGroup(c, t, g)
             \/ \E t \in KnownTopic, n \in Ids : DequeueNForGroup(c, t, g, n)
  <2>1. PICK c \in Members, g \in Groups, t \in KnownTopic :
          DequeueForGroup(c, t, g) \/ \E n \in Ids : DequeueNForGroup(c, t, g, n)
    BY <1>5
  <2>2. PICK S \in SUBSET Ids : ClaimFor(c, g, S) /\ WaitFor(g, S)
    BY <2>1, GroupClaim
  <2>3. GInv' /\ ClaimEffect(g, S)
    BY <2>2, GroupClaimType, ClaimedDeliveries
  <2> QED
    BY <2>2, <2>3 DEF GroupStep
<1>6. CASE \E c \in Members, g \in Groups, m \in Ids : AckForGroup(c, m, g)
  <2>1. PICK c \in Members, g \in Groups, m \in Ids : AckForGroup(c, m, g)
    BY <1>6
  <2>2. GInv' /\ AskEffect(c, m, g)
    BY <2>1, AckOpens
  <2> QED
    BY <2>2 DEF GroupStep
<1>7. CASE \E m \in Ids, g \in Groups : CommitAck(m, g)
  <2>1. PICK m \in Ids, g \in Groups : CommitAck(m, g)
    BY <1>7
  <2>2. GInv' /\ AckEffect(m, g)
    BY <2>1, AckedDeliveries
  <2> QED
    BY <2>2 DEF GroupStep
<1>8. CASE \E m \in Ids, g \in Groups :
             \/ \E c \in Members : NackForGroup(c, m, g) \/ SettleForRejected(c, m, g)
             \/ DeliveryVisibilityElapses(m, g)
  <2>1. PICK m \in Ids, g \in Groups :
             \/ \E c \in Members : NackForGroup(c, m, g) \/ SettleForRejected(c, m, g)
             \/ DeliveryVisibilityElapses(m, g)
    BY <1>8
  <2>2. GInv' /\ TouchEffect(m, g)
    BY <2>1, TouchedDelivery
  <2> QED
    BY <2>2 DEF GroupStep
<1>9. CASE UNCHANGED allVars
  <2>1. /\ UNCHANGED vars /\ groups' = groups /\ deliveries' = deliveries /\ gheld' = gheld
        /\ got' = got /\ change' = change /\ acking' = acking /\ raced' = raced
        /\ crossed' = crossed
    BY <1>9 DEF allVars, vars
  <2>2. \A m \in Ids, g \in Groups : acking[m][g] # Null => HasDelivery(m, g, {"processing"})'
    BY <2>1 DEF GInv, AckHolds, HasDelivery
  <2>3. GInv'
    BY <2>1, <2>2, DeliveriesType DEF GInv, GTypeOK
  <2> QED
    BY <2>1, <2>3 DEF GroupStep
<1> QED
  BY <1>1, <1>2, <1>3, <1>4, <1>5, <1>6, <1>7, <1>8, <1>9 DEF GNext

\* The group tables hold values of their column types, and the foreign key from
\* message_deliveries to messages is never violated, with any mix of clients; an ack
\* in progress keeps its delivery from every other transaction.
THEOREM GTypeCorrect == GSpec => [](GTypeOK /\ Backed /\ AckHolds)
<1>1. GInv => GTypeOK /\ Backed /\ AckHolds
  BY DEF GInv
<1>2. GInv /\ [GNext]_allVars => GInv'
  BY GroupSteps
<1> QED
  BY <1>1, <1>2, GTypeInit, PTL DEF GSpec

-----------------------------------------------------------------------------
(* What the message table does to rows that stay *)

\* A row that stays keeps its topic.  Where every client uses a group it also
\* becomes pending by insertion only, and without keys it keeps its payload.
RowKept(m) ==
    messages[m] # Null /\ messages'[m] # Null =>
        /\ messages'[m].topic = messages[m].topic
        /\ Consumers = {} =>
              /\ messages'[m].status = "pending" => messages[m].status = "pending"
              /\ Keys = {} => messages'[m].payload = messages[m].payload

\* Where promotion is off, Nack only counts.
LEMMA NackStays ==
    ASSUME NoBudgetOverride, DlqThreshold = 0, TypeOK, Plain, NEW r \in Row,
           NEW cfg \in GetTopicConfig(r.topic) \cup {Null}
    PROVE  LET s == Nacked(r, effectiveDLQThreshold(cfg)) IN
           s.topic = r.topic /\ s.original = r.original
<1>1. effectiveDLQThreshold(cfg) = 0
  <2>1. cfg # Null => r.topic.name \in Topics /\ cfg \in seen[r.topic.name]
    BY DEF GetTopicConfig, Row, Topic
  <2>2. cfg # Null => cfg.maxRetries = Null
    BY <2>1 DEF Plain
  <2> QED
    BY <2>2 DEF effectiveDLQThreshold
<1>2. Nacked(r, 0) = Retried(r)
  BY DEF Nacked
<1>3. Retried(r).topic = r.topic /\ Retried(r).original = r.original
  BY DEF Retried, Row
<1> QED
  BY <1>1, <1>2, <1>3

\* One row across one step of the message table.
LEMMA PlainRow ==
    ASSUME TopicsStay, TypeOK, Plain, [Next]_vars, NEW m \in Ids
    PROVE  /\ RowKept(m)
           /\ messages'[m] # Null => messages'[m].original = Null
           /\ Consumers = {} => ~(messages'[m] # Null /\ messages'[m].status = "processing")
<1>1. RowStep(m)
  BY RowSteps
<1>2. messages[m] # Null => messages[m] \in Row /\ messages[m].original = Null
  BY DEF TypeOK, Plain
<1>3. Consumers = {} => ~(messages[m] # Null /\ messages[m].status = "processing")
  BY DEF Plain, InStatus
<1>4. CASE messages'[m] = messages[m] \/ messages'[m] = Null
  BY <1>2, <1>3, <1>4 DEF RowKept
<1>5. ASSUME m >= nextId,
             NEW r, messages'[m] = r, r.status = "pending", r.original = Null
      PROVE  /\ RowKept(m)
             /\ messages'[m] # Null => messages'[m].original = Null
             /\ Consumers = {} => ~(messages'[m] # Null /\ messages'[m].status = "processing")
  BY <1>5 DEF RowKept, TypeOK
<1>6. CASE /\ m >= nextId
           /\ \E p \in Producers : request[p] # Null /\ messages'[m] = Inserted(request[p])
  <2>1. \A q : Inserted(q).status = "pending" /\ Inserted(q).original = Null
    BY DEF Inserted
  <2> QED
    BY <1>5, <1>6, <2>1
<1>7. CASE /\ m >= nextId
           /\ \E n \in Ids, ttl \in Clock : log[n] # Null /\ messages'[m] = Copied(log[n], ttl)
  <2>1. PICK n \in Ids, ttl \in Clock : log[n] # Null /\ messages'[m] = Copied(log[n], ttl)
    BY <1>7
  <2>2. log[n].original = Null
    BY <2>1 DEF Plain
  <2>3. Copied(log[n], ttl).status = "pending" /\ Copied(log[n], ttl).original = Null
    BY <2>2 DEF Copied
  <2> QED
    BY <1>5, <1>7, <2>1, <2>3
<1>8. CASE /\ messages[m] # Null
           /\ \E p \in Producers :
                /\ request[p] # Null
                /\ messages[m].key # Null
                /\ messages'[m] = Upserted(messages[m], request[p])
  <2>1. PICK p \in Producers : /\ messages[m].key # Null
                               /\ messages'[m] = Upserted(messages[m], request[p])
    BY <1>8
  <2>2. messages[m].key \in Keys \cup {Null}
    BY <1>2, <1>8 DEF Row
  <2>3. /\ messages'[m].topic = messages[m].topic /\ messages'[m].status = messages[m].status
        /\ messages'[m].original = messages[m].original
    BY <1>2, <1>8, <2>1 DEF Upserted, Row
  <2> QED
    BY <1>2, <1>3, <1>8, <2>1, <2>2, <2>3 DEF RowKept
<1>9. CASE /\ messages[m] # Null /\ Consumers # {}
           /\ messages'[m] = [messages[m] EXCEPT !.status = "processing", !.vis = "running"]
  BY <1>2, <1>9 DEF RowKept, Row
<1>10. CASE /\ messages[m] # Null /\ messages[m].status = "processing"
            /\ \E cfg \in GetTopicConfig(messages[m].topic) \cup {Null} :
                  messages'[m] = Nacked(messages[m], effectiveDLQThreshold(cfg))
  <2>1. Consumers # {} /\ NoBudgetOverride /\ DlqThreshold = 0
    BY <1>3, <1>10 DEF TopicsStay
  <2>2. messages'[m].topic = messages[m].topic /\ messages'[m].original = messages[m].original
    BY <1>2, <1>10, <2>1, NackStays
  <2> QED
    BY <1>2, <1>10, <2>1, <2>2 DEF RowKept
<1>11. CASE messages[m] # Null /\ messages[m].original # Null
  BY <1>2, <1>11
<1>12. CASE /\ messages[m] # Null
            /\ \/ messages'[m] = [messages[m] EXCEPT !.status = "expired"]
               \/ messages'[m] = [messages[m] EXCEPT !.ttl = "elapsed"]
               \/ messages'[m] = [messages[m] EXCEPT !.vis = "elapsed"]
  BY <1>2, <1>3, <1>12 DEF RowKept, Row
<1> QED
  BY <1>1, <1>4, <1>6, <1>7, <1>8, <1>9, <1>10, <1>11, <1>12 DEF RowStep

\* A step of the message table keeps messages in their topics.
LEMMA PlainNext ==
    ASSUME TopicsStay, TypeOK, Plain, [Next]_vars, acking' = acking
    PROVE  /\ Plain'
           /\ \A m \in Ids : RowKept(m)
           /\ Consumers = {} => \A m \in Ids : log'[m] # Null => log[m] # Null
<1>1. \A m \in Ids : /\ RowKept(m)
                     /\ messages'[m] # Null => messages'[m].original = Null
                     /\ Consumers = {} => ~(messages'[m] # Null /\ messages'[m].status = "processing")
  BY PlainRow
<1>2. ASSUME NEW m \in Ids, log'[m] # Null
      PROVE  /\ log'[m].original = Null
             /\ Consumers = {} => log[m] # Null
  <2>1. LogStep(m)
    BY LogSteps
  <2>2. log[m] # Null => log[m] \in LogEntry /\ log[m].original = Null
    BY DEF TypeOK, Plain
  <2>3. CASE log'[m] = log[m]
    BY <1>2, <2>2, <2>3
  <2>4. CASE log[m] # Null /\ log'[m] = [log[m] EXCEPT !.aged = TRUE]
    BY <2>2, <2>4 DEF LogEntry
  <2>5. CASE /\ messages[m] # Null /\ messages[m].status = "processing"
             /\ log'[m] = Archived(messages[m], acks + 1)
    BY <2>5 DEF Plain, InStatus, Archived
  <2> QED
    BY <1>2, <2>1, <2>3, <2>4, <2>5 DEF LogStep
<1>3. NoBudgetOverride =>
        \A t \in Topics : \A cfg \in seen'[t] : cfg # Null => cfg.maxRetries = Null
  <2>1. \A t \in Topics : SeenStep(t)
    BY RequestSteps
  <2> QED
    BY <2>1 DEF SeenStep, NoBudgetOverride, Plain
<1>4. Consumers = {} => \A m \in Ids : ~InStatus(m, {"processing"})'
  BY <1>1 DEF InStatus
<1> QED
  BY <1>1, <1>2, <1>3, <1>4 DEF Plain, NoBudgetOverride

\* A step of a group leaves messages in their topics too: the only message row it
\* writes is the one its last ack deletes.
LEMMA PlainGroupStep ==
    ASSUME TopicsStay, GInv, Plain, GroupStep
    PROVE  /\ Plain'
           /\ \A m \in Ids : RowKept(m)
<1>1. CASE MessageStep
  <2>1. TypeOK /\ [Next]_vars /\ acking' = acking
    BY <1>1 DEF MessageStep, GInv, GTypeOK
  <2> QED
    BY <2>1, PlainNext
<1>2. CASE UNCHANGED <<vars, acking>>
  <2>1. messages' = messages /\ log' = log /\ seen' = seen /\ acking' = acking
    BY <1>2 DEF vars
  <2> QED
    BY <2>1 DEF Plain, InStatus, RowKept, NoBudgetOverride
<1>3. CASE \E m \in Ids, g \in Groups : AckEffect(m, g)
  <2>1. PICK m \in Ids, g \in Groups : AckEffect(m, g)
    BY <1>3
  <2>2. /\ \A n \in Ids : messages'[n] = messages[n] \/ messages'[n] = Null
        /\ \A n \in Ids : log'[n] = log[n] \/ log'[n].original = Null
        /\ \A n \in Ids, h \in Groups : acking'[n][h] = acking[n][h] \/ acking'[n][h] = Null
        /\ seen' = seen
    BY <2>1 DEF AckEffect, Plain
  <2> QED
    BY <2>2 DEF Plain, InStatus, RowKept, NoBudgetOverride
<1>4. CASE \E c \in Members, m \in Ids, g \in Groups : AskEffect(c, m, g)
  <2>1. PICK c \in Members, m \in Ids, g \in Groups : AskEffect(c, m, g)
    BY <1>4
  <2>2. messages' = messages /\ log' = log /\ seen' = seen
    BY <2>1 DEF AskEffect, vars
  <2>3. \A n \in Ids, h \in Groups :
          acking'[n][h] = acking[n][h] \/ acking'[n][h].row.original = Null
    BY <2>1 DEF AskEffect, Plain
  <2> QED
    BY <2>2, <2>3 DEF Plain, InStatus, RowKept, NoBudgetOverride
<1>5. ASSUME \/ \E t \in KnownTopic, g \in Groups :
                   \/ RegisterConsumerGroup(t, g)
                   \/ UnregisterConsumerGroup(t, g)
                   \/ ChangeEffect(t, g)
             \/ \E g \in Groups, S \in SUBSET Ids : ClaimEffect(g, S)
             \/ \E m \in Ids, g \in Groups : TouchEffect(m, g)
             \/ UNCHANGED <<vars, groups, deliveries, change, acking, got, raced, crossed>>
      PROVE  UNCHANGED <<vars, acking>>
  BY <1>5 DEF RegisterConsumerGroup, UnregisterConsumerGroup, Open, ChangeEffect, ClaimEffect,
              TouchEffect
<1> QED
  BY <1>1, <1>2, <1>3, <1>4, <1>5 DEF GroupStep

\* Messages stay in their topics.
LEMMA PlainHolds ==
    ASSUME TopicsStay
    PROVE  GSpec => [](GInv /\ Plain)
<1>1. GInit => GInv /\ Plain
  <2>1. GInit => Plain
    BY DEF GInit, Init, Plain, InStatus, NoBudgetOverride, NoDeliveries
  <2> QED
    BY <2>1, GTypeInit
<1>2. GInv /\ Plain /\ [GNext]_allVars => GInv' /\ Plain'
  BY GroupSteps, PlainGroupStep
<1> QED
  BY <1>1, <1>2, PTL DEF GSpec

-----------------------------------------------------------------------------
(* The effect of the steps on one delivery and on the registrations *)

\* A step of the message table mints for new rows, cascades for deleted ones.
LEMMA MessageStepDelivery ==
    ASSUME GInv, GInv', MessageStep, NEW m \in Ids, NEW h \in Groups, messages'[m] # Null
    PROVE  /\ groups' = groups /\ got' = got /\ change' = change /\ acking' = acking
           /\ crossed' = crossed /\ raced[m] \subseteq raced'[m]
           /\ messages[m] # Null => deliveries'[m][h] = deliveries[m][h]
           /\ messages[m] = Null =>
                 IF <<messages'[m].topic, h>> \in groups
                 THEN deliveries'[m][h] # Null /\ deliveries'[m][h].status = "pending"
                 ELSE deliveries'[m][h] = Null
           /\ messages[m] = Null =>
                 \A t \in KnownTopic : messages'[m].topic = t /\ change[t][h] # Null
                                       => h \in raced'[m]
<1>1. deliveries'[m] = IF messages'[m] = Null THEN NoDeliveries
                       ELSE IF messages[m] = Null THEN MintDeliveries(messages'[m])
                       ELSE deliveries[m]
  BY DEF MessageStep, Cascade
<1>2. /\ groups' = groups /\ got' = got /\ change' = change /\ acking' = acking
      /\ crossed' = crossed /\ raced'[m] = raced[m] \cup RacingInsert(m)
  BY DEF MessageStep
<1>3. messages'[m] \in Row
  BY DEF GInv, GTypeOK, TypeOK
<1>4. Minted(messages'[m]) # Null /\ Minted(messages'[m]).status = "pending"
  BY <1>3, MintedType DEF Minted
<1> QED
  BY <1>1, <1>2, <1>4 DEF MintDeliveries, RacingInsert

\* The steps of the members of a group.
MemberStep ==
    \/ \E g \in Groups, S \in SUBSET Ids : WaitFor(g, S) /\ ClaimEffect(g, S)
    \/ \E c \in Members, m \in Ids, g \in Groups : AskEffect(c, m, g)
    \/ \E m \in Ids, g \in Groups : AckEffect(m, g) \/ TouchEffect(m, g)
    \/ UNCHANGED <<vars, groups, deliveries, change, acking, got, raced, crossed>>

\* They register and insert nothing, and only the commit of an ack ends a delivery.
LEMMA MemberSteps ==
    ASSUME MemberStep, NEW m \in Ids, NEW h \in Groups
    PROVE  /\ UNCHANGED <<groups, change, raced>> /\ crossed \subseteq crossed'
           /\ messages'[m] = messages[m] \/ messages'[m] = Null
           /\ deliveries'[m][h] # Null => deliveries[m][h] # Null
           /\ \/ deliveries[m][h] # Null => deliveries'[m][h] # Null
              \/ \E g \in Groups : AckEffect(m, g) /\ (h = g \/ acking[m][g].last)
<1>1. CASE \E g \in Groups, S \in SUBSET Ids : WaitFor(g, S) /\ ClaimEffect(g, S)
  <2>1. PICK g \in Groups, S \in SUBSET Ids : ClaimEffect(g, S)
    BY <1>1
  <2>2. CASE m \in S /\ h = g
    BY <2>1, <2>2, GroupAssumption DEF ClaimEffect, vars
  <2>3. CASE ~(m \in S /\ h = g)
    BY <2>1, <2>3 DEF ClaimEffect, vars
  <2> QED
    BY <2>2, <2>3
<1>2. CASE \E c \in Members, n \in Ids, g \in Groups : AskEffect(c, n, g)
  BY <1>2 DEF AskEffect, vars
<1>3. CASE \E n \in Ids, g \in Groups : AckEffect(n, g)
  <2>1. PICK n \in Ids, g \in Groups : AckEffect(n, g)
    BY <1>3
  <2>2. CASE n # m
    BY <2>1, <2>2 DEF AckEffect
  <2>3. CASE n = m
    BY <2>1, <2>3 DEF AckEffect
  <2> QED
    BY <2>2, <2>3
<1>4. CASE \E n \in Ids, g \in Groups : TouchEffect(n, g)
  <2>1. PICK n \in Ids, g \in Groups : TouchEffect(n, g)
    BY <1>4
  <2> QED
    BY <2>1 DEF TouchEffect, vars
<1>5. CASE UNCHANGED <<vars, groups, deliveries, change, acking, got, raced, crossed>>
  BY <1>5 DEF vars
<1> QED
  BY <1>1, <1>2, <1>3, <1>4, <1>5 DEF MemberStep

\* The statements of a registration or of its end, for the invariants below.
LEMMA OpenSteps ==
    ASSUME GInv, NEW t \in KnownTopic, NEW g \in Groups,
           RegisterConsumerGroup(t, g) \/ UnregisterConsumerGroup(t, g)
    PROVE  /\ UNCHANGED <<vars, groups, deliveries, acking, gheld, got, raced, crossed>>
           /\ messages' = messages
           /\ change'[t][g] # Null
           /\ \A m \in Ids : change'[t][g].rows[m] # Null => messages[m].topic = t
           /\ \A s \in KnownTopic, h \in Groups :
                 s # t \/ h # g => change'[s][h] = change[s][h]
           /\ \/ /\ change'[t][g].joins /\ RegisterConsumerGroup(t, g)
                 /\ \A m \in Ids : /\ InStatus(m, {"pending"}) /\ messages[m].topic = t
                                   /\ deliveries[m][g] = Null
                                   => change'[t][g].rows[m] # Null
              \/ /\ ~change'[t][g].joins /\ GroupsMayLeave
                 /\ \A m \in Ids : /\ messages[m] # Null /\ messages[m].topic = t
                                   /\ deliveries[m][g] # Null
                                   => change'[t][g].rows[m] # Null
<1>1. CASE RegisterConsumerGroup(t, g)
  <2>1. PICK rows : /\ OpenedRows(t, g, TRUE, rows) /\ OpenEffect(t, g, TRUE, rows)
                    /\ \A m \in Ids : /\ InStatus(m, {"pending"})
                                      /\ messages[m].topic = t
                                      /\ deliveries[m][g] = Null
                                      => rows[m] # Null
    BY <1>1, RegisterOpens
  <2>2. /\ change'[t][g] # Null
        /\ change'[t][g].joins = TRUE /\ change'[t][g].rows = rows
        /\ \A s \in KnownTopic, h \in Groups : s # t \/ h # g => change'[s][h] = change[s][h]
    BY <2>1, OpenType
  <2>3. UNCHANGED <<vars, groups, deliveries, acking, gheld, got, raced, crossed>>
    BY <2>1 DEF OpenEffect
  <2>4. \A m \in Ids : rows[m] # Null => messages[m].topic = t
    BY <2>1 DEF OpenedRows
  <2> QED
    BY <1>1, <2>1, <2>2, <2>3, <2>4 DEF vars
<1>2. CASE UnregisterConsumerGroup(t, g)
  <2>1. PICK rows : /\ OpenedRows(t, g, FALSE, rows) /\ OpenEffect(t, g, FALSE, rows)
                    /\ GroupsMayLeave
                    /\ \A m \in Ids : /\ messages[m] # Null /\ messages[m].topic = t
                                      /\ deliveries[m][g] # Null
                                      => rows[m] # Null
    BY <1>2, UnregisterOpens
  <2>2. /\ change'[t][g] # Null
        /\ change'[t][g].joins = FALSE /\ change'[t][g].rows = rows
        /\ \A s \in KnownTopic, h \in Groups : s # t \/ h # g => change'[s][h] = change[s][h]
    BY <2>1, OpenType
  <2>3. UNCHANGED <<vars, groups, deliveries, acking, gheld, got, raced, crossed>>
    BY <2>1 DEF OpenEffect
  <2>4. \A m \in Ids : rows[m] # Null => messages[m].topic = t
    BY <2>1 DEF OpenedRows
  <2> QED
    BY <2>1, <2>2, <2>3, <2>4 DEF vars
<1> QED
  BY <1>1, <1>2

\* The rows of an open registration, or of its end, are rows of its topic.
RowsInTopic ==
    \A t \in KnownTopic, g \in Groups, m \in Ids :
        change[t][g] # Null /\ change[t][g].rows[m] # Null => messages[m].topic = t

\* Where no message changes its topic, that stays so.
LEMMA RowsInTopicHolds ==
    ASSUME TopicsStay
    PROVE  GSpec => [](GInv /\ Plain /\ RowsInTopic)
<1>1. GInit => RowsInTopic
  BY DEF GInit, RowsInTopic
<1>2. ASSUME GInv, Plain, RowsInTopic, [GNext]_allVars
      PROVE  RowsInTopic'
  <2>0. GroupStep /\ GInv'
    BY <1>2, GroupSteps
  <2>1. \A m \in Ids : RowKept(m)
    BY <1>2, <2>0, PlainGroupStep
  <2> SUFFICES ASSUME NEW t \in KnownTopic, NEW g \in Groups, NEW m \in Ids,
                      change'[t][g] # Null, change'[t][g].rows[m] # Null
               PROVE  messages'[m].topic = t
    BY DEF RowsInTopic
  <2>2. messages'[m] # Null
    BY <2>0 DEF GInv, RowsBacked
  <2>3. CASE change'[t][g] = change[t][g]
    <3>1. messages[m] # Null /\ messages[m].topic = t
      BY <1>2, <2>3 DEF GInv, RowsBacked, RowsInTopic
    <3> QED
      BY <2>1, <2>2, <3>1 DEF RowKept
  <2>4. CASE \E s \in KnownTopic, h \in Groups :
               RegisterConsumerGroup(s, h) \/ UnregisterConsumerGroup(s, h)
    <3>1. PICK s \in KnownTopic, h \in Groups :
               RegisterConsumerGroup(s, h) \/ UnregisterConsumerGroup(s, h)
      BY <2>4
    <3>2. CASE s = t /\ h = g
      BY <1>2, <3>1, <3>2, OpenSteps
    <3>3. CASE s # t \/ h # g
      BY <1>2, <2>3, <3>1, <3>3, OpenSteps
    <3> QED
      BY <3>2, <3>3
  <2>5. CASE \E s \in KnownTopic, h \in Groups : ChangeEffect(s, h)
    BY <2>3, <2>5 DEF ChangeEffect
  <2>6. CASE MessageStep
    BY <2>3, <2>6 DEF MessageStep
  <2>7. CASE MemberStep
    BY <2>3, <2>7, MemberSteps
  <2> QED
    BY <2>0, <2>4, <2>5, <2>6, <2>7 DEF GroupStep, MemberStep
<1> QED
  BY <1>1, <1>2, PlainHolds, PTL DEF GSpec

-----------------------------------------------------------------------------
(* No delivery without its group *)

\* An unregistration in progress has deleted every delivery of the group but those of
\* messages inserted since.
LeavingCovers ==
    \A t \in KnownTopic, g \in Groups, m \in Ids :
        /\ change[t][g] # Null /\ ~change[t][g].joins
        /\ messages[m] # Null /\ messages[m].topic = t /\ deliveries[m][g] # Null
        => change[t][g].rows[m] # Null \/ g \in raced[m]

\* Where no message changes its topic, a delivery without its group is the mark of an
\* INSERT that overlapped an unregistration, and of nothing else
\* (RegisterConsumerGroup, UnregisterConsumerGroup, AckForGroup, fn_mint_deliveries).
THEOREM NoGhostDeliveryHolds ==
    ASSUME TopicsStay
    PROVE  GSpec => []NoGhostDelivery
<1>1. GInit => NoGhostDelivery /\ LeavingCovers
  BY DEF GInit, NoGhostDelivery, LeavingCovers, NoDeliveries, Live
<1>2. ASSUME GInv, Plain, RowsInTopic, NoGhostDelivery, LeavingCovers, [GNext]_allVars
      PROVE  NoGhostDelivery' /\ LeavingCovers'
  <2>0. GroupStep /\ GInv'
    BY <1>2, GroupSteps
  <2>1. \A m \in Ids : RowKept(m)
    BY <1>2, <2>0, PlainGroupStep
  <2> SUFFICES ASSUME NEW m \in Ids, NEW h \in Groups,
                      messages'[m] # Null, deliveries'[m][h] # Null, h \notin raced'[m]
               PROVE  /\ <<messages'[m].topic, h>> \in groups'
                      /\ \A t \in KnownTopic :
                            /\ change'[t][h] # Null /\ ~change'[t][h].joins
                            /\ messages'[m].topic = t
                            => change'[t][h].rows[m] # Null
    BY DEF NoGhostDelivery, LeavingCovers, Live
  <2>2. messages[m] # Null => messages'[m].topic = messages[m].topic
    BY <2>1 DEF RowKept
  <2>3. /\ messages[m] # Null /\ deliveries[m][h] # Null /\ h \notin raced[m]
        => /\ <<messages[m].topic, h>> \in groups
           /\ \A t \in KnownTopic : /\ change[t][h] # Null /\ ~change[t][h].joins
                                    /\ messages[m].topic = t
                                    => change[t][h].rows[m] # Null
    BY <1>2 DEF NoGhostDelivery, LeavingCovers, Live
  <2>4. CASE MessageStep
    <3>1. /\ groups' = groups /\ change' = change /\ raced[m] \subseteq raced'[m]
          /\ messages[m] # Null => deliveries'[m][h] = deliveries[m][h]
          /\ messages[m] = Null =>
                /\ deliveries'[m][h] # Null => <<messages'[m].topic, h>> \in groups
                /\ \A t \in KnownTopic : messages'[m].topic = t /\ change[t][h] # Null
                                         => h \in raced'[m]
      BY <1>2, <2>0, <2>4, MessageStepDelivery
    <3>2. CASE messages[m] = Null
      BY <3>1, <3>2
    <3>3. CASE messages[m] # Null
      BY <2>2, <2>3, <3>1, <3>3
    <3> QED
      BY <3>2, <3>3
  <2>5. CASE \E t \in KnownTopic, g \in Groups :
               RegisterConsumerGroup(t, g) \/ UnregisterConsumerGroup(t, g)
    <3>1. PICK t \in KnownTopic, g \in Groups :
               RegisterConsumerGroup(t, g) \/ UnregisterConsumerGroup(t, g)
      BY <2>5
    <3>2. /\ groups' = groups /\ deliveries' = deliveries /\ raced' = raced
          /\ messages' = messages
          /\ \A s \in KnownTopic, f \in Groups : s # t \/ f # g => change'[s][f] = change[s][f]
          /\ \/ change'[t][g].joins
             \/ \A n \in Ids : /\ messages[n] # Null /\ messages[n].topic = t
                               /\ deliveries[n][g] # Null
                               => change'[t][g].rows[n] # Null
      BY <1>2, <3>1, OpenSteps
    <3> QED
      BY <2>3, <3>2
  <2>6. CASE \E t \in KnownTopic, g \in Groups : ChangeEffect(t, g)
    <3>1. PICK t \in KnownTopic, g \in Groups : ChangeEffect(t, g)
      BY <2>6
    <3>2. /\ messages' = messages /\ raced[m] \subseteq raced'[m] /\ change'[t][g] = Null
          /\ \A s \in KnownTopic, f \in Groups : s # t \/ f # g => change'[s][f] = change[s][f]
      BY <3>1 DEF ChangeEffect, vars
    <3>3. CASE h = g /\ change[t][g].rows[m] # Null
      <4>1. /\ messages[m].topic = t /\ change[t][g].joins
            /\ groups' = groups \cup {<<t, g>>}
        BY <1>2, <3>1, <3>3 DEF ChangeEffect, RowsInTopic
      <4>2. \A s \in KnownTopic : change'[s][h] # Null => s # t
        BY <3>2, <3>3
      <4> QED
        BY <3>2, <3>3, <4>1, <4>2
    <3>4. CASE h # g \/ change[t][g].rows[m] = Null
      <4>1. deliveries'[m][h] = deliveries[m][h]
        BY <3>1, <3>4 DEF ChangeEffect
      <4>2. ~(~change[t][g].joins /\ h = g /\ messages[m].topic = t)
        BY <2>3, <3>1, <3>2, <3>4, <4>1 DEF ChangeEffect
      <4>3. <<messages[m].topic, h>> \in groups'
        BY <2>3, <3>1, <3>2, <4>1, <4>2 DEF ChangeEffect
      <4> QED
        BY <2>3, <3>2, <4>1, <4>3
    <3> QED
      BY <3>3, <3>4
  <2>7. CASE MemberStep
    <3>1. /\ groups' = groups /\ change' = change /\ raced' = raced
          /\ messages'[m] = messages[m] /\ deliveries[m][h] # Null
      BY <2>7, MemberSteps
    <3> QED
      BY <2>3, <3>1
  <2> QED
    BY <2>0, <2>4, <2>5, <2>6, <2>7 DEF GroupStep, MemberStep
<1> QED
  BY <1>1, <1>2, RowsInTopicHolds, PTL DEF GSpec

-----------------------------------------------------------------------------
(* No group misses a message *)

\* A registration in progress has backfilled every pending message of the topic but
\* those the group has or had already and those inserted since.
JoiningCovers ==
    \A t \in KnownTopic, g \in Groups, m \in Ids :
        /\ change[t][g] # Null /\ change[t][g].joins
        /\ messages[m] # Null /\ messages[m].status = "pending" /\ messages[m].topic = t
        => \/ change[t][g].rows[m] # Null
           \/ deliveries[m][g] # Null
           \/ g \in raced[m]
           \/ got[m][g] = messages[m].payload

\* A claim hands over the payload, and it stays the payload handed over while the
\* delivery is processed.
LEMMA HandedNext ==
    ASSUME Consumers = {}, Keys = {}, GInv, GInv', Plain, Handed, GroupStep
    PROVE  Handed' /\ \A m \in Ids, h \in Groups :
              messages[m] # Null /\ messages'[m] # Null =>
                  got'[m][h] = got[m][h] \/ got'[m][h] = messages'[m].payload
<1>0. TopicsStay
  BY DEF TopicsStay
<1>1. \A m \in Ids : RowKept(m)
  BY <1>0, PlainGroupStep
<1> SUFFICES ASSUME NEW m \in Ids, NEW h \in Groups, messages'[m] # Null
             PROVE  /\ deliveries'[m][h] # Null /\ deliveries'[m][h].status = "processing"
                       => got'[m][h] = messages'[m].payload
                    /\ messages[m] # Null =>
                          got'[m][h] = got[m][h] \/ got'[m][h] = messages'[m].payload
  BY DEF Handed, HasDelivery
<1>2. messages[m] # Null => messages'[m].payload = messages[m].payload
  BY <1>1 DEF RowKept
<1>3. /\ messages[m] # Null
      /\ deliveries[m][h] # Null /\ deliveries[m][h].status = "processing"
      => got[m][h] = messages[m].payload
  BY DEF Handed, HasDelivery
<1>4. CASE MessageStep
  <2>1. /\ got' = got
        /\ messages[m] # Null => deliveries'[m][h] = deliveries[m][h]
        /\ messages[m] = Null =>
              deliveries'[m][h] = Null \/ deliveries'[m][h].status = "pending"
    BY <1>4, MessageStepDelivery
  <2> QED
    BY <1>2, <1>3, <2>1
<1>5. CASE \E t \in KnownTopic, g \in Groups :
             RegisterConsumerGroup(t, g) \/ UnregisterConsumerGroup(t, g)
  <2>1. messages' = messages /\ deliveries' = deliveries /\ got' = got
    BY <1>5, OpenSteps
  <2> QED
    BY <1>3, <2>1
<1>6. CASE \E t \in KnownTopic, g \in Groups : ChangeEffect(t, g)
  <2>1. PICK t \in KnownTopic, g \in Groups : ChangeEffect(t, g)
    BY <1>6
  <2>2. messages' = messages /\ got' = got
    BY <2>1 DEF ChangeEffect, vars
  <2>3. CASE h = g /\ change[t][g].rows[m] # Null
    <3>1. deliveries'[m][h] = Null \/ deliveries'[m][h].status = "pending"
      BY <2>1, <2>3 DEF ChangeEffect, GInv, RowsBacked
    <3> QED
      BY <2>2, <3>1
  <2>4. CASE h # g \/ change[t][g].rows[m] = Null
    <3>1. deliveries'[m][h] = deliveries[m][h]
      BY <2>1, <2>4 DEF ChangeEffect
    <3> QED
      BY <1>3, <2>2, <3>1
  <2> QED
    BY <2>3, <2>4
<1>7. CASE \E g \in Groups, S \in SUBSET Ids : WaitFor(g, S) /\ ClaimEffect(g, S)
  <2>1. PICK g \in Groups, S \in SUBSET Ids : ClaimEffect(g, S)
    BY <1>7
  <2>2. messages' = messages
    BY <2>1 DEF ClaimEffect, vars
  <2>3. CASE m \in S /\ h = g
    BY <2>1, <2>2, <2>3 DEF ClaimEffect
  <2>4. CASE ~(m \in S /\ h = g)
    <3>1. deliveries'[m][h] = deliveries[m][h] /\ got'[m][h] = got[m][h]
      BY <2>1, <2>4 DEF ClaimEffect
    <3> QED
      BY <1>3, <2>2, <3>1
  <2> QED
    BY <2>3, <2>4
<1>8. CASE \E c \in Members, n \in Ids, g \in Groups : AskEffect(c, n, g)
  BY <1>3, <1>8 DEF AskEffect, vars
<1>9. CASE \E n \in Ids, g \in Groups : AckEffect(n, g)
  <2>1. /\ messages'[m] = messages[m] /\ got' = got
        /\ deliveries'[m][h] = Null \/ deliveries'[m][h] = deliveries[m][h]
    BY <1>9 DEF AckEffect
  <2> QED
    BY <1>3, <2>1
<1>10. CASE \E n \in Ids, g \in Groups : TouchEffect(n, g)
  <2>1. PICK n \in Ids, g \in Groups : TouchEffect(n, g)
    BY <1>10
  <2>2. messages' = messages /\ got' = got
    BY <2>1 DEF TouchEffect, vars
  <2>3. /\ deliveries'[m][h] = Null <=> deliveries[m][h] = Null
        /\ deliveries[m][h] # Null /\ deliveries'[m][h].status = "processing"
              => deliveries[m][h].status = "processing"
    BY <2>1 DEF TouchEffect
  <2> QED
    BY <1>3, <2>2, <2>3
<1>11. CASE UNCHANGED <<vars, groups, deliveries, change, acking, got, raced, crossed>>
  BY <1>3, <1>11 DEF vars
<1> QED
  BY <1>4, <1>5, <1>6, <1>7, <1>8, <1>9, <1>10, <1>11 DEF GroupStep

\* Where every client uses a group and messages have no keys, a registered group
\* that has no delivery of a pending message has received it, unless the message was
\* inserted while the group was joining: the trigger and the backfill cover every
\* other interleaving of enqueues, replays, registrations, claims and acks
\* (RegisterConsumerGroup, fn_mint_deliveries, AckForGroup).
THEOREM GroupMissesNothingHolds ==
    ASSUME Consumers = {}, Keys = {}
    PROVE  GSpec => []GroupMissesNothing
<1>0. TopicsStay
  BY DEF TopicsStay
<1>1. GInit => GroupMissesNothing /\ Handed /\ JoiningCovers
  BY DEF GInit, Init, GroupMissesNothing, Handed, JoiningCovers, Live, HasDelivery, NoDeliveries
<1>2. ASSUME GInv, Plain, RowsInTopic, GroupMissesNothing, Handed, JoiningCovers, [GNext]_allVars
      PROVE  GroupMissesNothing' /\ Handed' /\ JoiningCovers'
  <2>0. GroupStep /\ GInv'
    BY <1>2, GroupSteps
  <2>1. \A m \in Ids : RowKept(m)
    BY <1>0, <1>2, <2>0, PlainGroupStep
  <2>h. Handed' /\ \A m \in Ids, h \in Groups :
              messages[m] # Null /\ messages'[m] # Null =>
                  got'[m][h] = got[m][h] \/ got'[m][h] = messages'[m].payload
    BY <1>2, <2>0, HandedNext
  <2> SUFFICES ASSUME NEW m \in Ids, NEW h \in Groups, messages'[m] # Null,
                      messages'[m].status = "pending",
                      deliveries'[m][h] = Null, h \notin raced'[m],
                      got'[m][h] # messages'[m].payload
               PROVE  /\ <<messages'[m].topic, h>> \notin groups'
                      /\ \A t \in KnownTopic :
                            /\ change'[t][h] # Null /\ change'[t][h].joins
                            /\ messages'[m].topic = t
                            => change'[t][h].rows[m] # Null
    BY <2>h DEF GroupMissesNothing, JoiningCovers, Live
  <2>2. messages[m] # Null =>
          /\ messages'[m].topic = messages[m].topic /\ messages[m].status = "pending"
          /\ messages'[m].payload = messages[m].payload
          /\ got[m][h] # messages[m].payload
    BY <2>1, <2>h DEF RowKept
  <2>3. /\ messages[m] # Null /\ deliveries[m][h] = Null /\ h \notin raced[m]
        => /\ <<messages[m].topic, h>> \notin groups
           /\ \A t \in KnownTopic : /\ change[t][h] # Null /\ change[t][h].joins
                                    /\ messages[m].topic = t
                                    => change[t][h].rows[m] # Null
    BY <1>2, <2>2 DEF GroupMissesNothing, JoiningCovers, Live
  <2>4. CASE MessageStep
    <3>1. /\ groups' = groups /\ change' = change /\ raced[m] \subseteq raced'[m]
          /\ messages[m] # Null => deliveries'[m][h] = deliveries[m][h]
          /\ messages[m] = Null =>
                /\ <<messages'[m].topic, h>> \in groups => deliveries'[m][h] # Null
                /\ \A t \in KnownTopic : messages'[m].topic = t /\ change[t][h] # Null
                                         => h \in raced'[m]
      BY <1>2, <2>0, <2>4, MessageStepDelivery
    <3>2. CASE messages[m] = Null
      BY <3>1, <3>2
    <3>3. CASE messages[m] # Null
      BY <2>2, <2>3, <3>1, <3>3
    <3> QED
      BY <3>2, <3>3
  <2>5. CASE \E t \in KnownTopic, g \in Groups :
               RegisterConsumerGroup(t, g) \/ UnregisterConsumerGroup(t, g)
    <3>1. PICK t \in KnownTopic, g \in Groups :
               RegisterConsumerGroup(t, g) \/ UnregisterConsumerGroup(t, g)
      BY <2>5
    <3>2. /\ groups' = groups /\ deliveries' = deliveries /\ raced' = raced
          /\ messages' = messages
          /\ \A s \in KnownTopic, f \in Groups : s # t \/ f # g => change'[s][f] = change[s][f]
          /\ \/ ~change'[t][g].joins
             \/ \A n \in Ids : /\ InStatus(n, {"pending"}) /\ messages[n].topic = t
                               /\ deliveries[n][g] = Null
                               => change'[t][g].rows[n] # Null
      BY <1>2, <3>1, OpenSteps
    <3>3. InStatus(m, {"pending"})
      BY <3>2 DEF InStatus
    <3> QED
      BY <2>3, <3>2, <3>3
  <2>6. CASE \E t \in KnownTopic, g \in Groups : ChangeEffect(t, g)
    <3>1. PICK t \in KnownTopic, g \in Groups : ChangeEffect(t, g)
      BY <2>6
    <3>2. /\ messages' = messages /\ raced[m] \subseteq raced'[m] /\ change'[t][g] = Null
          /\ \A s \in KnownTopic, f \in Groups : s # t \/ f # g => change'[s][f] = change[s][f]
      BY <3>1 DEF ChangeEffect, vars
    <3>3. CASE h = g /\ change[t][g].rows[m] # Null
      <4>1. ~change[t][g].joins
        <5> SUFFICES ASSUME change[t][g].joins PROVE FALSE
          OBVIOUS
        <5>1. deliveries'[m][h] = change[t][g].rows[m]
          BY <3>1, <3>3 DEF ChangeEffect
        <5> QED
          BY <3>3, <5>1
      <4>2. messages[m].topic = t /\ groups' = groups \ {<<t, g>>}
        BY <1>2, <3>1, <3>3, <4>1 DEF ChangeEffect, RowsInTopic
      <4> QED
        BY <3>2, <3>3, <4>2
    <3>4. CASE h # g \/ change[t][g].rows[m] = Null
      <4>1. deliveries'[m][h] = deliveries[m][h]
        BY <3>1, <3>4 DEF ChangeEffect
      <4>2. ~(change[t][g].joins /\ h = g /\ messages[m].topic = t)
        BY <2>3, <3>1, <3>2, <3>4, <4>1 DEF ChangeEffect
      <4>3. <<messages[m].topic, h>> \notin groups'
        BY <2>3, <3>1, <3>2, <4>1, <4>2 DEF ChangeEffect
      <4> QED
        BY <2>3, <3>2, <4>1, <4>3
    <3> QED
      BY <3>3, <3>4
  <2>7. CASE MemberStep
    <3>1. /\ groups' = groups /\ change' = change /\ raced' = raced
          /\ messages'[m] = messages[m]
          /\ \/ deliveries[m][h] # Null => deliveries'[m][h] # Null
             \/ \E g \in Groups : AckEffect(m, g) /\ (h = g \/ acking[m][g].last)
      BY <2>7, MemberSteps
    <3>2. CASE deliveries[m][h] = Null
      BY <2>3, <3>1, <3>2
    <3>3. CASE deliveries[m][h] # Null
      <4>1. PICK g \in Groups : AckEffect(m, g) /\ (h = g \/ acking[m][g].last)
        BY <3>1, <3>3
      <4>2. h = g /\ HasDelivery(m, h, {"processing"})
        BY <4>1 DEF AckEffect
      <4>3. got[m][h] = messages[m].payload
        BY <1>2, <3>1, <4>2 DEF Handed
      <4> QED
        BY <2>2, <3>1, <4>3
    <3> QED
      BY <3>2, <3>3
  <2> QED
    BY <2>0, <2>4, <2>5, <2>6, <2>7 DEF GroupStep, MemberStep
<1> QED
  BY <1>0, <1>1, <1>2, RowsInTopicHolds, PTL DEF GSpec

-----------------------------------------------------------------------------
(* A message goes with its last ack *)

\* Where groups stay: changes are registrations, a delivery's group is registered, and
\* a registration in progress has backfilled every pending message but new ones.
StayingGroups ==
    /\ \A t \in KnownTopic, g \in Groups : change[t][g] # Null => change[t][g].joins
    /\ \A m \in Ids, g \in Groups :
          messages[m] # Null /\ deliveries[m][g] # Null => <<messages[m].topic, g>> \in groups
    /\ \A t \in KnownTopic, g \in Groups, m \in Ids :
          /\ change[t][g] # Null
          /\ messages[m] # Null /\ messages[m].status = "pending" /\ messages[m].topic = t
          => change[t][g].rows[m] # Null \/ g \in raced[m]

\* That is kept.
LEMMA StayingGroupsNext ==
    ASSUME Consumers = {}, GroupsMayLeave = FALSE, GInv, GInv', Plain, RowsInTopic,
           StayingGroups, GroupStep
    PROVE  StayingGroups'
<1>0. TopicsStay
  BY DEF TopicsStay
<1>1. \A m \in Ids : RowKept(m)
  BY <1>0, PlainGroupStep
<1>2. CASE MessageStep
  <2>1. change' = change /\ groups' = groups
    BY <1>2 DEF MessageStep
  <2>2. ASSUME NEW m \in Ids, NEW g \in Groups, messages'[m] # Null
        PROVE  /\ deliveries'[m][g] # Null => <<messages'[m].topic, g>> \in groups
               /\ \A t \in KnownTopic :
                     /\ change[t][g] # Null
                     /\ messages'[m].status = "pending" /\ messages'[m].topic = t
                     => change[t][g].rows[m] # Null \/ g \in raced'[m]
    <3>1. /\ raced[m] \subseteq raced'[m]
          /\ messages[m] # Null => deliveries'[m][g] = deliveries[m][g]
          /\ messages[m] = Null =>
                /\ deliveries'[m][g] # Null => <<messages'[m].topic, g>> \in groups
                /\ \A t \in KnownTopic : messages'[m].topic = t /\ change[t][g] # Null
                                         => g \in raced'[m]
      BY <1>2, <2>2, MessageStepDelivery
    <3>2. messages[m] # Null =>
            /\ messages'[m].topic = messages[m].topic
            /\ messages'[m].status = "pending" => messages[m].status = "pending"
      BY <1>1, <2>2 DEF RowKept
    <3>3. CASE messages[m] = Null
      BY <3>1, <3>3
    <3>4. CASE messages[m] # Null
      BY <3>1, <3>2, <3>4 DEF StayingGroups
    <3> QED
      BY <3>3, <3>4
  <2> QED
    BY <2>1, <2>2 DEF StayingGroups
<1>3. CASE \E t \in KnownTopic, g \in Groups :
             RegisterConsumerGroup(t, g) \/ UnregisterConsumerGroup(t, g)
  <2>1. PICK t \in KnownTopic, g \in Groups :
             RegisterConsumerGroup(t, g) \/ UnregisterConsumerGroup(t, g)
    BY <1>3
  <2>2. /\ groups' = groups /\ deliveries' = deliveries /\ raced' = raced
        /\ messages' = messages /\ change'[t][g].joins /\ RegisterConsumerGroup(t, g)
        /\ \A s \in KnownTopic, f \in Groups : s # t \/ f # g => change'[s][f] = change[s][f]
        /\ \A n \in Ids : /\ InStatus(n, {"pending"}) /\ messages[n].topic = t
                          /\ deliveries[n][g] = Null
                          => change'[t][g].rows[n] # Null
    BY <2>1, OpenSteps
  <2>3. <<t, g>> \notin groups
    BY <2>2 DEF RegisterConsumerGroup
  <2>4. \A n \in Ids : messages[n] # Null /\ messages[n].topic = t => deliveries[n][g] = Null
    BY <2>3 DEF StayingGroups
  <2>5. \A n \in Ids : /\ messages[n] # Null /\ messages[n].status = "pending"
                       /\ messages[n].topic = t
                       => change'[t][g].rows[n] # Null
    BY <2>2, <2>4 DEF InStatus
  <2> QED
    BY <2>2, <2>5 DEF StayingGroups
<1>4. CASE \E t \in KnownTopic, g \in Groups : ChangeEffect(t, g)
  <2>1. PICK t \in KnownTopic, g \in Groups : ChangeEffect(t, g)
    BY <1>4
  <2>2. /\ messages' = messages /\ change'[t][g] = Null
        /\ \A m \in Ids : raced[m] \subseteq raced'[m]
        /\ \A s \in KnownTopic, f \in Groups : s # t \/ f # g => change'[s][f] = change[s][f]
    BY <2>1 DEF ChangeEffect, vars
  <2>3. groups' = groups \cup {<<t, g>>}
    BY <2>1 DEF ChangeEffect, StayingGroups
  <2>4. ASSUME NEW m \in Ids, NEW h \in Groups, messages[m] # Null, deliveries'[m][h] # Null
        PROVE  <<messages[m].topic, h>> \in groups'
    <3>1. CASE h = g /\ change[t][g].rows[m] # Null
      BY <2>1, <2>3, <3>1 DEF RowsInTopic, ChangeEffect
    <3>2. CASE h # g \/ change[t][g].rows[m] = Null
      BY <2>1, <2>3, <2>4, <3>2 DEF StayingGroups, ChangeEffect
    <3> QED
      BY <3>1, <3>2
  <2>5. \A s \in KnownTopic, f \in Groups : change'[s][f] # Null => change'[s][f] = change[s][f]
    BY <2>2
  <2> QED
    BY <2>2, <2>4, <2>5 DEF StayingGroups
<1>5. CASE MemberStep
  <2>1. /\ groups' = groups /\ change' = change /\ raced' = raced
        /\ \A m \in Ids : messages'[m] = messages[m] \/ messages'[m] = Null
        /\ \A m \in Ids, h \in Groups : deliveries'[m][h] # Null => deliveries[m][h] # Null
    <3>1. \A m \in Ids, h \in Groups :
            /\ groups' = groups /\ change' = change /\ raced' = raced
            /\ messages'[m] = messages[m] \/ messages'[m] = Null
            /\ deliveries'[m][h] # Null => deliveries[m][h] # Null
      BY <1>5, MemberSteps
    <3>2. groups' = groups /\ change' = change /\ raced' = raced
      BY <1>5 DEF MemberStep, ClaimEffect, AskEffect, AckEffect, TouchEffect
    <3>3. \A m \in Ids : messages'[m] = messages[m] \/ messages'[m] = Null
      BY <1>5 DEF MemberStep, ClaimEffect, AskEffect, AckEffect, TouchEffect, vars
    <3> QED
      BY <3>1, <3>2, <3>3
  <2> QED
    BY <2>1 DEF StayingGroups
<1> QED
  BY <1>2, <1>3, <1>4, <1>5 DEF GroupStep, MemberStep

\* Two acks of a message are open at a time only where they have crossed, and one that
\* has not crossed and counted another delivery leaves that delivery behind.
AcksWait ==
    /\ \A m \in Ids, g, h \in Groups :
          acking[m][g] # Null /\ acking[m][h] # Null /\ g # h => m \in crossed
    /\ \A m \in Ids \ crossed, g \in Groups :
          acking[m][g] # Null /\ ~acking[m][g].last
          => \E h \in Groups \ {g} : deliveries[m][h] # Null

\* Where groups stay, that is kept: a delivery ends by an ack only.
LEMMA AcksWaitNext ==
    ASSUME GInv, GInv', StayingGroups, AcksWait, GroupStep
    PROVE  AcksWait'
<1>1. ASSUME acking' = acking, crossed' = crossed,
             \A m \in Ids, g, h \in Groups :
                 acking[m][g] # Null /\ deliveries[m][h] # Null => deliveries'[m][h] # Null
      PROVE  AcksWait'
  BY <1>1 DEF AcksWait
<1>2. CASE MessageStep
  <2>1. ASSUME NEW m \in Ids, NEW g \in Groups, NEW h \in Groups,
               acking[m][g] # Null, deliveries[m][h] # Null
        PROVE  deliveries'[m][h] # Null
    <3>1. acking' = acking
      BY <1>2 DEF MessageStep
    <3>2. deliveries'[m][g] # Null /\ deliveries[m][g] # Null
      BY <2>1, <3>1 DEF GInv, AckHolds, HasDelivery
    <3>3. messages[m] # Null /\ messages'[m] # Null
      BY <3>2 DEF GInv, Backed
    <3> QED
      BY <1>2, <2>1, <3>3, MessageStepDelivery
  <2> QED
    BY <1>1, <1>2, <2>1 DEF MessageStep
<1>3. CASE \E t \in KnownTopic, g \in Groups :
             RegisterConsumerGroup(t, g) \/ UnregisterConsumerGroup(t, g)
  BY <1>1, <1>3, OpenSteps
<1>4. CASE \E t \in KnownTopic, g \in Groups : ChangeEffect(t, g)
  <2>1. PICK t \in KnownTopic, g \in Groups : ChangeEffect(t, g)
    BY <1>4
  <2>2. change[t][g].joins
    BY <2>1 DEF ChangeEffect, StayingGroups
  <2>3. \A m \in Ids, h \in Groups : deliveries[m][h] # Null => deliveries'[m][h] # Null
    BY <2>1, <2>2 DEF ChangeEffect
  <2> QED
    BY <1>1, <2>1, <2>3 DEF ChangeEffect
<1>5. CASE \E g \in Groups, S \in SUBSET Ids : WaitFor(g, S) /\ ClaimEffect(g, S)
  <2>1. PICK g \in Groups, S \in SUBSET Ids : ClaimEffect(g, S)
    BY <1>5
  <2>2. ASSUME NEW m \in Ids, NEW h \in Groups, deliveries[m][h] # Null
        PROVE  deliveries'[m][h] # Null
    <3>1. CASE m \in S /\ h = g
      BY <2>1, <3>1, GroupAssumption DEF ClaimEffect
    <3>2. CASE ~(m \in S /\ h = g)
      BY <2>1, <2>2, <3>2 DEF ClaimEffect
    <3> QED
      BY <3>1, <3>2
  <2> QED
    BY <1>1, <2>1, <2>2 DEF ClaimEffect
<1>6. CASE \E c \in Members, n \in Ids, f \in Groups : AskEffect(c, n, f)
  <2>1. PICK c \in Members, n \in Ids, f \in Groups : AskEffect(c, n, f)
    BY <1>6
  <2>2. /\ deliveries' = deliveries /\ crossed \subseteq crossed'
        /\ \A h \in Groups : acking[n][h] # Null => n \in crossed'
        /\ acking'[n][f].last <=> LastDelivery(n, f)
        /\ \A m \in Ids, h \in Groups : m # n \/ h # f => acking'[m][h] = acking[m][h]
    BY <2>1 DEF AskEffect
  <2>3. ASSUME NEW m \in Ids, NEW g \in Groups, NEW h \in Groups,
               acking'[m][g] # Null, acking'[m][h] # Null, g # h
        PROVE  m \in crossed'
    BY <2>2, <2>3 DEF AcksWait
  <2>4. ASSUME NEW m \in Ids, m \notin crossed', NEW g \in Groups,
               acking'[m][g] # Null, ~acking'[m][g].last
        PROVE  \E h \in Groups \ {g} : deliveries[m][h] # Null
    <3>1. CASE m = n /\ g = f
      BY <2>2, <2>4, <3>1 DEF LastDelivery
    <3>2. CASE m # n \/ g # f
      BY <2>2, <2>4, <3>2 DEF AcksWait
    <3> QED
      BY <3>1, <3>2
  <2> QED
    BY <2>2, <2>3, <2>4 DEF AcksWait
<1>7. CASE \E n \in Ids, f \in Groups : AckEffect(n, f)
  <2>1. PICK n \in Ids, f \in Groups : AckEffect(n, f)
    BY <1>7
  <2>2. /\ crossed' = crossed /\ acking[n][f] # Null /\ acking'[n][f] = Null
        /\ \A m \in Ids, h \in Groups : m # n \/ h # f => acking'[m][h] = acking[m][h]
        /\ \A m \in Ids, h \in Groups : m # n => deliveries'[m][h] = deliveries[m][h]
    BY <2>1 DEF AckEffect
  <2>3. ASSUME NEW m \in Ids, m \notin crossed, NEW g \in Groups,
               acking'[m][g] # Null, ~acking'[m][g].last
        PROVE  \E h \in Groups \ {g} : deliveries'[m][h] # Null
    <3>1. m # n
      BY <2>2, <2>3 DEF AcksWait
    <3> QED
      BY <2>2, <2>3, <3>1 DEF AcksWait
  <2>4. \A m \in Ids, g, h \in Groups :
          acking'[m][g] # Null /\ acking'[m][h] # Null /\ g # h => m \in crossed
    BY <2>2 DEF AcksWait
  <2> QED
    BY <2>2, <2>3, <2>4 DEF AcksWait
<1>8. CASE \E n \in Ids, f \in Groups : TouchEffect(n, f)
  <2>1. PICK n \in Ids, f \in Groups : TouchEffect(n, f)
    BY <1>8
  <2>2. \A m \in Ids, h \in Groups : deliveries[m][h] # Null => deliveries'[m][h] # Null
    BY <2>1 DEF TouchEffect
  <2> QED
    BY <1>1, <2>1, <2>2 DEF TouchEffect
<1>9. CASE UNCHANGED <<vars, groups, deliveries, change, acking, got, raced, crossed>>
  BY <1>1, <1>9
<1> QED
  BY <1>2, <1>3, <1>4, <1>5, <1>6, <1>7, <1>8, <1>9 DEF GroupStep

\* Where every client uses a group and groups stay, a pending message of a topic that
\* has groups still has a delivery unless two acks of it have overlapped: the ack that
\* takes the last one deletes the message with it (AckForGroup's count).
THEOREM NoServedRemnantHolds ==
    ASSUME Consumers = {}, GroupsMayLeave = FALSE
    PROVE  GSpec => []NoServedRemnant
<1>0. TopicsStay
  BY DEF TopicsStay
<1>1. GInit => NoServedRemnant /\ StayingGroups /\ AcksWait
  BY DEF GInit, Init, NoServedRemnant, StayingGroups, AcksWait, Live, NoDeliveries
<1>2. ASSUME GInv, Plain, RowsInTopic, NoServedRemnant, StayingGroups, AcksWait, [GNext]_allVars
      PROVE  NoServedRemnant' /\ StayingGroups' /\ AcksWait'
  <2>0. GroupStep /\ GInv'
    BY <1>2, GroupSteps
  <2>1. \A m \in Ids : RowKept(m)
    BY <1>0, <1>2, <2>0, PlainGroupStep
  <2>k. StayingGroups' /\ AcksWait'
    BY <1>2, <2>0, StayingGroupsNext, AcksWaitNext
  <2> SUFFICES ASSUME NEW m \in Ids, m \notin crossed',
                      messages'[m] # Null, messages'[m].status = "pending",
                      NEW h \in Groups, <<messages'[m].topic, h>> \in groups', h \notin raced'[m]
               PROVE  \E g \in Groups : deliveries'[m][g] # Null
    BY <2>k DEF NoServedRemnant, Live
  <2>2. messages[m] # Null =>
          messages'[m].topic = messages[m].topic /\ messages[m].status = "pending"
    BY <1>2, <2>1 DEF RowKept
  <2>3. /\ messages[m] # Null /\ m \notin crossed
        /\ <<messages'[m].topic, h>> \in groups /\ h \notin raced[m]
        => \E g \in Groups : deliveries[m][g] # Null
    BY <1>2, <2>2 DEF NoServedRemnant, Live
  <2>4. CASE MessageStep
    <3>1. /\ groups' = groups /\ crossed' = crossed /\ raced[m] \subseteq raced'[m]
          /\ messages[m] = Null /\ <<messages'[m].topic, h>> \in groups => deliveries'[m][h] # Null
          /\ messages[m] # Null => \A g \in Groups : deliveries'[m][g] = deliveries[m][g]
      BY <1>2, <2>0, <2>4, MessageStepDelivery
    <3> QED
      BY <2>3, <3>1
  <2>5. CASE \E t \in KnownTopic, g \in Groups :
               RegisterConsumerGroup(t, g) \/ UnregisterConsumerGroup(t, g)
    <3>1. UNCHANGED <<messages, groups, deliveries, raced, crossed>>
      BY <1>2, <2>5, OpenSteps
    <3> QED
      BY <2>3, <3>1
  <2>6. CASE \E t \in KnownTopic, g \in Groups : ChangeEffect(t, g)
    <3>1. PICK t \in KnownTopic, g \in Groups : ChangeEffect(t, g)
      BY <2>6
    <3>2. change[t][g].joins
      BY <1>2, <3>1 DEF ChangeEffect, StayingGroups
    <3>3. /\ messages' = messages /\ crossed' = crossed /\ raced[m] \subseteq raced'[m]
          /\ groups' = groups \cup {<<t, g>>}
      BY <3>1, <3>2 DEF ChangeEffect, vars
    <3>d. /\ change[t][g].rows[m] # Null => deliveries'[m][g] # Null
          /\ \A f \in Groups : deliveries[m][f] # Null => deliveries'[m][f] # Null
      BY <3>1, <3>2 DEF ChangeEffect
    <3>4. CASE <<messages'[m].topic, h>> \in groups
      BY <2>3, <3>3, <3>4, <3>d
    <3>5. CASE messages[m].topic = t /\ h = g
      <4>1. change[t][g].rows[m] # Null
        BY <1>2, <2>2, <3>1, <3>3, <3>5 DEF StayingGroups, ChangeEffect
      <4> QED
        BY <3>d, <4>1
    <3> QED
      BY <3>3, <3>4, <3>5
  <2>7. CASE MemberStep
    <3>1. \A f \in Groups :
            /\ UNCHANGED <<groups, raced>> /\ crossed \subseteq crossed'
            /\ messages'[m] = messages[m]
            /\ \/ deliveries[m][f] # Null => deliveries'[m][f] # Null
               \/ \E g \in Groups : AckEffect(m, g) /\ (f = g \/ acking[m][g].last)
      BY <2>7, MemberSteps
    <3>2. PICK f \in Groups : deliveries[m][f] # Null
      BY <2>3, <3>1
    <3>3. CASE deliveries'[m][f] # Null
      BY <3>3
    <3>4. CASE deliveries'[m][f] = Null
      <4>1. PICK g \in Groups : AckEffect(m, g)
        BY <3>1, <3>2, <3>4
      <4>2. /\ acking[m][g] # Null /\ ~acking[m][g].last
            /\ \A e \in Groups : e # g => deliveries'[m][e] = deliveries[m][e]
        BY <4>1 DEF AckEffect
      <4>3. PICK e \in Groups \ {g} : deliveries[m][e] # Null
        BY <1>2, <3>1, <4>2 DEF AcksWait
      <4> QED
        BY <4>2, <4>3
    <3> QED
      BY <3>3, <3>4
  <2> QED
    BY <2>0, <2>4, <2>5, <2>6, <2>7 DEF GroupStep, MemberStep
<1> QED
  BY <1>0, <1>1, <1>2, RowsInTopicHolds, PTL DEF GSpec

\* With any mix of clients, a step that settles a message for one group leaves the
\* deliveries of the other groups as they are, unless the message itself ends
\* (AckForGroup, NackForGroup, UnregisterConsumerGroup).
THEOREM GroupIndependenceHolds == GSpec => GroupIndependence
<1>1. ASSUME GInv, [GNext]_allVars, NEW m \in Ids, NEW g \in Groups, NEW h \in Groups, g # h,
             HasDelivery(m, g, {"processing"}), ~HasDelivery(m, g, {"processing"})',
             messages'[m] # Null
      PROVE  deliveries'[m][h] = deliveries[m][h]
  <2>0. GroupStep /\ GInv'
    BY <1>1, GroupSteps
  <2>1. messages[m] # Null
    BY <1>1 DEF HasDelivery, GInv, Backed
  <2>2. deliveries'[m][g] # deliveries[m][g]
    BY <1>1 DEF HasDelivery
  <2>3. CASE MessageStep
    BY <1>1, <2>0, <2>1, <2>3, MessageStepDelivery
  <2>4. CASE \E t \in KnownTopic, f \in Groups :
               RegisterConsumerGroup(t, f) \/ UnregisterConsumerGroup(t, f)
    BY <1>1, <2>4, OpenSteps
  <2>5. CASE \E t \in KnownTopic, f \in Groups : ChangeEffect(t, f)
    <3>1. PICK f \in Groups : \A e \in Groups : e # f => deliveries'[m][e] = deliveries[m][e]
      BY <2>5 DEF ChangeEffect
    <3> QED
      BY <1>1, <2>2, <3>1
  <2>6. CASE \E f \in Groups, S \in SUBSET Ids : WaitFor(f, S) /\ ClaimEffect(f, S)
    <3>1. PICK f \in Groups : \A e \in Groups : e # f => deliveries'[m][e] = deliveries[m][e]
      BY <2>6 DEF ClaimEffect
    <3> QED
      BY <1>1, <2>2, <3>1
  <2>7. CASE \E n \in Ids, f \in Groups : AckEffect(n, f)
    <3>1. PICK n \in Ids, f \in Groups : AckEffect(n, f)
      BY <2>7
    <3>2. \A e \in Groups : e # f => deliveries'[m][e] = deliveries[m][e]
      BY <1>1, <3>1 DEF AckEffect
    <3> QED
      BY <1>1, <2>2, <3>2
  <2>8. CASE \E n \in Ids, f \in Groups : TouchEffect(n, f)
    <3>1. PICK f \in Groups : \A e \in Groups : e # f => deliveries'[m][e] = deliveries[m][e]
      BY <2>8 DEF TouchEffect
    <3> QED
      BY <1>1, <2>2, <3>1
  <2>9. ASSUME \/ \E c \in Members, n \in Ids, f \in Groups : AskEffect(c, n, f)
               \/ UNCHANGED <<vars, groups, deliveries, change, acking, got, raced, crossed>>
        PROVE  deliveries' = deliveries
    BY <2>9 DEF AskEffect
  <2> QED
    BY <2>0, <2>3, <2>4, <2>5, <2>6, <2>7, <2>8, <2>9 DEF GroupStep
<1>2. GInv /\ [GNext]_allVars =>
        [\A m \in Ids, g, h \in Groups :
            /\ g # h
            /\ HasDelivery(m, g, {"processing"}) /\ ~HasDelivery(m, g, {"processing"})'
            /\ messages'[m] # Null
            => deliveries'[m][h] = deliveries[m][h]]_allVars
  BY <1>1
<1>3. GInv /\ [GNext]_allVars => GInv'
  BY GroupSteps
<1> QED
  BY <1>2, <1>3, GTypeInit, PTL DEF GSpec, GroupIndependence

\* An open ack that counted no other delivery is still alone, but for deliveries that a
\* registration has backfilled since.
LastAlone ==
    \A m \in Ids, g \in Groups :
        acking[m][g] # Null /\ acking[m][g].last =>
            \A h \in Groups \ {g} : deliveries[m][h] # Null => h \in raced[m]

\* Only the commit of a registration adds a delivery to a message that is there.
LEMMA LastAloneNext ==
    ASSUME GInv, GInv', LastAlone, GroupStep
    PROVE  LastAlone'
<1> SUFFICES ASSUME NEW m \in Ids, NEW g \in Groups, NEW h \in Groups, h # g,
                    acking'[m][g] # Null, acking'[m][g].last, deliveries'[m][h] # Null
             PROVE  h \in raced'[m]
  BY DEF LastAlone
<1>1. ASSUME acking[m][g] # Null, acking[m][g].last, deliveries[m][h] # Null,
             raced[m] \subseteq raced'[m]
      PROVE  h \in raced'[m]
  BY <1>1 DEF LastAlone
<1>2. CASE MessageStep
  <2>1. acking' = acking
    BY <1>2 DEF MessageStep
  <2>2. deliveries'[m][g] # Null /\ deliveries[m][g] # Null
    BY <2>1 DEF GInv, AckHolds, HasDelivery
  <2>3. messages[m] # Null /\ messages'[m] # Null
    BY <2>2 DEF GInv, Backed
  <2>4. deliveries'[m][h] = deliveries[m][h] /\ raced[m] \subseteq raced'[m]
    BY <1>2, <2>3, MessageStepDelivery
  <2> QED
    BY <1>1, <2>1, <2>4
<1>3. CASE \E t \in KnownTopic, f \in Groups :
             RegisterConsumerGroup(t, f) \/ UnregisterConsumerGroup(t, f)
  <2>1. UNCHANGED <<acking, deliveries, raced>>
    BY <1>3, OpenSteps
  <2> QED
    BY <1>1, <2>1
<1>4. CASE \E t \in KnownTopic, f \in Groups : ChangeEffect(t, f)
  <2>1. PICK t \in KnownTopic, f \in Groups : ChangeEffect(t, f)
    BY <1>4
  <2>2. acking' = acking /\ raced[m] \subseteq raced'[m]
    BY <2>1 DEF ChangeEffect
  <2>3. CASE h = f /\ change[t][f].rows[m] # Null
    <3>1. change[t][f].joins
      BY <2>1, <2>3 DEF ChangeEffect
    <3>2. RacingAck(t, f, m)
      BY <2>2, <2>3, <3>1 DEF RacingAck
    <3> QED
      BY <2>1, <2>3, <3>2 DEF ChangeEffect
  <2>4. CASE h # f \/ change[t][f].rows[m] = Null
    <3>1. deliveries'[m][h] = deliveries[m][h]
      BY <2>1, <2>4 DEF ChangeEffect
    <3> QED
      BY <1>1, <2>2, <3>1
  <2> QED
    BY <2>3, <2>4
<1>5. CASE \E c \in Members, n \in Ids, f \in Groups : AskEffect(c, n, f)
  <2>1. PICK c \in Members, n \in Ids, f \in Groups : AskEffect(c, n, f)
    BY <1>5
  <2>2. deliveries' = deliveries /\ raced' = raced
    BY <2>1 DEF AskEffect
  <2>3. CASE n = m /\ f = g
    <3>1. LastDelivery(m, g)
      BY <2>1, <2>3 DEF AskEffect
    <3> QED
      BY <2>2, <3>1 DEF LastDelivery
  <2>4. CASE n # m \/ f # g
    <3>1. acking'[m][g] = acking[m][g]
      BY <2>1, <2>4 DEF AskEffect
    <3> QED
      BY <1>1, <2>2, <3>1
  <2> QED
    BY <2>3, <2>4
<1>6. ASSUME MemberStep, ~\E c \in Members, n \in Ids, f \in Groups : AskEffect(c, n, f)
      PROVE  h \in raced'[m]
  <2>1. raced' = raced /\ deliveries[m][h] # Null
    BY <1>6, MemberSteps
  <2>2. acking'[m][g] = acking[m][g]
    BY <1>6 DEF MemberStep, ClaimEffect, AckEffect, TouchEffect
  <2> QED
    BY <1>1, <2>1, <2>2
<1> QED
  BY <1>2, <1>3, <1>4, <1>5, <1>6 DEF GroupStep, MemberStep

\* Where every client uses a group, a message enters the log only when the group that
\* acknowledges it is the last that had a delivery, but for groups whose registration
\* was committed since that ack has counted (AckForGroup, RegisterConsumerGroup).
THEOREM ArchivedWhenAllAckedHolds ==
    ASSUME Consumers = {}
    PROVE  GSpec => ArchivedWhenAllAcked
<1>0. TopicsStay
  BY DEF TopicsStay
<1>1. ASSUME GInv, Plain, LastAlone, [GNext]_allVars, NEW m \in Ids, log[m] = Null, log'[m] # Null
      PROVE  Cardinality({g \in Groups : deliveries[m][g] # Null /\ g \notin raced[m]}) <= 1
  <2>0. GroupStep
    BY <1>1, GroupSteps
  <2>1. ASSUME log' = log PROVE FALSE
    BY <1>1, <2>1
  <2>2. CASE MessageStep
    <3>1. TypeOK /\ [Next]_vars /\ acking' = acking
      BY <1>1, <2>2 DEF MessageStep, GInv, GTypeOK
    <3>2. log[m] # Null
      BY <1>0, <1>1, <3>1, PlainNext
    <3> QED
      BY <1>1, <3>2
  <2>3. CASE \E n \in Ids, g \in Groups : AckEffect(n, g)
    <3>1. PICK n \in Ids, g \in Groups : AckEffect(n, g)
      BY <2>3
    <3>2. n = m /\ acking[m][g] # Null /\ acking[m][g].last
      BY <1>1, <3>1 DEF AckEffect
    <3> DEFINE S == {f \in Groups : deliveries[m][f] # Null /\ f \notin raced[m]}
    <3>3. S \subseteq {g}
      BY <1>1, <3>2 DEF LastAlone
    <3>4. IsFiniteSet({g}) /\ Cardinality({g}) = 1
      BY FS_Singleton
    <3> HIDE DEF S
    <3>5. Cardinality(S) <= Cardinality({g})
      BY <3>3, <3>4, FS_Subset
    <3> QED
      BY <3>4, <3>5 DEF S
  <2>4. ASSUME \/ \E t \in KnownTopic, g \in Groups :
                     \/ RegisterConsumerGroup(t, g) \/ UnregisterConsumerGroup(t, g)
                     \/ ChangeEffect(t, g)
               \/ \E g \in Groups, S \in SUBSET Ids : ClaimEffect(g, S)
               \/ \E c \in Members, n \in Ids, g \in Groups : AskEffect(c, n, g)
               \/ \E n \in Ids, g \in Groups : TouchEffect(n, g)
               \/ UNCHANGED <<vars, groups, deliveries, change, acking, got, raced, crossed>>
        PROVE  FALSE
    <3>1. UNCHANGED vars
      BY <2>4 DEF RegisterConsumerGroup, UnregisterConsumerGroup, Open, ChangeEffect,
                  ClaimEffect, AskEffect, TouchEffect
    <3> QED
      BY <2>1, <3>1 DEF vars
  <2> QED
    BY <2>0, <2>2, <2>3, <2>4 DEF GroupStep
<1>2. GInv /\ Plain /\ LastAlone /\ [GNext]_allVars =>
        [\A m \in Ids : log[m] = Null /\ log'[m] # Null =>
            Cardinality({g \in Groups :
                deliveries[m][g] # Null /\ g \notin raced[m]}) <= 1]_allVars
  BY <1>1
<1>3. GInit => LastAlone
  BY DEF GInit, LastAlone, NoDeliveries
<1>4. GInv /\ LastAlone /\ [GNext]_allVars => LastAlone'
  BY GroupSteps, LastAloneNext
<1> QED
  BY <1>0, <1>2, <1>3, <1>4, PlainHolds, PTL DEF GSpec, ArchivedWhenAllAcked

=============================================================================
