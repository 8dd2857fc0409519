---------------------- MODULE GroupTransactions_proofs ----------------------
(***************************************************************************)
(* Proofs about the statements of the group transactions, for any number   *)
(* of groups, registrations, messages and clients without a group.         *)
(*                                                                         *)
(* The argument is about row locks.  Whoever deletes the message has its   *)
(* row lock, which excludes the key-share lock of a backfill and the lock  *)
(* of another deleter; and it has waited for the lock of every delivery    *)
(* the cascade takes with it, so no acknowledgement of a group is between  *)
(* its SELECT and its COMMIT then.                                         *)
(***************************************************************************)
EXTENDS GroupTransactions, FiniteSetTheorems, TLAPS

\* The rows locks are about: the message and its deliveries.
Mess == MessageRow(First)
Deliv(g) == DeliveryRow(First, g)
Guarded == {Mess} \cup {Deliv(g) : g \in AllGroups}

AckTx == {<<"ack", g>> : g \in Acking}
RegisterTx == {<<"register", g>> : g \in Joining}
EnqueueTx == {<<"enqueue", m>> : m \in NewMessages}
LegacyTx == {<<"legacy", l>> : l \in Legacy}

\* Rows x has locked against other writers.
Locked(x) == exclusive[x] \cup deleted[x]

\* What x has done so far, and what it may rely on.
Own(x) ==
    /\ pc[x] = "cascade" => x \in AckTx \cup LegacyTx
    /\ deleted[x] \subseteq Guarded
    /\ x \notin AckTx \cup LegacyTx => deleted[x] = {}
    /\ Mess \in deleted[x] =>
          /\ Mess \in exclusive[x] /\ pc[x] = "commit"
          /\ \A g \in AllGroups : Deliv(g) \in committed => Deliv(g) \in deleted[x]
    /\ Mess \in exclusive[x] => Mess \in committed
    /\ pc[x] = "cascade" /\ Mess \in committed => Mess \in exclusive[x]
    /\ \A m \in Messages : MessageRow(m) \in keyshare[x] => MessageRow(m) \in committed
    /\ \A m \in Messages, g \in AllGroups : DeliveryRow(m, g) \in inserted[x] =>
          \/ x \in RegisterTx /\ (pc[x] = "commit" => MessageRow(m) \in keyshare[x])
          \/ m \in NewMessages /\ MessageRow(m) \in inserted[x]
    /\ Mess \notin inserted[x]
    /\ \A m \in NewMessages :
          x = <<"enqueue", m>> /\ pc[x] = "trigger" => MessageRow(m) \in inserted[x]
    /\ \A g \in Acking :
          x = <<"ack", g>> /\ pc[x] \in {"delete", "count", "message", "cascade", "commit"} =>
              Deliv(g) \in exclusive[x] /\ Deliv(g) \in committed
    /\ \A y \in Tx : LogRow(First, y) \in inserted[x] =>
          /\ y = x /\ x \in AckTx \cup LegacyTx
          /\ pc[x] \in {"message", "cascade", "commit"}
          /\ pc[x] = "commit" => Mess \in deleted[x]
          /\ x \notin AckTx => Mess \in exclusive[x]

\* What x and y have locked.
Apart(x, y) ==
    /\ \A r \in Guarded : r \in Locked(x) => r \notin Locked(y)
    /\ Mess \in Locked(x) => Mess \notin keyshare[y]

\* A committed delivery belongs to a committed message (the foreign key).
NoDanglingDelivery ==
    \A m \in Messages, g \in AllGroups :
        DeliveryRow(m, g) \in committed => MessageRow(m) \in committed

\* What is committed.
Facts ==
    /\ NoDanglingDelivery
    /\ \A x \in Tx : LogRow(First, x) \in committed => Mess \notin committed
    /\ \A x, y \in Tx : LogRow(First, x) \in committed /\ LogRow(First, y) \in committed => x = y

Domains ==
    /\ DOMAIN inserted = Tx /\ DOMAIN deleted = Tx /\ DOMAIN exclusive = Tx
    /\ DOMAIN keyshare = Tx /\ DOMAIN pc = Tx

\* The inductive invariant.
TxInv ==
    /\ Domains
    /\ Facts
    /\ \A x \in Tx : Own(x)
    /\ \A x, y \in Tx : x # y => Apart(x, y)

\* Rows of different tables, or with different keys, are different rows.
LEMMA RowsDiffer ==
    /\ \A m, n : MessageRow(m) = MessageRow(n) => m = n
    /\ \A m, n, g, h : DeliveryRow(m, g) = DeliveryRow(n, h) => m = n /\ g = h
    /\ \A m, n, x, y : LogRow(m, x) = LogRow(n, y) => m = n /\ x = y
    /\ \A m, n, g : MessageRow(m) # DeliveryRow(n, g)
    /\ \A m, n, x : MessageRow(m) # LogRow(n, x)
    /\ \A m, n, g, x : DeliveryRow(m, g) # LogRow(n, x)
    /\ \A m, n : MessageRow(m) # ClaimMark(n)
    /\ \A m, n, g : DeliveryRow(m, g) # ClaimMark(n)
    /\ \A m, n, x : LogRow(m, x) # ClaimMark(n)
    /\ \A m, g : MessageRow(m) # GroupRow(g)
    /\ \A m, g, h : DeliveryRow(m, g) # GroupRow(h)
    /\ \A m, x, g : LogRow(m, x) # GroupRow(g)
  BY DEF MessageRow, DeliveryRow, LogRow, ClaimMark, GroupRow

\* A transaction is of one kind.
LEMMA KindsDiffer ==
    /\ Tx = AckTx \cup RegisterTx \cup EnqueueTx \cup LegacyTx
    /\ AckTx \cap RegisterTx = {} /\ AckTx \cap EnqueueTx = {} /\ AckTx \cap LegacyTx = {}
    /\ RegisterTx \cap EnqueueTx = {} /\ RegisterTx \cap LegacyTx = {}
    /\ EnqueueTx \cap LegacyTx = {}
    /\ \A g, h : <<"ack", g>> = <<"ack", h>> => g = h
  <1>1. Tx = AckTx \cup RegisterTx \cup EnqueueTx \cup LegacyTx
    BY DEF Tx, AckTx, RegisterTx, EnqueueTx, LegacyTx
  <1> QED
    BY <1>1 DEF AckTx, RegisterTx, EnqueueTx, LegacyTx

\* First is a message, and is not enqueued again.
LEMMA FirstIsOld == First \in Messages /\ First \notin NewMessages /\ Mess \in Guarded
  BY InstanceAssumption DEF Messages, Guarded

\* The first component of a transaction tells its kind, the second who runs it.
LEMMA KindOf ==
  ASSUME NEW x \in Tx
  PROVE  /\ x[1] = "ack" => x[2] \in Acking /\ x = <<"ack", x[2]>> /\ x \in AckTx
         /\ x[1] = "register" => x[2] \in Joining /\ x = <<"register", x[2]>> /\ x \in RegisterTx
         /\ x[1] = "enqueue" => x[2] \in NewMessages /\ x = <<"enqueue", x[2]>> /\ x \in EnqueueTx
         /\ x[1] = "legacy" => x \in LegacyTx
  <1>1. CASE x \in AckTx
    BY <1>1 DEF AckTx
  <1>2. CASE x \in RegisterTx
    BY <1>2 DEF RegisterTx
  <1>3. CASE x \in EnqueueTx
    BY <1>3 DEF EnqueueTx
  <1>4. CASE x \in LegacyTx
    BY <1>4 DEF LegacyTx
  <1> QED
    BY <1>1, <1>2, <1>3, <1>4, KindsDiffer

\* Everything of the transactions other than x stays.
OthersKept(x) ==
    \A y \in Tx \ {x} :
        /\ inserted'[y] = inserted[y] /\ deleted'[y] = deleted[y]
        /\ exclusive'[y] = exclusive[y] /\ keyshare'[y] = keyshare[y]
        /\ pc'[y] = pc[y]

\* A statement that commits nothing keeps the invariant if it keeps the part of
\* its own transaction and its locks exclude those of the others.
LEMMA LocalStep ==
  ASSUME TxInv, NEW x \in Tx, Domains', UNCHANGED committed, OthersKept(x), Own(x)',
         \A y \in Tx \ {x} : Apart(x, y)' /\ Apart(y, x)'
  PROVE  TxInv'
  <1>1. Facts'
    BY DEF TxInv, Facts, NoDanglingDelivery, Mess
  <1>2. ASSUME NEW y \in Tx \ {x}
        PROVE  Own(y)'
    <2>1. Own(y)
      BY DEF TxInv
    <2>2. /\ inserted'[y] = inserted[y] /\ deleted'[y] = deleted[y]
          /\ exclusive'[y] = exclusive[y] /\ keyshare'[y] = keyshare[y]
          /\ pc'[y] = pc[y]
      BY DEF OthersKept
    <2> QED
      BY <2>1, <2>2 DEF Own, Mess, Deliv
  <1>3. ASSUME NEW y \in Tx, NEW z \in Tx, y # z
        PROVE  Apart(y, z)'
    <2>1. CASE y # x /\ z # x
      <3>1. Apart(y, z)
        BY <1>3 DEF TxInv
      <3> QED
        BY <2>1, <3>1 DEF OthersKept, Apart, Locked, Mess
    <2> QED
      BY <2>1, <1>3
  <1> QED
    BY <1>1, <1>2, <1>3 DEF TxInv

\* A statement that takes no lock keeps the locks apart.
LEMMA SameLocks ==
  ASSUME TxInv, NEW x \in Tx, UNCHANGED <<deleted, exclusive, keyshare>>
  PROVE  \A y \in Tx \ {x} : Apart(x, y)' /\ Apart(y, x)'
  BY DEF TxInv, Apart, Locked, Mess

\* The end of a transaction, committed or not, leaves nothing locked.
LEMMA Released ==
  ASSUME TxInv, NEW x \in Tx, NEW outcome \in Ended, Release(x),
         pc' = [pc EXCEPT ![x] = outcome]
  PROVE  /\ Domains' /\ OthersKept(x) /\ Own(x)'
         /\ \A y \in Tx \ {x} : Apart(x, y)' /\ Apart(y, x)'
  <1>1. Domains' /\ OthersKept(x)
    BY DEF TxInv, Domains, Release, OthersKept
  <1>2. /\ inserted'[x] = {} /\ deleted'[x] = {} /\ exclusive'[x] = {}
        /\ keyshare'[x] = {} /\ pc'[x] \in Ended
    BY DEF TxInv, Domains, Release
  <1>3. Own(x)'
    BY <1>2 DEF Own, Ended, Mess, Deliv
  <1>4. \A y \in Tx \ {x} : Apart(x, y)' /\ Apart(y, x)'
    BY <1>2 DEF Apart, Locked
  <1> QED
    BY <1>1, <1>3, <1>4

\* A rollback keeps the invariant.
LEMMA RollbackKeeps ==
  ASSUME TxInv, NEW x \in Tx, NEW outcome \in Ended, Rollback(x, outcome)
  PROVE  TxInv'
  <1>1. Release(x) /\ pc' = [pc EXCEPT ![x] = outcome] /\ UNCHANGED committed
    BY DEF Rollback
  <1> QED
    BY <1>1, Released, LocalStep

\* Initially nothing is locked or inserted.
LEMMA InitTx == Init => TxInv
  <1> SUFFICES ASSUME Init PROVE TxInv
    OBVIOUS
  <1>1. Domains
    BY DEF Init, Domains
  <1>2. Facts
    BY RowsDiffer, FirstIsOld DEF Init, Facts, NoDanglingDelivery, Mess
  <1>3. \A x \in Tx : Own(x)
    BY DEF Init, Own, Mess, Deliv
  <1>4. \A x, y \in Tx : x # y => Apart(x, y)
    BY DEF Init, Apart, Locked
  <1> QED
    BY <1>1, <1>2, <1>3, <1>4 DEF TxInv

\* The ack of a group: its SELECT ... FOR UPDATE locks a delivery that is there.
LEMMA AckSelectKeeps ==
  ASSUME TxInv, NEW g \in Acking, AckSelect(g)
  PROVE  TxInv'
  <1> DEFINE x == <<"ack", g>>
  <1>x. x \in Tx /\ x \in AckTx
    BY KindsDiffer DEF AckTx
  <1>a. /\ pc[x] = "start" /\ Writers(x, Deliv(g)) = {}
        /\ \/ /\ Deliv(g) \in committed
              /\ pc' = [pc EXCEPT ![x] = "delete"]
              /\ exclusive' = [exclusive EXCEPT ![x] = @ \cup {Deliv(g)}]
              /\ UNCHANGED <<committed, inserted, deleted, keyshare>>
           \/ Rollback(x, "rejected")
    BY DEF AckSelect, Deliv
  <1>k. \A h : <<"ack", h>> = x => h = g
    BY KindsDiffer
  <1> HIDE DEF x
  <1>1. CASE /\ Deliv(g) \in committed
             /\ pc' = [pc EXCEPT ![x] = "delete"]
             /\ exclusive' = [exclusive EXCEPT ![x] = @ \cup {Deliv(g)}]
             /\ UNCHANGED <<committed, inserted, deleted, keyshare>>
    <2>1. Domains' /\ OthersKept(x)
      BY <1>1, <1>x DEF TxInv, Domains, OthersKept
    <2>2. pc'[x] = "delete" /\ exclusive'[x] = exclusive[x] \cup {Deliv(g)}
      BY <1>1, <1>x DEF TxInv, Domains
    <2>3. Own(x)
      BY <1>x DEF TxInv
    <2>4. Deliv(g) # Mess
      BY RowsDiffer DEF Deliv, Mess
    <2>5. Own(x)'
      BY <2>2, <2>3, <2>4, <1>1, <1>x, <1>a, <1>k DEF Own, Mess, Deliv
    <2>6. \A y \in Tx \ {x} : Deliv(g) \notin Locked(y)
      BY <1>a DEF Writers, Locked
    <2>7. \A y \in Tx \ {x} : Apart(x, y) /\ Apart(y, x)
      BY <1>x DEF TxInv
    <2>8. \A y \in Tx \ {x} : Apart(x, y)' /\ Apart(y, x)'
      BY <2>2, <2>4, <2>6, <2>7, <2>1, <1>1 DEF Apart, Locked, OthersKept, Mess, Guarded, Deliv
    <2> QED
      BY <1>1, <1>x, <2>1, <2>5, <2>8, LocalStep
  <1>2. CASE Rollback(x, "rejected")
    BY <1>2, <1>x, RollbackKeeps DEF Ended
  <1> QED
    BY <1>1, <1>2, <1>a

\* The DELETE takes the delivery the transaction has locked.
LEMMA AckDeleteKeeps ==
  ASSUME TxInv, NEW g \in Acking, AckDelete(g)
  PROVE  TxInv'
  <1> DEFINE x == <<"ack", g>>
  <1>x. x \in Tx /\ x \in AckTx
    BY KindsDiffer DEF AckTx
  <1>a. /\ pc[x] = "delete" /\ pc' = [pc EXCEPT ![x] = "count"]
        /\ deleted' = [deleted EXCEPT ![x] = @ \cup {Deliv(g)}]
        /\ UNCHANGED <<committed, inserted, exclusive, keyshare>>
    BY DEF AckDelete, Goto, Deliv
  <1>k. Own(x) /\ (pc[x] = "delete" => Deliv(g) \in exclusive[x] /\ Deliv(g) \in committed)
    BY <1>x DEF TxInv, Own
  <1>h. \A h : <<"ack", h>> = x => h = g
    BY KindsDiffer
  <1> HIDE DEF x
  <1>1. Domains' /\ OthersKept(x)
    BY <1>a, <1>x DEF TxInv, Domains, OthersKept
  <1>2. pc'[x] = "count" /\ deleted'[x] = deleted[x] \cup {Deliv(g)}
    BY <1>a, <1>x DEF TxInv, Domains
  <1>4. Deliv(g) # Mess /\ Deliv(g) \in Guarded
    BY RowsDiffer DEF Deliv, Mess, Guarded, AllGroups
  <1>5. Own(x)'
    BY <1>2, <1>4, <1>x, <1>a, <1>k, <1>h DEF Own, Mess, Deliv, Guarded
  <1>7. \A y \in Tx \ {x} : Apart(x, y) /\ Apart(y, x)
    BY <1>x DEF TxInv
  <1>8. \A y \in Tx \ {x} : Apart(x, y)' /\ Apart(y, x)'
    BY <1>2, <1>4, <1>7, <1>1, <1>a, <1>k DEF Apart, Locked, OthersKept, Mess, Guarded, Deliv
  <1> QED
    BY <1>a, <1>x, <1>1, <1>5, <1>8, LocalStep

\* The count, and the archive INSERT when nothing is left: only the own rows grow.
LEMMA AckCountKeeps ==
  ASSUME TxInv, NEW g \in Acking, AckCount(g)
  PROVE  TxInv'
  <1> DEFINE x == <<"ack", g>>
  <1>x. x \in Tx /\ x \in AckTx
    BY KindsDiffer DEF AckTx
  <1>a. /\ pc[x] = "count"
        /\ \/ /\ pc' = [pc EXCEPT ![x] = "message"]
              /\ inserted' = [inserted EXCEPT ![x] = @ \cup {LogRow(First, x)}]
           \/ /\ pc' = [pc EXCEPT ![x] = "commit"]
              /\ UNCHANGED inserted
        /\ UNCHANGED <<committed, deleted, exclusive, keyshare>>
    BY DEF AckCount
  <1>k. Own(x)
    BY <1>x DEF TxInv
  <1>h. \A h : <<"ack", h>> = x => h = g
    BY KindsDiffer
  <1> HIDE DEF x
  <1>1. Domains' /\ OthersKept(x)
    BY <1>a, <1>x DEF TxInv, Domains, OthersKept
  <1>2. \/ pc'[x] = "message" /\ inserted'[x] = inserted[x] \cup {LogRow(First, x)}
        \/ pc'[x] = "commit" /\ inserted'[x] = inserted[x]
    BY <1>a, <1>x DEF TxInv, Domains
  <1>3. \A y \in Tx : LogRow(First, y) = LogRow(First, x) => y = x
    BY RowsDiffer
  <1>b. pc[x] = "count" /\ UNCHANGED <<committed, deleted, exclusive, keyshare>>
    BY <1>a
  <1>4. /\ LogRow(First, x) # Mess
        /\ \A m, h : DeliveryRow(m, h) # LogRow(First, x) /\ MessageRow(m) # LogRow(First, x)
    BY RowsDiffer DEF Mess
  <1>5. Own(x)'
    <2>1. CASE pc'[x] = "message" /\ inserted'[x] = inserted[x] \cup {LogRow(First, x)}
      BY <2>1, <1>3, <1>4, <1>x, <1>b, <1>k, <1>h DEF Own, Mess, Deliv
    <2>2. CASE pc'[x] = "commit" /\ inserted'[x] = inserted[x]
      <3>1. \A y \in Tx : LogRow(First, y) \notin inserted'[x]
        BY <2>2, <1>k, <1>b DEF Own
      <3>2. x \notin RegisterTx
        BY <1>x, KindsDiffer
      <3> QED
        BY <2>2, <3>1, <3>2, <1>x, <1>b, <1>k, <1>h DEF Own, Mess, Deliv
    <2> QED
      BY <2>1, <2>2, <1>2
  <1>8. \A y \in Tx \ {x} : Apart(x, y)' /\ Apart(y, x)'
    BY <1>a, <1>x, SameLocks
  <1> QED
    BY <1>a, <1>x, <1>1, <1>5, <1>8, LocalStep

\* The lock DELETE FROM messages takes first.
LEMMA LockMessageKeeps ==
  ASSUME TxInv, NEW x \in AckTx, LockMessage(x, "message", "cascade")
  PROVE  TxInv'
  <1>x. x \in Tx
    BY KindsDiffer
  <1>a. /\ pc[x] = "message" /\ pc' = [pc EXCEPT ![x] = "cascade"]
        /\ Writers(x, Mess) = {} /\ Sharers(x, Mess) = {}
        /\ exclusive' = [exclusive EXCEPT ![x] = @ \cup ({Mess} \cap committed)]
        /\ UNCHANGED <<committed, inserted, deleted, keyshare>>
    BY DEF LockMessage, Goto, Mess
  <1>1. Domains' /\ OthersKept(x)
    BY <1>a, <1>x DEF TxInv, Domains, OthersKept
  <1>2. pc'[x] = "cascade" /\ exclusive'[x] = exclusive[x] \cup ({Mess} \cap committed)
    BY <1>a, <1>x DEF TxInv, Domains
  <1>3. Own(x)
    BY <1>x DEF TxInv
  <1>5. Own(x)'
    BY <1>2, <1>3, <1>x, <1>a DEF Own, Mess, Deliv
  <1>6. \A y \in Tx \ {x} : Mess \notin Locked(y) /\ Mess \notin keyshare[y]
    BY <1>a DEF Writers, Sharers, Locked
  <1>7. \A y \in Tx \ {x} : Apart(x, y) /\ Apart(y, x)
    BY <1>x DEF TxInv
  <1>8. \A y \in Tx \ {x} : Apart(x, y)' /\ Apart(y, x)'
    BY <1>2, <1>6, <1>7, <1>1, <1>a DEF Apart, Locked, OthersKept, Mess, Guarded, Deliv
  <1> QED
    BY <1>a, <1>x, <1>1, <1>5, <1>8, LocalStep

\* The DELETE of the message and the cascade on its deliveries: the message is
\* locked, and nobody else has locked one of the deliveries.
LEMMA DeleteMessageKeeps ==
  ASSUME TxInv, NEW x \in Tx, DeleteMessage(x)
  PROVE  TxInv'
  <1> DEFINE taken == ({Mess} \cup DeliveriesOf(First, committed)) \cap committed
  <1>a. /\ pc[x] = "cascade" /\ pc' = [pc EXCEPT ![x] = "commit"]
        /\ \A r \in {Mess} \cup DeliveriesOf(First, committed) : Writers(x, r) = {}
        /\ deleted' = [deleted EXCEPT ![x] = @ \cup taken]
        /\ UNCHANGED <<committed, inserted, exclusive, keyshare>>
    BY DEF DeleteMessage, Goto, Mess
  <1>t. /\ taken \subseteq Guarded
        /\ Mess \in committed => Mess \in taken
        /\ Mess \in taken => Mess \in committed
        /\ \A g \in AllGroups : Deliv(g) \in committed => Deliv(g) \in taken
    BY DEF DeliveriesOf, Guarded, Deliv
  <1>w. \A r \in taken : Writers(x, r) = {}
    BY <1>a
  <1> HIDE DEF taken
  <1>1. Domains' /\ OthersKept(x)
    BY <1>a DEF TxInv, Domains, OthersKept
  <1>2. pc'[x] = "commit" /\ deleted'[x] = deleted[x] \cup taken
    BY <1>a DEF TxInv, Domains
  <1>3. Own(x)
    BY DEF TxInv
  <1>4. /\ x \in AckTx \cup LegacyTx /\ x \notin RegisterTx
        /\ Mess \notin deleted[x]
        /\ Mess \in committed => Mess \in exclusive[x]
    BY <1>3, <1>a, KindsDiffer DEF Own
  <1>5. x \in AckTx => Mess \in committed
    <2> SUFFICES ASSUME x \in AckTx PROVE Mess \in committed
      OBVIOUS
    <2>1. PICK g \in Acking : x = <<"ack", g>>
      BY DEF AckTx
    <2>2. Deliv(g) \in committed
      BY <1>3, <2>1, <1>a DEF Own
    <2> QED
      BY <2>2, FirstIsOld DEF TxInv, Facts, NoDanglingDelivery, Deliv, Mess, AllGroups
  <1>6. \A y \in Tx : LogRow(First, y) \in inserted[x] => Mess \in committed
    BY <1>3, <1>5 DEF Own
  <1>7. Own(x)'
    <2>0. UNCHANGED <<committed, inserted, exclusive, keyshare>> /\ pc[x] = "cascade"
      BY <1>a
    <2> QED
      BY <1>2, <1>3, <1>4, <1>6, <1>t, <2>0 DEF Own, Mess, Deliv
  <1>8. \A y \in Tx \ {x} : Apart(x, y) /\ Apart(y, x)
    BY DEF TxInv
  <1>9. \A y \in Tx \ {x} : Apart(x, y)' /\ Apart(y, x)'
    <2> TAKE y \in Tx \ {x}
    <2>1. /\ exclusive'[y] = exclusive[y] /\ deleted'[y] = deleted[y]
          /\ keyshare'[y] = keyshare[y] /\ exclusive'[x] = exclusive[x]
          /\ keyshare'[x] = keyshare[x]
      BY <1>1, <1>a DEF OthersKept
    <2>2. \A r \in taken : r \notin exclusive[y] \cup deleted[y]
      BY <1>w DEF Writers
    <2>3. Mess \in taken => Mess \in exclusive[x]
      BY <1>t, <1>4
    <2> QED
      BY <2>1, <2>2, <2>3, <1>2, <1>8 DEF Apart, Locked, Mess
  <1> QED
    BY <1>a, <1>1, <1>7, <1>9, LocalStep

\* A client without a group claims the message: a mark on its row.
LEMMA LegacyDequeueKeeps ==
  ASSUME TxInv, NEW x \in LegacyTx, LegacyDequeue(x)
  PROVE  TxInv'
  <1>x. x \in Tx
    BY KindsDiffer
  <1>1. CASE Rollback(x, "rejected")
    BY <1>1, <1>x, RollbackKeeps DEF Ended
  <1>2. CASE /\ pc' = [pc EXCEPT ![x] = "ack"]
             /\ committed' = committed \cup {ClaimMark(First)}
             /\ UNCHANGED <<inserted, deleted, exclusive, keyshare>>
    <2>1. Domains'
      BY <1>2 DEF TxInv, Domains
    <2>2. /\ \A m : MessageRow(m) \in committed' <=> MessageRow(m) \in committed
          /\ \A m, g : DeliveryRow(m, g) \in committed' <=> DeliveryRow(m, g) \in committed
          /\ \A m, y : LogRow(m, y) \in committed' <=> LogRow(m, y) \in committed
      BY <1>2, RowsDiffer
    <2>3. Facts'
      BY <2>2 DEF TxInv, Facts, NoDanglingDelivery, Mess
    <2>4. pc'[x] = "ack" /\ pc[x] = "start" /\ \A y \in Tx \ {x} : pc'[y] = pc[y]
      BY <1>2, <1>x DEF TxInv, Domains, LegacyDequeue
    <2>5. ASSUME NEW y \in Tx PROVE Own(y)'
      <3>1. Own(y)
        BY DEF TxInv
      <3>2. pc'[y] = pc[y] \/ (y = x /\ pc'[y] = "ack" /\ pc[y] = "start")
        BY <2>4
      <3>3. /\ inserted'[y] = inserted[y] /\ deleted'[y] = deleted[y]
            /\ exclusive'[y] = exclusive[y] /\ keyshare'[y] = keyshare[y]
        BY <1>2
      <3>4. CASE pc'[y] = pc[y]
        BY <3>1, <3>3, <3>4, <2>2 DEF Own, Mess, Deliv
      <3>5. CASE y = x /\ pc'[y] = "ack" /\ pc[y] = "start"
        BY <3>1, <3>3, <3>5, <2>2 DEF Own, Mess, Deliv
      <3> QED
        BY <3>2, <3>4, <3>5
    <2>6. \A y, z \in Tx : y # z => Apart(y, z)'
      BY <1>2 DEF TxInv, Apart, Locked, Mess
    <2> QED
      BY <2>1, <2>3, <2>5, <2>6 DEF TxInv
  <1> QED
    BY <1>1, <1>2 DEF LegacyDequeue

\* Its Ack locks the message and inserts the archive row.
LEMMA LegacySelectKeeps ==
  ASSUME TxInv, NEW x \in LegacyTx, LegacySelect(x)
  PROVE  TxInv'
  <1>x. x \in Tx /\ x \notin AckTx /\ x \notin RegisterTx
    BY KindsDiffer
  <1>a. /\ pc[x] = "ack" /\ Writers(x, Mess) = {} /\ Sharers(x, Mess) = {}
        /\ \/ /\ Mess \in committed
              /\ pc' = [pc EXCEPT ![x] = "cascade"]
              /\ exclusive' = [exclusive EXCEPT ![x] = @ \cup {Mess}]
              /\ inserted' = [inserted EXCEPT ![x] = @ \cup {LogRow(First, x)}]
              /\ UNCHANGED <<committed, deleted, keyshare>>
           \/ Rollback(x, "rejected")
    BY DEF LegacySelect, Mess
  <1>1. CASE Rollback(x, "rejected")
    BY <1>1, <1>x, RollbackKeeps DEF Ended
  <1>2. CASE /\ Mess \in committed
             /\ pc' = [pc EXCEPT ![x] = "cascade"]
             /\ exclusive' = [exclusive EXCEPT ![x] = @ \cup {Mess}]
             /\ inserted' = [inserted EXCEPT ![x] = @ \cup {LogRow(First, x)}]
             /\ UNCHANGED <<committed, deleted, keyshare>>
    <2>1. Domains' /\ OthersKept(x)
      BY <1>2, <1>x DEF TxInv, Domains, OthersKept
    <2>2. /\ pc'[x] = "cascade" /\ exclusive'[x] = exclusive[x] \cup {Mess}
          /\ inserted'[x] = inserted[x] \cup {LogRow(First, x)}
      BY <1>2, <1>x DEF TxInv, Domains
    <2>3. Own(x)
      BY <1>x DEF TxInv
    <2>4. /\ LogRow(First, x) # Mess
          /\ \A m, h : DeliveryRow(m, h) # LogRow(First, x) /\ MessageRow(m) # LogRow(First, x)
          /\ \A y : LogRow(First, y) = LogRow(First, x) => y = x
      BY RowsDiffer DEF Mess
    <2>5. \A g \in Acking : x # <<"ack", g>>
      BY <1>x DEF AckTx
    <2>6. Own(x)'
      <3>1. committed' = committed /\ deleted'[x] = deleted[x] /\ keyshare'[x] = keyshare[x]
        BY <1>2
      <3>2. Mess \in committed /\ pc[x] = "ack"
        BY <1>2, <1>a
      <3> QED
        BY <2>2, <2>3, <2>4, <2>5, <1>x, <3>1, <3>2 DEF Own, Mess, Deliv
    <2>7. \A y \in Tx \ {x} : Mess \notin Locked(y) /\ Mess \notin keyshare[y]
      BY <1>a DEF Writers, Sharers, Locked
    <2>8. \A y \in Tx \ {x} : Apart(x, y) /\ Apart(y, x)
      BY <1>x DEF TxInv
    <2>9. \A y \in Tx \ {x} : Apart(x, y)' /\ Apart(y, x)'
      BY <2>2, <2>7, <2>8, <2>1, <1>2 DEF Apart, Locked, OthersKept, Mess
    <2> QED
      BY <1>2, <1>x, <2>1, <2>6, <2>9, LocalStep
  <1> QED
    BY <1>1, <1>2, <1>a

\* A statement that only inserts.
LEMMA InsertStep ==
  ASSUME TxInv, NEW x \in Tx, NEW to, NEW rows,
         pc' = [pc EXCEPT ![x] = to],
         inserted' = [inserted EXCEPT ![x] = @ \cup rows],
         UNCHANGED <<committed, deleted, exclusive, keyshare>>
  PROVE  /\ pc'[x] = to /\ inserted'[x] = inserted[x] \cup rows
         /\ deleted'[x] = deleted[x] /\ exclusive'[x] = exclusive[x]
         /\ keyshare'[x] = keyshare[x] /\ committed' = committed
         /\ Own(x)' => TxInv'
  <1>1. Domains' /\ OthersKept(x)
    BY DEF TxInv, Domains, OthersKept
  <1>2. /\ pc'[x] = to /\ inserted'[x] = inserted[x] \cup rows
        /\ deleted'[x] = deleted[x] /\ exclusive'[x] = exclusive[x]
        /\ keyshare'[x] = keyshare[x] /\ committed' = committed
    BY DEF TxInv, Domains
  <1>3. \A y \in Tx \ {x} : Apart(x, y)' /\ Apart(y, x)'
    BY SameLocks
  <1>4. Own(x)' => TxInv'
    BY <1>1, <1>3, LocalStep
  <1> QED
    BY <1>2, <1>4

\* A registration inserts its group and then deliveries that nobody has checked.
LEMMA RegisterInsertKeeps ==
  ASSUME TxInv, NEW g \in Joining, RegisterInsert(g) \/ RegisterBackfill(g)
  PROVE  TxInv'
  <1> DEFINE x == <<"register", g>>
  <1>x. x \in RegisterTx /\ x \in Tx
    BY KindsDiffer DEF RegisterTx
  <1>y. x \notin AckTx \cup LegacyTx /\ \A h \in Acking : x # <<"ack", h>>
    BY KindsDiffer, <1>x DEF AckTx
  <1>a. PICK to \in {"backfill", "check"}, rows \in {{GroupRow(g)}, {DeliveryRow(m, g) : m \in Pending}} :
            /\ pc' = [pc EXCEPT ![x] = to]
            /\ inserted' = [inserted EXCEPT ![x] = @ \cup rows]
            /\ UNCHANGED <<committed, deleted, exclusive, keyshare>>
    BY DEF RegisterInsert, RegisterBackfill, Goto
  <1>r. Mess \notin rows /\ \A y : LogRow(First, y) \notin rows
    <2>1. Mess # GroupRow(g) /\ \A m : Mess # DeliveryRow(m, g)
      BY RowsDiffer DEF Mess
    <2>2. \A y, m : LogRow(First, y) # GroupRow(g) /\ LogRow(First, y) # DeliveryRow(m, g)
      BY RowsDiffer
    <2> QED
      BY <2>1, <2>2
  <1> HIDE DEF x
  <1>1. Own(x)
    BY <1>x DEF TxInv
  <1>2. /\ pc'[x] = to /\ inserted'[x] = inserted[x] \cup rows
        /\ deleted'[x] = deleted[x] /\ exclusive'[x] = exclusive[x]
        /\ keyshare'[x] = keyshare[x] /\ committed' = committed
        /\ Own(x)' => TxInv'
    BY <1>a, <1>x, InsertStep
  <1>3. to # "commit" /\ to # "cascade" /\ to # "trigger"
    OBVIOUS
  <1>n. \A y \in Tx : LogRow(First, y) \notin inserted[x]
    BY <1>1, <1>y DEF Own
  <1>4. Own(x)'
    <2>1. \A m \in Messages, h \in AllGroups : DeliveryRow(m, h) \in inserted'[x] =>
             x \in RegisterTx /\ (pc'[x] = "commit" => MessageRow(m) \in keyshare'[x])
      BY <1>x, <1>2, <1>3
    <2>2. \A y \in Tx : LogRow(First, y) \notin inserted'[x]
      BY <1>n, <1>r, <1>2
    <2>3. Mess \notin inserted'[x]
      BY <1>1, <1>2, <1>r DEF Own
    <2>4. /\ deleted[x] = {}
          /\ Mess \in exclusive[x] => Mess \in committed
          /\ \A m \in Messages : MessageRow(m) \in keyshare[x] => MessageRow(m) \in committed
      BY <1>1, <1>y DEF Own
    <2> QED
      BY <2>1, <2>2, <2>3, <2>4, <1>2, <1>3, <1>y DEF Own, Mess, Deliv
  <1> QED
    BY <1>2, <1>4

\* The foreign-key check holds every message the backfill found.
LEMMA RegisterCheckKeeps ==
  ASSUME TxInv, NEW g \in Joining, RegisterCheck(g)
  PROVE  TxInv'
  <1> DEFINE x == <<"register", g>>
             B == Backfilled(x)
  <1>x. x \in RegisterTx /\ x \in Tx
    BY KindsDiffer DEF RegisterTx
  <1>y. x \notin AckTx \cup LegacyTx /\ \A h \in Acking : x # <<"ack", h>>
    BY KindsDiffer, <1>x DEF AckTx
  <1>a. /\ pc[x] = "check"
        /\ \A r \in B : Writers(x, r) = {}
        /\ \/ /\ B \subseteq committed
              /\ pc' = [pc EXCEPT ![x] = "commit"]
              /\ keyshare' = [keyshare EXCEPT ![x] = @ \cup B]
              /\ UNCHANGED <<committed, inserted, deleted, exclusive>>
           \/ Rollback(x, "aborted")
    BY DEF RegisterCheck
  <1>b. \A m \in Messages, h \in AllGroups :
            DeliveryRow(m, h) \in inserted[x] => MessageRow(m) \in B
    BY DEF Backfilled, DeliveriesOf
  <1> HIDE DEF x, B
  <1>1. CASE Rollback(x, "aborted")
    BY <1>1, <1>x, RollbackKeeps DEF Ended
  <1>2. CASE /\ B \subseteq committed
             /\ pc' = [pc EXCEPT ![x] = "commit"]
             /\ keyshare' = [keyshare EXCEPT ![x] = @ \cup B]
             /\ UNCHANGED <<committed, inserted, deleted, exclusive>>
    <2>1. Domains' /\ OthersKept(x)
      BY <1>2, <1>x DEF TxInv, Domains, OthersKept
    <2>2. /\ pc'[x] = "commit" /\ keyshare'[x] = keyshare[x] \cup B
          /\ inserted'[x] = inserted[x] /\ deleted'[x] = deleted[x]
          /\ exclusive'[x] = exclusive[x] /\ committed' = committed
      BY <1>2, <1>x DEF TxInv, Domains
    <2>3. Own(x)
      BY <1>x DEF TxInv
    <2>4. /\ deleted[x] = {} /\ Mess \notin inserted[x]
          /\ Mess \in exclusive[x] => Mess \in committed
          /\ \A m \in Messages : MessageRow(m) \in keyshare[x] => MessageRow(m) \in committed
          /\ \A y \in Tx : LogRow(First, y) \notin inserted[x]
      BY <2>3, <1>y DEF Own
    <2>5. Own(x)'
      BY <2>2, <2>4, <1>b, <1>x, <1>y, <1>2 DEF Own, Mess, Deliv
    <2>6. \A y \in Tx \ {x} : Apart(x, y) /\ Apart(y, x)
      BY <1>x DEF TxInv
    <2>7. \A y \in Tx \ {x} : Mess \in B => Mess \notin Locked(y)
      BY <1>a DEF Writers, Locked
    <2>8. \A y \in Tx \ {x} : Apart(x, y)' /\ Apart(y, x)'
      BY <2>1, <2>2, <2>6, <2>7 DEF Apart, Locked, OthersKept, Mess
    <2> QED
      BY <1>2, <1>x, <2>1, <2>5, <2>8, LocalStep
  <1> QED
    BY <1>1, <1>2, <1>a

\* Enqueue inserts a message of its own, and deliveries of that message.
LEMMA EnqueueKeeps ==
  ASSUME TxInv, NEW m \in NewMessages, EnqueueInsert(m) \/ EnqueueTrigger(m)
  PROVE  TxInv'
  <1> DEFINE x == <<"enqueue", m>>
             minted == {DeliveryRow(m, g) : g \in {h \in AllGroups : GroupRow(h) \in committed}}
  <1>x. x \in EnqueueTx /\ x \in Tx
    BY KindsDiffer DEF EnqueueTx
  <1>y. /\ x \notin AckTx \cup LegacyTx /\ x \notin RegisterTx
        /\ \A h \in Acking : x # <<"ack", h>>
        /\ \A n : x = <<"enqueue", n>> => n = m
    BY KindsDiffer, <1>x DEF AckTx
  <1>o. Own(x)
    BY <1>x DEF TxInv
  <1>a. PICK to \in {"trigger", "commit"}, rows \in {{MessageRow(m)}, minted} :
            /\ pc' = [pc EXCEPT ![x] = to]
            /\ inserted' = [inserted EXCEPT ![x] = @ \cup rows]
            /\ UNCHANGED <<committed, deleted, exclusive, keyshare>>
            /\ MessageRow(m) \in rows \/ (pc[x] = "trigger" /\ to = "commit")
    BY DEF EnqueueInsert, EnqueueTrigger, Goto
  <1>r. /\ Mess \notin rows /\ \A y : LogRow(First, y) \notin rows
        /\ \A n \in Messages, h \in AllGroups : DeliveryRow(n, h) \in rows => n = m
    <2>1. Mess # MessageRow(m) /\ \A g : Mess # DeliveryRow(m, g)
      BY RowsDiffer, FirstIsOld DEF Mess
    <2>2. \A y, g : LogRow(First, y) # MessageRow(m) /\ LogRow(First, y) # DeliveryRow(m, g)
      BY RowsDiffer
    <2>3. \A n, h, g : DeliveryRow(n, h) # MessageRow(m)
                       /\ (DeliveryRow(n, h) = DeliveryRow(m, g) => n = m)
      BY RowsDiffer
    <2> QED
      BY <2>1, <2>2, <2>3
  <1>t. pc[x] = "trigger" => MessageRow(m) \in inserted[x]
    BY <1>o DEF Own
  <1> HIDE DEF x, minted
  <1>2. /\ pc'[x] = to /\ inserted'[x] = inserted[x] \cup rows
        /\ deleted'[x] = deleted[x] /\ exclusive'[x] = exclusive[x]
        /\ keyshare'[x] = keyshare[x] /\ committed' = committed
        /\ Own(x)' => TxInv'
    BY <1>a, <1>x, InsertStep
  <1>3. to # "cascade"
    OBVIOUS
  <1>4. MessageRow(m) \in inserted'[x]
    BY <1>2, <1>a, <1>t
  <1>5. Own(x)'
    <2>1. /\ deleted[x] = {} /\ Mess \notin inserted[x]
          /\ Mess \in exclusive[x] => Mess \in committed
          /\ \A n \in Messages : MessageRow(n) \in keyshare[x] => MessageRow(n) \in committed
          /\ \A y \in Tx : LogRow(First, y) \notin inserted[x]
          /\ \A n \in Messages, h \in AllGroups :
                DeliveryRow(n, h) \in inserted[x] => n \in NewMessages /\ MessageRow(n) \in inserted[x]
      BY <1>o, <1>y DEF Own
    <2>2. \A n \in Messages, h \in AllGroups :
              DeliveryRow(n, h) \in inserted'[x] => n \in NewMessages /\ MessageRow(n) \in inserted'[x]
      BY <2>1, <1>r, <1>2, <1>4
    <2>3. Mess \notin inserted'[x] /\ \A y \in Tx : LogRow(First, y) \notin inserted'[x]
      BY <2>1, <1>r, <1>2
    <2> QED
      BY <2>1, <2>2, <2>3, <1>2, <1>3, <1>4, <1>y DEF Own, Mess, Deliv
  <1> QED
    BY <1>2, <1>5

\* The COMMIT.  What it deletes takes all its deliveries along and is locked, so
\* no other transaction has counted on it; what it inserts is backed by a message
\* of its own or one held by its foreign-key check.
LEMMA CommitKeeps ==
  ASSUME TxInv, NEW x \in Tx, Commit(x)
  PROVE  TxInv'
  <1>a. /\ pc[x] = "commit" /\ pc' = [pc EXCEPT ![x] = "committed"]
        /\ committed' = (committed \cup inserted[x]) \ deleted[x]
        /\ Release(x)
    BY DEF Commit, Goto
  <1>1. /\ Domains' /\ OthersKept(x) /\ Own(x)'
        /\ \A y \in Tx \ {x} : Apart(x, y)' /\ Apart(y, x)'
    BY <1>a, Released DEF Ended
  <1>o. Own(x)
    BY DEF TxInv
  <1>g. \A m \in Messages : MessageRow(m) \in deleted[x] => m = First
    BY <1>o, RowsDiffer DEF Own, Guarded, Mess, Deliv
  <1>l. \A y : LogRow(First, y) \notin deleted[x]
    BY <1>o, RowsDiffer DEF Own, Guarded, Mess, Deliv
  <1>m. Mess \in committed' <=> Mess \in committed /\ Mess \notin deleted[x]
    BY <1>a, <1>o DEF Own
  <1>2. NoDanglingDelivery'
    <2> SUFFICES ASSUME NEW m \in Messages, NEW g \in AllGroups, DeliveryRow(m, g) \in committed'
                 PROVE  MessageRow(m) \in committed'
      BY DEF NoDanglingDelivery
    <2>1. CASE DeliveryRow(m, g) \in committed
      <3>1. MessageRow(m) \in committed
        BY <2>1 DEF TxInv, Facts, NoDanglingDelivery
      <3>2. MessageRow(m) \notin deleted[x]
        <4> SUFFICES ASSUME MessageRow(m) \in deleted[x] PROVE FALSE
          OBVIOUS
        <4>1. m = First
          BY <1>g
        <4> QED
          BY <4>1, <2>1, <1>o, <1>a DEF Own, Mess, Deliv
      <3> QED
        BY <3>1, <3>2, <1>a
    <2>2. CASE DeliveryRow(m, g) \in inserted[x]
      <3>1. CASE x \in RegisterTx /\ MessageRow(m) \in keyshare[x]
        <4>1. deleted[x] = {} /\ MessageRow(m) \in committed
          BY <3>1, <1>o, KindsDiffer DEF Own
        <4> QED
          BY <4>1, <1>a
      <3>2. CASE m \in NewMessages /\ MessageRow(m) \in inserted[x]
        BY <3>2, <1>g, <1>a, FirstIsOld
      <3> QED
        BY <2>2, <3>1, <3>2, <1>o, <1>a DEF Own
    <2> QED
      BY <2>1, <2>2, <1>a
  <1>i. \A y \in Tx : LogRow(First, y) \in inserted[x] =>
            y = x /\ Mess \in deleted[x] /\ Mess \in committed
    BY <1>o, <1>a DEF Own
  <1>3. \A y \in Tx : LogRow(First, y) \in committed' => Mess \notin committed'
    <2> TAKE y \in Tx
    <2>1. LogRow(First, y) \in committed' =>
             LogRow(First, y) \in committed \/ LogRow(First, y) \in inserted[x]
      BY <1>a
    <2>2. LogRow(First, y) \in committed => Mess \notin committed
      BY DEF TxInv, Facts
    <2> QED
      BY <2>1, <2>2, <1>i, <1>m
  <1>4. \A y, z \in Tx : LogRow(First, y) \in committed' /\ LogRow(First, z) \in committed' => y = z
    <2> TAKE y, z \in Tx
    <2>1. \A v \in Tx : LogRow(First, v) \in committed' =>
             LogRow(First, v) \in committed \/ LogRow(First, v) \in inserted[x]
      BY <1>a
    <2>2. \A v \in Tx : LogRow(First, v) \in committed => Mess \notin committed
      BY DEF TxInv, Facts
    <2>3. LogRow(First, y) \in committed /\ LogRow(First, z) \in committed => y = z
      BY DEF TxInv, Facts
    <2> QED
      BY <2>1, <2>2, <2>3, <1>i
  <1>5. Facts'
    BY <1>2, <1>3, <1>4 DEF Facts, Mess
  <1>6. ASSUME NEW y \in Tx \ {x}
        PROVE  Own(y)'
    <2>1. Own(y) /\ Apart(x, y) /\ Apart(y, x)
      BY DEF TxInv
    <2>2. /\ inserted'[y] = inserted[y] /\ deleted'[y] = deleted[y]
          /\ exclusive'[y] = exclusive[y] /\ keyshare'[y] = keyshare[y]
          /\ pc'[y] = pc[y]
      BY <1>1 DEF OthersKept
    <2>3. Mess \in deleted[y] => \A g \in AllGroups : Deliv(g) \in committed' => Deliv(g) \in deleted[y]
      <3> SUFFICES ASSUME Mess \in deleted[y], NEW g \in AllGroups, Deliv(g) \in committed'
                   PROVE  Deliv(g) \in deleted[y]
        OBVIOUS
      <3>1. CASE Deliv(g) \in committed
        BY <3>1, <2>1 DEF Own
      <3>2. CASE Deliv(g) \in inserted[x]
        <4>1. MessageRow(First) \in keyshare[x]
          BY <3>2, <1>o, <1>a, FirstIsOld DEF Own, Deliv
        <4> QED
          BY <4>1, <2>1 DEF Apart, Locked, Mess
      <3> QED
        BY <3>1, <3>2, <1>a
    <2>4. Mess \in exclusive[y] => Mess \in committed'
      BY <2>1, <1>m, FirstIsOld DEF Own, Apart, Locked
    <2>5. pc[y] = "cascade" /\ Mess \in committed' => Mess \in exclusive[y]
      BY <2>1, <1>m DEF Own
    <2>6. \A m \in Messages : MessageRow(m) \in keyshare[y] => MessageRow(m) \in committed'
      <3> TAKE m \in Messages
      <3>1. MessageRow(m) \in keyshare[y] => MessageRow(m) \in committed
        BY <2>1 DEF Own
      <3>2. MessageRow(m) \in keyshare[y] => MessageRow(m) \notin deleted[x]
        BY <1>g, <2>1 DEF Apart, Locked, Mess
      <3> QED
        BY <3>1, <3>2, <1>a
    <2>7. \A g \in Acking :
             y = <<"ack", g>> /\ pc[y] \in {"delete", "count", "message", "cascade", "commit"} =>
                 Deliv(g) \in exclusive[y] /\ Deliv(g) \in committed'
      <3> TAKE g \in Acking
      <3>1. Deliv(g) \in Guarded
        BY DEF Guarded, AllGroups
      <3>2. Deliv(g) \in exclusive[y] => Deliv(g) \notin deleted[x]
        BY <3>1, <2>1 DEF Apart, Locked
      <3>3. y = <<"ack", g>> /\ pc[y] \in {"delete", "count", "message", "cascade", "commit"} =>
                 Deliv(g) \in exclusive[y] /\ Deliv(g) \in committed
        BY <2>1 DEF Own
      <3> QED
        BY <3>2, <3>3, <1>a
    <2> QED
      BY <2>1, <2>2, <2>3, <2>4, <2>5, <2>6, <2>7 DEF Own, Mess, Deliv
  <1>7. ASSUME NEW y \in Tx, NEW z \in Tx, y # z
        PROVE  Apart(y, z)'
    <2>1. CASE y # x /\ z # x
      <3>1. Apart(y, z)
        BY <1>7 DEF TxInv
      <3> QED
        BY <2>1, <3>1, <1>1 DEF OthersKept, Apart, Locked, Mess
    <2> QED
      BY <2>1, <1>1, <1>7
  <1> QED
    BY <1>1, <1>5, <1>6, <1>7 DEF TxInv

\* Every statement keeps the invariant.
LEMMA NextTx == TxInv /\ [Next]_vars => TxInv'
  <1> SUFFICES ASSUME TxInv, [Next]_vars PROVE TxInv'
    OBVIOUS
  <1>1. CASE UNCHANGED vars
    <2>1. Domains' /\ Facts'
      BY <1>1 DEF vars, TxInv, Domains, Facts, NoDanglingDelivery, Mess
    <2>2. \A x \in Tx : Own(x)'
      BY <1>1 DEF vars, TxInv, Own, Mess, Deliv
    <2>3. \A x, y \in Tx : x # y => Apart(x, y)'
      BY <1>1 DEF vars, TxInv, Apart, Locked, Mess
    <2> QED
      BY <2>1, <2>2, <2>3 DEF TxInv
  <1>2. ASSUME NEW x \in Tx, Step(x)
        PROVE  TxInv'
    <2>1. CASE x[1] = "ack" /\ (AckSelect(x[2]) \/ AckDelete(x[2]) \/ AckCount(x[2])
                               \/ LockMessage(x, "message", "cascade"))
      <3>1. x[2] \in Acking /\ x \in AckTx
        BY <2>1, KindOf
      <3> QED
        BY <2>1, <3>1, AckSelectKeeps, AckDeleteKeeps, AckCountKeeps, LockMessageKeeps
    <2>2. CASE x[1] = "legacy" /\ (LegacyDequeue(x) \/ LegacySelect(x))
      <3>1. x \in LegacyTx
        BY <2>2, KindOf
      <3> QED
        BY <2>2, <3>1, LegacyDequeueKeeps, LegacySelectKeeps
    <2>3. CASE x[1] = "register" /\ (RegisterInsert(x[2]) \/ RegisterBackfill(x[2])
                                    \/ RegisterCheck(x[2]))
      <3>1. x[2] \in Joining
        BY <2>3, KindOf
      <3> QED
        BY <2>3, <3>1, RegisterInsertKeeps, RegisterCheckKeeps
    <2>4. CASE x[1] = "enqueue" /\ (EnqueueInsert(x[2]) \/ EnqueueTrigger(x[2]))
      <3>1. x[2] \in NewMessages
        BY <2>4, KindOf
      <3> QED
        BY <2>4, <3>1, EnqueueKeeps
    <2>5. CASE DeleteMessage(x)
      BY <2>5, DeleteMessageKeeps
    <2>6. CASE Commit(x)
      BY <2>6, CommitKeeps
    <2>7. CASE DeadlockAbort(x)
      <3>1. Rollback(x, "aborted")
        BY <2>7 DEF DeadlockAbort
      <3> QED
        BY <3>1, RollbackKeeps DEF Ended
    <2> QED
      BY <1>2, <2>1, <2>2, <2>3, <2>4, <2>5, <2>6, <2>7 DEF Step
  <1> QED
    BY <1>1, <1>2 DEF Next

\* The invariant holds in every reachable state, whatever the schedule.
LEMMA AlwaysTx == Spec => []TxInv
  BY InitTx, NextTx, PTL DEF Spec

\* At most one transaction archives the message, and it deletes it: no pair of last
\* acks by any number of groups and of clients without one both insert a log row.
THEOREM ArchivedOnceHolds == Spec => []ArchivedOnce
  <1>1. TxInv => ArchivedOnce
    <2> SUFFICES ASSUME TxInv PROVE ArchivedOnce
      OBVIOUS
    <2> DEFINE S == {x \in Tx : LogRow(First, x) \in committed}
    <2>1. \A x, y \in S : x = y
      BY DEF TxInv, Facts
    <2>2. Cardinality(S) <= 1
      <3>1. CASE S = {}
        BY <3>1, FS_EmptySet
      <3>2. CASE S # {}
        <4>1. PICK x : x \in S
          BY <3>2
        <4>2. S = {x}
          BY <4>1, <2>1
        <4>3. Cardinality({x}) = 1
          BY FS_Singleton
        <4> QED
          BY <4>2, <4>3
      <3> QED
        BY <3>1, <3>2
    <2> QED
      BY <2>2 DEF ArchivedOnce, TxInv, Facts, Mess
  <1> QED
    BY <1>1, AlwaysTx, PTL

=============================================================================
