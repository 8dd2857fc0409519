----------------------- MODULE TopicRegistries_proofs -----------------------
(***************************************************************************)
(* Proofs about the two registries of a topic, for any number of           *)
(* instances, requests and changes.                                        *)
(*                                                                         *)
(* The configuration: an outdated entry that nobody doubts needs a change  *)
(* that has not announced itself.  As long as the change has not dropped   *)
(* the Redis entry, Redis and the reads under way may have the old row;    *)
(* after that only the entries of the processes may, and the invalidation  *)
(* is on its way to them.                                                  *)
(*                                                                         *)
(* The schema: what is compiled, shared or fetched has been a row, so two  *)
(* of the same version differ only if the version was given twice.         *)
(***************************************************************************)
EXTENDS SchemaRegistry, TLAPS

-----------------------------------------------------------------------------
(* Entries and requests *)

Requests == Readers \cup Admins
Cached == Entry \cup {Miss}

\* An entry that disagrees with row r and is not in doubt.
Wrong(e, r) == e # Miss /\ e.cfg # r /\ ~e.doubtful

Active == [step : ReadSteps \cup ChangeSteps, at : Instances, got : Cached]

\* Doubting an entry of a cache keeps what it says and takes the blame off it.
LEMMA DoubtShape ==
    ASSUME NEW e \in Cached
    PROVE  /\ Doubt(e) \in Cached
           /\ Doubt(e) = Miss <=> e = Miss
           /\ e # Miss => Doubt(e).cfg = e.cfg
           /\ \A r : ~Wrong(Doubt(e), r)
  <1>1. CASE e = Miss
    BY <1>1 DEF Doubt, Wrong, Cached
  <1>2. CASE e # Miss
    <2>1. e \in Entry /\ Doubt(e) = [e EXCEPT !.doubtful = TRUE]
      BY <1>2 DEF Doubt, Cached
    <2>2. Doubt(e) \in Entry
      BY <2>1 DEF Entry
    <2>3. Doubt(e).cfg = e.cfg
      BY <2>1 DEF Entry
    <2>4. Doubt(e).doubtful = TRUE
      BY <2>1 DEF Entry
    <2>5. Doubt(e) # Miss
      BY <2>2, MissAssumption
    <2> QED
      BY <1>2, <2>2, <2>3, <2>4, <2>5 DEF Wrong, Cached
  <1> QED
    BY <1>1, <1>2

\* A request is idle or under way, never both.
LEMMA RequestCases ==
    /\ Request = {Idle} \cup Active
    /\ Idle \notin Active /\ Idle.step = "idle"
    /\ \A q \in Active : q.step # "idle"
    /\ \A q \in Request : q.step # "idle" => q \in Active
  <1>1. Request = {Idle} \cup Active
    BY DEF Request, Active, Cached
  <1>2. Idle.step = "idle"
    BY DEF Idle
  <1>3. \A q \in Active : q.step # "idle"
    BY DEF Active, ReadSteps, ChangeSteps
  <1> QED
    BY <1>1, <1>2, <1>3

\* An invalidation that overtakes a read leaves the request where it is, with
\* its entry in doubt.
LEMMA OvertakenShape ==
    ASSUME NEW f \in [Requests -> Request], NEW S
    PROVE  /\ Overtaken(f, S) \in [Requests -> Request]
           /\ \A p \in Requests :
                 /\ Overtaken(f, S)[p].step = f[p].step
                 /\ Overtaken(f, S)[p] = Idle <=> f[p] = Idle
                 /\ f[p] \in Active =>
                       /\ Overtaken(f, S)[p] \in Active
                       /\ Overtaken(f, S)[p].got \in {f[p].got, Doubt(f[p].got)}
                       /\ f[p].at \in S => Overtaken(f, S)[p].got = Doubt(f[p].got)
  <1> DEFINE o(p) == Overtaken(f, S)[p]
  <1>1. DOMAIN f = Requests /\ DOMAIN Overtaken(f, S) = Requests
    BY DEF Overtaken
  <1>2. ASSUME NEW p \in Requests
        PROVE  /\ o(p).step = f[p].step
               /\ o(p) = Idle <=> f[p] = Idle
               /\ o(p) \in Request
               /\ f[p] \in Active =>
                     /\ o(p) \in Active
                     /\ o(p).got \in {f[p].got, Doubt(f[p].got)}
                     /\ f[p].at \in S => o(p).got = Doubt(f[p].got)
    <2> f[p] \in Request
      OBVIOUS
    <2>1. CASE f[p] # Idle /\ f[p].at \in S /\ f[p].got # Miss
      <3>1. f[p] \in Active
        BY <2>1, RequestCases
      <3>2. f[p].got \in Entry
        BY <2>1, <3>1 DEF Active, Cached
      <3>3. o(p) = [f[p] EXCEPT !.got.doubtful = TRUE]
        BY <1>1, <2>1 DEF Overtaken
      <3>4. o(p) = [f[p] EXCEPT !.got = Doubt(f[p].got)]
        BY <2>1, <3>1, <3>3 DEF Doubt, Active
      <3>5. Doubt(f[p].got) \in Cached /\ f[p].got \in Cached
        BY <3>2, DoubtShape DEF Cached
      <3>6. /\ o(p) \in Active /\ o(p).step = f[p].step
            /\ o(p).got = Doubt(f[p].got)
        BY <3>1, <3>4, <3>5 DEF Active
      <3> HIDE DEF o
      <3>7. o(p) # Idle /\ o(p) \in Request
        BY <3>6, RequestCases
      <3> QED
        BY <2>1, <3>6, <3>7
    <2>2. CASE ~(f[p] # Idle /\ f[p].at \in S /\ f[p].got # Miss)
      <3>1. o(p) = f[p]
        BY <1>1, <2>2 DEF Overtaken
      <3>2. f[p] \in Active => f[p] # Idle
        BY RequestCases
      <3>3. f[p].got = Miss => Doubt(f[p].got) = f[p].got
        BY DEF Doubt
      <3> QED
        BY <2>2, <3>1, <3>2, <3>3
    <2> QED
      BY <2>1, <2>2
  <1>3. Overtaken(f, S) \in [Requests -> Request]
    <2>1. Overtaken(f, S) = [p \in Requests |-> o(p)]
      BY <1>1 DEF Overtaken
    <2> HIDE DEF o
    <2> QED
      BY <1>2, <2>1
  <1> QED
    BY <1>2, <1>3

-----------------------------------------------------------------------------
(* The configuration *)

\* The types of the caches and requests, and who does what.
CacheShape ==
    /\ row \in TopicConfig
    /\ l1 \in [Instances -> Cached]
    /\ l2 \in Cached
    /\ req \in [Requests -> Request]
    /\ listening \subseteq Instances
    /\ inbox \in [Instances -> Nat]
    /\ \A p \in Admins : req[p] # Idle => req[p].step \in ChangeSteps
    /\ \A p \in Readers : req[p] # Idle => req[p].step \in ReadSteps

\* A change that has not dropped the Redis entry yet.
Unflushed == \E p \in Admins : req[p].step \in {"deleteBucket", "dropLocal", "dropRedis"}

\* The inductive strengthening of StaleOnlyAfterRace.
StaleInv ==
    /\ StaleOnlyAfterRace
    /\ Wrong(l2, row) => Unflushed
    /\ \A p \in Readers : req[p] # Idle /\ Wrong(req[p].got, row) => Unflushed

\* The entries of the instances S, doubted.
LEMMA DoubtAtShape ==
    ASSUME l1 \in [Instances -> Cached], NEW S
    PROVE  /\ DoubtAt(S) \in [Instances -> Cached]
           /\ \A i \in Instances : DoubtAt(S)[i] = IF i \in S THEN Doubt(l1[i]) ELSE l1[i]
  <1> \A i \in Instances : l1[i] \in Cached
    OBVIOUS
  <1> QED
    BY DoubtShape DEF DoubtAt

-----------------------------------------------------------------------------
(* Types *)

\* The requests after one of them ended.
LEMMA FinishShape ==
    ASSUME CacheShape, NEW p \in Requests
    PROVE  /\ Finish(p) \in [Requests -> Request]
           /\ Finish(p)[p] = Idle
           /\ \A q \in Requests \ {p} : Finish(p)[q] = req[q]
  <1> req \in [Requests -> Request] /\ Idle \in Request
    BY RequestCases DEF CacheShape
  <1> QED
    BY DEF Finish

\* The requests after one of them went on to its next step.
LEMMA GotoShape ==
    ASSUME CacheShape, NEW p \in Requests, req[p] \in Active,
           NEW step \in ReadSteps \cup ChangeSteps
    PROVE  /\ Goto(p, step) \in [Requests -> Request]
           /\ Goto(p, step)[p] \in Active
           /\ Goto(p, step)[p].step = step
           /\ Goto(p, step)[p].at = req[p].at
           /\ Goto(p, step)[p].got = req[p].got
           /\ \A q \in Requests \ {p} : Goto(p, step)[q] = req[q]
  <1> req \in [Requests -> Request]
    BY DEF CacheShape
  <1>1. [req[p] EXCEPT !.step = step] \in Active
    BY DEF Active
  <1>2. Goto(p, step)[p] = [req[p] EXCEPT !.step = step]
    BY DEF Goto
  <1>3. Goto(p, step) \in [Requests -> Request]
    BY <1>1, RequestCases DEF Goto
  <1>4. \A q \in Requests \ {p} : Goto(p, step)[q] = req[q]
    BY DEF Goto
  <1> QED
    BY <1>1, <1>2, <1>3, <1>4 DEF Active

\* A step of a request keeps the types of the configuration's caches.
LEMMA ReadKeepsShape ==
    ASSUME CacheShape, NEW p \in Readers, Read(p)
    PROVE  CacheShape'
  <1> p \in Requests /\ p \notin Admins
    BY CacheConstants DEF Requests
  <1>0. /\ req \in [Requests -> Request] /\ l1 \in [Instances -> Cached] /\ l2 \in Cached
        /\ row \in TopicConfig
        /\ listening \subseteq Instances /\ inbox \in [Instances -> Nat]
    BY DEF CacheShape
  <1>a. SUFFICES /\ req' \in [Requests -> Request] /\ l1' \in [Instances -> Cached] /\ l2' \in Cached
                 /\ req'[p] # Idle => req'[p].step \in ReadSteps
                 /\ \A q \in Requests \ {p} : req'[q] = req[q]
                 /\ UNCHANGED <<row, listening, inbox>>
    <2> Readers \cap Admins = {}
      BY CacheConstants
    <2> QED
      BY <1>0 DEF CacheShape, Requests
  <1>1. CASE \E i \in Instances : LoadLocal(p, i)
    <2> PICK i \in Instances : LoadLocal(p, i)
      BY <1>1
    <2>1. [step |-> "getRedis", at |-> i, got |-> Miss] \in Active
      BY DEF Active, ReadSteps, Cached
    <2> QED
      BY <1>0, <2>1, RequestCases DEF LoadLocal, ReadSteps
  <1>2. CASE GetRedis(p)
    <2>1. req[p] \in Active
      BY <1>0, <1>2, RequestCases DEF GetRedis, At
    <2>2. CASE l2 \in Entry /\ req' = [req EXCEPT ![p].step = "keep", ![p].got = l2] /\ l2' = l2
      <3>1. [[req[p] EXCEPT !.step = "keep"] EXCEPT !.got = l2] \in Active
        BY <2>1, <2>2 DEF Active, ReadSteps, Cached
      <3>2. req'[p].step = "keep"
        BY <1>0, <2>1, <2>2 DEF Active
      <3>3. req' \in [Requests -> Request]
        BY <1>0, <2>2, <3>1, RequestCases
      <3> QED
        BY <1>0, <1>2, <2>2, <3>2, <3>3 DEF GetRedis, ReadSteps
    <2>3. CASE req' = Goto(p, "select") /\ l2' \in {l2, Miss}
      <3>1. "select" \in ReadSteps /\ l2' \in Cached
        BY <1>0, <2>3 DEF ReadSteps, Cached
      <3>2. /\ req' \in [Requests -> Request] /\ req'[p].step = "select"
            /\ \A q \in Requests \ {p} : req'[q] = req[q]
        BY <2>1, <2>3, <3>1, GotoShape
      <3> QED
        BY <1>0, <1>2, <3>1, <3>2 DEF GetRedis
    <2> QED
      BY <1>2, <2>2, <2>3 DEF GetRedis
  <1>3. CASE SelectRow(p)
    <2>1. req[p] \in Active
      BY <1>0, <1>3, RequestCases DEF SelectRow, At
    <2> DEFINE e == [cfg |-> row, doubtful |-> FALSE]
    <2>2. e \in Cached
      BY <1>0 DEF Entry, Cached
    <2> HIDE DEF e
    <2>3. CASE req' = [req EXCEPT ![p].step = "keepAndShare", ![p].got = e]
      <3>1. [[req[p] EXCEPT !.step = "keepAndShare"] EXCEPT !.got = e] \in Active
        BY <2>1, <2>2 DEF Active, ReadSteps
      <3>2. req'[p].step = "keepAndShare"
        BY <1>0, <2>1, <2>3 DEF Active
      <3>3. req' \in [Requests -> Request]
        BY <1>0, <2>3, <3>1, RequestCases
      <3> QED
        BY <1>0, <1>3, <2>3, <3>2, <3>3 DEF SelectRow, ReadSteps
    <2>4. CASE req' = Finish(p)
      BY <1>0, <1>3, <2>4, FinishShape DEF SelectRow
    <2> QED
      BY <1>3, <2>3, <2>4 DEF SelectRow, e
  <1>4. CASE StoreLocal(p)
    <2>1. req[p] \in Active
      BY <1>0, <1>4, RequestCases DEF StoreLocal, At
    <2>2. l1' \in [Instances -> Cached]
      BY <1>0, <1>4, <2>1 DEF StoreLocal, Active
    <2>3. req' = Finish(p) \/ req' = Goto(p, "setRedis")
      BY <1>4 DEF StoreLocal
    <2>4. "setRedis" \in ReadSteps
      BY DEF ReadSteps
    <2>5. /\ req' \in [Requests -> Request]
          /\ req'[p] # Idle => req'[p].step \in ReadSteps
          /\ \A q \in Requests \ {p} : req'[q] = req[q]
      BY <2>1, <2>3, <2>4, FinishShape, GotoShape
    <2>6. UNCHANGED <<row, l2, listening, inbox>>
      BY <1>4 DEF StoreLocal
    <2> QED
      BY <1>0, <2>2, <2>5, <2>6
  <1>5. CASE SetRedis(p)
    <2>1. req[p] \in Active
      BY <1>0, <1>5, RequestCases DEF SetRedis, At
    <2>2. l2' \in Cached
      BY <1>0, <1>5, <2>1 DEF SetRedis, Active
    <2> QED
      BY <1>0, <1>5, <2>2, FinishShape DEF SetRedis
  <1> QED
    BY <1>1, <1>2, <1>3, <1>4, <1>5 DEF Read

\* A change of the configuration keeps them.
LEMMA ChangeKeepsShape ==
    ASSUME CacheShape, NEW p \in Admins, Begin(p) \/ Finalize(p)
    PROVE  CacheShape'
  <1> p \in Requests /\ p \notin Readers
    BY CacheConstants DEF Requests
  <1>0. /\ req \in [Requests -> Request] /\ l1 \in [Instances -> Cached] /\ l2 \in Cached
        /\ row \in TopicConfig
        /\ listening \subseteq Instances /\ inbox \in [Instances -> Nat]
    BY DEF CacheShape
  <1>a. SUFFICES /\ req' \in [Requests -> Request] /\ l1' \in [Instances -> Cached] /\ l2' \in Cached
                 /\ inbox' \in [Instances -> Nat] /\ row' \in TopicConfig
                 /\ req'[p] # Idle => req'[p].step \in ChangeSteps
                 /\ \A q \in Requests \ {p} :
                       req'[q].step = req[q].step /\ (req'[q] = Idle <=> req[q] = Idle)
                 /\ UNCHANGED listening
    <2> Readers \cap Admins = {}
      BY CacheConstants
    <2> QED
      BY <1>0 DEF CacheShape, Requests
  <1>1. ASSUME NEW i \in Instances, NEW cfg \in TopicConfig,
               NEW step \in ChangeSteps, Change(p, i, cfg, step)
        PROVE  /\ req' \in [Requests -> Request] /\ row' \in TopicConfig
               /\ req'[p] # Idle => req'[p].step \in ChangeSteps
               /\ \A q \in Requests \ {p} : req'[q] = req[q]
               /\ UNCHANGED <<l1, l2, listening, inbox>>
    <2>1. [step |-> step, at |-> i, got |-> Miss] \in Active
      BY DEF Active, Cached
    <2> QED
      BY <1>0, <1>1, <2>1, RequestCases DEF Change
  <1>2. CASE Begin(p)
    <2>1. \E i \in Instances, cfg \in TopicConfig, step \in ChangeSteps : Change(p, i, cfg, step)
      <3>1. ASSUME NEW i \in Instances, DeleteTopicConfig(p, i)
            PROVE  Change(p, i, Null, "deleteBucket")
        BY <3>1 DEF DeleteTopicConfig
      <3>2. ASSUME NEW i \in Instances, NEW r \in ConfigRequests, UpsertTopicConfig(p, i, r)
            PROVE  Change(p, i, ToTopicConfig(r), "dropLocal")
        BY <3>2 DEF UpsertTopicConfig
      <3>3. Null \in TopicConfig /\ \A r \in ConfigRequests : ToTopicConfig(r) \in TopicConfig
        BY DEF TopicConfig
      <3>4. "deleteBucket" \in ChangeSteps /\ "dropLocal" \in ChangeSteps
        BY DEF ChangeSteps
      <3> QED
        BY <1>2, <3>1, <3>2, <3>3, <3>4 DEF Begin
    <2> QED
      BY <1>0, <1>1, <2>1
  <1>3. CASE Finalize(p)
    <2>1. req[p] \in Active
      BY <1>0, <1>3, RequestCases
      DEF Finalize, DeleteBucket, DropLocal, DropRedis, Publish, At
    <2>2. \A step \in {"dropLocal", "dropRedis", "publish"} :
             step \in ReadSteps \cup ChangeSteps /\ step \in ChangeSteps
      BY DEF ChangeSteps
    <2> DEFINE Moved == {Goto(p, "dropLocal"), Goto(p, "dropRedis"), Goto(p, "publish"), Finish(p)}
               Fine(f) == /\ f \in [Requests -> Request]
                          /\ f[p] # Idle => f[p].step \in ChangeSteps
                          /\ \A q \in Requests \ {p} :
                                f[q].step = req[q].step /\ (f[q] = Idle <=> req[q] = Idle)
    <2>3. ASSUME NEW f \in Moved
          PROVE  Fine(f)
      BY <2>1, <2>2, FinishShape, GotoShape
    <2>b. ASSUME NEW f \in Moved, NEW S
          PROVE  Fine(Overtaken(f, S))
      <3>1. Fine(f)
        BY <2>3
      <3> HIDE DEF Moved
      <3>2. /\ Overtaken(f, S) \in [Requests -> Request]
            /\ \A q \in Requests : /\ Overtaken(f, S)[q].step = f[q].step
                                   /\ Overtaken(f, S)[q] = Idle <=> f[q] = Idle
        BY <3>1, OvertakenShape
      <3> QED
        BY <3>1, <3>2
    <2> SUFFICES /\ l1' \in [Instances -> Cached] /\ l2' \in Cached
                 /\ inbox' \in [Instances -> Nat] /\ row' \in TopicConfig
                 /\ Fine(req')
                 /\ UNCHANGED listening
      OBVIOUS
    <2> HIDE DEF Fine
    <2>4. CASE DeleteBucket(p)
      <3>1. l1' \in [Instances -> Cached] /\ l2' \in Cached
        BY <1>0, <2>4, DoubtShape, DoubtAtShape DEF DeleteBucket
      <3>2. UNCHANGED <<row, listening, inbox>>
        BY <2>4 DEF DeleteBucket
      <3>3. req' = Goto(p, "dropLocal") \/ req' = Overtaken(Finish(p), Instances)
        BY <2>4 DEF DeleteBucket
      <3> QED
        BY <1>0, <2>3, <2>b, <3>1, <3>2, <3>3
    <2>5. CASE DropLocal(p)
      <3>1. l1' \in [Instances -> Cached] /\ req' = Goto(p, "dropRedis")
        BY <1>0, <2>5 DEF DropLocal, Cached
      <3>2. UNCHANGED <<row, l2, listening, inbox>>
        BY <2>5 DEF DropLocal
      <3> QED
        BY <1>0, <2>3, <2>b, <3>1, <3>2
    <2>6. CASE DropRedis(p)
      <3>1. l2' \in Cached
        BY <1>0, <2>6, DoubtShape DEF DropRedis, Cached
      <3>2. UNCHANGED <<row, l1, listening, inbox>> /\ req' = Overtaken(Goto(p, "publish"), Instances)
        BY <2>6 DEF DropRedis
      <3> QED
        BY <1>0, <2>3, <2>b, <3>1, <3>2
    <2>7. CASE Publish(p)
      <3> PICK reached \in {listening, {}} :
            /\ inbox' = [i \in Instances |-> IF i \in reached THEN inbox[i] + 1 ELSE inbox[i]]
            /\ l1' = DoubtAt(Instances \ reached)
            /\ req' = Overtaken(Finish(p), Instances \ reached)
        BY <2>7 DEF Publish
      <3>1. l1' \in [Instances -> Cached] /\ inbox' \in [Instances -> Nat]
        BY <1>0, DoubtAtShape
      <3>2. UNCHANGED <<row, l2, listening>>
        BY <2>7 DEF Publish
      <3> QED
        BY <1>0, <2>3, <2>b, <3>1, <3>2
    <2> QED
      BY <1>3, <2>4, <2>5, <2>6, <2>7 DEF Finalize
  <1> QED
    BY <1>2, <1>3

\* What a listener or a restart does keeps them.
LEMMA ListenerKeepsShape ==
    ASSUME CacheShape, NEW i \in Instances,
           HandleInvalidation(i) \/ LoseConnection(i) \/ Reconnect(i) \/ Restart(i)
    PROVE  CacheShape'
  <1>0. /\ req \in [Requests -> Request] /\ l1 \in [Instances -> Cached] /\ l2 \in Cached
        /\ row \in TopicConfig
        /\ listening \subseteq Instances /\ inbox \in [Instances -> Nat]
    BY DEF CacheShape
  <1> DEFINE Fine(f) == /\ f \in [Requests -> Request]
                        /\ \A q \in Requests : f[q] = Idle \/ f[q].step = req[q].step
                        /\ \A q \in Requests : req[q] = Idle => f[q] = Idle
  <1>a. SUFFICES /\ l1' \in [Instances -> Cached] /\ l2' \in Cached
                 /\ inbox' \in [Instances -> Nat]
                 /\ listening' \subseteq Instances
                 /\ Fine(req')
                 /\ UNCHANGED row
    BY <1>0 DEF CacheShape, Requests
  <1>b. ASSUME NEW f, Fine(f), NEW S
        PROVE  Fine(Overtaken(f, S))
    <2>1. f \in [Requests -> Request]
      BY <1>b
    <2>2. /\ Overtaken(f, S) \in [Requests -> Request]
          /\ \A q \in Requests : /\ Overtaken(f, S)[q].step = f[q].step
                                 /\ Overtaken(f, S)[q] = Idle <=> f[q] = Idle
      BY <2>1, OvertakenShape
    <2> QED
      BY <1>b, <2>2
  <1>c. Fine(req)
    BY <1>0
  <1> Miss \in Cached
    BY DEF Cached
  <1>1. CASE HandleInvalidation(i)
    <2>1. Fine(req')
      BY <1>1, <1>b, <1>c DEF HandleInvalidation
    <2>2. inbox' \in [Instances -> Nat]
      <3>1. inbox[i] \in Nat /\ inbox[i] > 0
        BY <1>0, <1>1 DEF HandleInvalidation
      <3>2. inbox[i] - 1 \in Nat
        BY <3>1
      <3> QED
        BY <1>0, <1>1, <3>2 DEF HandleInvalidation
    <2> HIDE DEF Fine
    <2> QED
      BY <1>0, <1>1, <2>1, <2>2 DEF HandleInvalidation
  <1>2. CASE LoseConnection(i)
    <2> HIDE DEF Fine
    <2> PICK left \in 0..inbox[i] :
          /\ inbox' = [inbox EXCEPT ![i] = left]
          /\ IF left < inbox[i]
             THEN l1' = DoubtAt({i}) /\ req' = Overtaken(req, {i})
             ELSE UNCHANGED <<l1, req>>
      BY <1>2 DEF LoseConnection
    <2>1. left \in Nat /\ inbox' \in [Instances -> Nat]
      BY <1>0
    <2>2. l1' \in [Instances -> Cached]
      BY <1>0, DoubtAtShape
    <2>3. Fine(req')
      BY <1>b, <1>c
    <2> QED
      BY <1>0, <1>2, <2>1, <2>2, <2>3 DEF LoseConnection
  <1>3. CASE Reconnect(i)
    <2> HIDE DEF Fine
    <2> QED
      BY <1>0, <1>3, <1>c DEF Reconnect
  <1>4. CASE Restart(i)
    <2> DEFINE here == {p \in DOMAIN req : req[p] # Idle /\ req[p].at = i}
               cut  == \E p \in here : req[p].step \in ChangeSteps
               missed == IF cut THEN Instances ELSE {i}
               left == [p \in DOMAIN req |-> IF p \in here THEN Idle ELSE req[p]]
    <2>1. /\ l1' = [DoubtAt(missed) EXCEPT ![i] = Miss]
          /\ l2' = IF cut THEN Doubt(l2) ELSE l2
          /\ req' = Overtaken(left, missed)
          /\ inbox' = [inbox EXCEPT ![i] = 0]
          /\ listening' = listening \cup {i}
          /\ UNCHANGED <<row, held, changes>>
      BY <1>4 DEF Restart
    <2> HIDE DEF here
    <2>2. Fine(left)
      BY <1>0, RequestCases
    <2> HIDE DEF left, missed, cut
    <2>3. Fine(req')
      BY <1>b, <2>1, <2>2
    <2> HIDE DEF Fine
    <2>4. l1' \in [Instances -> Cached] /\ l2' \in Cached
      BY <1>0, <2>1, DoubtAtShape, DoubtShape
    <2> QED
      BY <1>0, <2>1, <2>3, <2>4
  <1> QED
    BY <1>1, <1>2, <1>3, <1>4

\* CacheShape holds throughout.
LEMMA ShapeInductive == Spec => []CacheShape
  <1>1. Init => CacheShape
    <2> SUFFICES ASSUME Init PROVE CacheShape
      OBVIOUS
    <2>1. Null \in TopicConfig /\ Miss \in Cached /\ Idle \in Request
      BY RequestCases DEF TopicConfig, Cached
    <2> QED
      BY <2>1 DEF Init, CacheShape, Requests
  <1>2. CacheShape /\ [Next]_vars => CacheShape'
    <2> SUFFICES ASSUME CacheShape, [Next]_vars PROVE CacheShape'
      OBVIOUS
    <2>1. CASE RedisExpires
      <3>1. Miss \in Cached
        BY DEF Cached
      <3> QED
        BY <2>1, <3>1 DEF RedisExpires, CacheShape
    <2>2. CASE UNCHANGED vars
      BY <2>2 DEF vars, CacheShape
    <2> QED
      BY <2>1, <2>2, ReadKeepsShape, ChangeKeepsShape, ListenerKeepsShape DEF Next
  <1> QED
    BY <1>1, <1>2, PTL DEF Spec

-----------------------------------------------------------------------------
(* Outdated entries *)

\* A read copies what it finds: Redis, the row and its own entry are outdated
\* only while the change has not dropped the Redis entry.
LEMMA ReadKeepsStale ==
    ASSUME CacheShape, StaleInv, NEW p \in Readers, Read(p)
    PROVE  StaleInv'
  <1> p \in Requests /\ p \notin Admins
    BY CacheConstants DEF Requests
  <1>0. req \in [Requests -> Request] /\ l1 \in [Instances -> Cached]
    BY DEF CacheShape
  <1>1. /\ UNCHANGED <<row, inbox>>
        /\ \A q \in Requests \ {p} : req'[q] = req[q]
    BY <1>0 DEF Read, LoadLocal, GetRedis, SelectRow, StoreLocal, SetRedis, Goto, Finish
  <1>2. Unflushed' = Unflushed /\ Announcing' = Announcing
    BY <1>1 DEF Unflushed, Announcing, Requests
  <1>3. Unflushed => Announcing
    BY <1>0, RequestCases DEF Unflushed, Announcing
  <1> DEFINE NotStale(e) == Wrong(e, row) => Unflushed
  <1>4. SUFFICES /\ \A i \in Instances : l1'[i] = l1[i] \/ NotStale(l1'[i])
                 /\ NotStale(l2')
                 /\ req'[p] # Idle => NotStale(req'[p].got)
    BY <1>1, <1>2, <1>3 DEF StaleInv, StaleOnlyAfterRace, Outdated, Wrong, Requests
  <1>5. NotStale(l2) /\ NotStale(Miss) /\ (req[p] # Idle => NotStale(req[p].got))
    BY DEF StaleInv, Wrong
  <1> HIDE DEF NotStale
  <1>6. CASE \E i \in Instances : LoadLocal(p, i)
    BY <1>0, <1>5, <1>6 DEF LoadLocal
  <1>7. CASE GetRedis(p)
    <2>1. req[p] \in Active /\ req[p] # Idle
      BY <1>0, <1>7, RequestCases DEF GetRedis, At
    <2>2. NotStale(l2') /\ l1' = l1
      BY <1>5, <1>7 DEF GetRedis
    <2>3. req'[p].got = l2 \/ req'[p].got = req[p].got
      BY <1>0, <1>7, <2>1 DEF GetRedis, Goto, Active
    <2> QED
      BY <1>5, <2>1, <2>2, <2>3
  <1>8. CASE SelectRow(p)
    <2>1. req[p] \in Active /\ req[p] # Idle
      BY <1>0, <1>8, RequestCases DEF SelectRow, At
    <2>2. UNCHANGED <<l1, l2>>
      BY <1>8 DEF SelectRow
    <2>3. req'[p] = Idle \/ req'[p].got = [cfg |-> row, doubtful |-> FALSE]
      BY <1>0, <1>8, <2>1 DEF SelectRow, Finish, Active
    <2>4. NotStale([cfg |-> row, doubtful |-> FALSE])
      BY DEF NotStale, Wrong
    <2> QED
      BY <1>5, <2>2, <2>3, <2>4
  <1>9. CASE StoreLocal(p)
    <2>1. req[p] \in Active /\ req[p] # Idle
      BY <1>0, <1>9, RequestCases DEF StoreLocal, At
    <2>2. l2' = l2 /\ \A i \in Instances : l1'[i] = l1[i] \/ l1'[i] = req[p].got
      BY <1>0, <1>9 DEF StoreLocal
    <2>3. req'[p] = Idle \/ req'[p].got = req[p].got
      BY <1>0, <1>9, <2>1 DEF StoreLocal, Finish, Goto, Active
    <2> QED
      BY <1>5, <2>1, <2>2, <2>3
  <1>10. CASE SetRedis(p)
    <2>1. req[p] # Idle
      BY <1>10, RequestCases DEF SetRedis, At
    <2>2. l1' = l1 /\ l2' \in {l2, req[p].got} /\ req'[p] = Idle
      BY <1>0, <1>10 DEF SetRedis, Finish
    <2> QED
      BY <1>5, <2>1, <2>2
  <1> QED
    BY <1>6, <1>7, <1>8, <1>9, <1>10 DEF Read

\* A change first writes the row and is itself the one that has not announced
\* it; it drops the Redis entry before it sends the invalidation, and every
\* instance the invalidation does not reach has its entry in doubt.
LEMMA ChangeKeepsStale ==
    ASSUME CacheShape, CacheShape', StaleInv, NEW p \in Admins, Begin(p) \/ Finalize(p)
    PROVE  StaleInv'
  <1> p \in Requests /\ p \notin Readers
    BY CacheConstants DEF Requests
  <1>0. /\ req \in [Requests -> Request] /\ l1 \in [Instances -> Cached] /\ l2 \in Cached
        /\ inbox \in [Instances -> Nat]
        /\ req' \in [Requests -> Request]
    BY DEF CacheShape
  <1>u. Unflushed' => Announcing'
    BY <1>0, RequestCases DEF Unflushed, Announcing
  <1>1. CASE Begin(p)
    <2>1. /\ req'[p].step \in {"deleteBucket", "dropLocal"}
      BY <1>0, <1>1 DEF Begin, DeleteTopicConfig, UpsertTopicConfig, Change
    <2>2. Unflushed'
      BY <2>1 DEF Unflushed
    <2> QED
      BY <1>u, <2>2 DEF StaleInv, StaleOnlyAfterRace
  <1>2. CASE Finalize(p)
    <2>1. req[p] \in Active /\ req[p] # Idle
      BY <1>0, <1>2, RequestCases
      DEF Finalize, DeleteBucket, DropLocal, DropRedis, Publish, At
    <2>2. CASE DeleteBucket(p)
      <3>1. CASE req' = Goto(p, "dropLocal") /\ UNCHANGED <<l1, l2>>
        <4>1. req'[p].step = "dropLocal" /\ \A q \in Readers : req'[q] = req[q]
          BY <1>0, <2>1, <3>1, CacheConstants DEF Goto, Active, Requests
        <4>2. Unflushed'
          BY <4>1 DEF Unflushed
        <4> QED
          BY <1>u, <4>2 DEF StaleInv, StaleOnlyAfterRace
      <3>2. CASE /\ req' = Overtaken(Finish(p), Instances)
                 /\ l1' = DoubtAt(Instances)
                 /\ l2' = Doubt(l2)
        <4>1. \A i \in Instances : ~Wrong(l1'[i], row')
          BY <1>0, <3>2, DoubtAtShape, DoubtShape
        <4>2. ~Wrong(l2', row')
          BY <1>0, <3>2, DoubtShape
        <4>3. ASSUME NEW q \in Readers, req'[q] # Idle
              PROVE  ~Wrong(req'[q].got, row')
          <5>1. q \in Requests /\ q # p
            BY CacheConstants DEF Requests
          <5>2. Finish(p) \in [Requests -> Request] /\ Finish(p)[q] = req[q]
            BY <5>1, FinishShape
          <5>3. req[q] # Idle
            BY <3>2, <4>3, <5>1, <5>2, OvertakenShape
          <5>4. req[q] \in Active /\ req[q].at \in Instances /\ req[q].got \in Cached
            BY <1>0, <5>1, <5>3, RequestCases DEF Active
          <5>5. req'[q].got = Doubt(req[q].got)
            BY <3>2, <5>1, <5>2, <5>4, OvertakenShape
          <5> QED
            BY <5>4, <5>5, DoubtShape
        <4> QED
          BY <4>1, <4>2, <4>3 DEF StaleInv, StaleOnlyAfterRace, Outdated, Wrong
      <3> QED
        BY <2>2, <3>1, <3>2 DEF DeleteBucket
    <2>3. CASE DropLocal(p)
      <3>1. req'[p].step = "dropRedis"
        BY <1>0, <2>1, <2>3 DEF DropLocal, Goto, Active
      <3>2. Unflushed'
        BY <3>1 DEF Unflushed
      <3> QED
        BY <1>u, <3>2 DEF StaleInv, StaleOnlyAfterRace
    <2>4. CASE DropRedis(p)
      <3>1. req' = Overtaken(Goto(p, "publish"), Instances) /\ l2' \in {Miss, Doubt(l2)}
        BY <2>4 DEF DropRedis
      <3>p. "publish" \in ReadSteps \cup ChangeSteps
        BY DEF ChangeSteps
      <3>g. /\ Goto(p, "publish") \in [Requests -> Request]
            /\ Goto(p, "publish")[p] \in Active
            /\ \A q \in Requests \ {p} : Goto(p, "publish")[q] = req[q]
        BY <2>1, <3>p, GotoShape
      <3>2. ~Wrong(l2', row')
        BY <1>0, <3>1, DoubtShape DEF Wrong
      <3>3. ASSUME NEW q \in Readers, req'[q] # Idle
            PROVE  ~Wrong(req'[q].got, row')
        <4>1. q \in Requests /\ q # p
          BY CacheConstants DEF Requests
        <4>2. Goto(p, "publish")[q] = req[q]
          BY <3>g, <4>1
        <4>3. req[q] # Idle
          BY <3>1, <3>3, <3>g, <4>1, <4>2, OvertakenShape
        <4>4. req[q] \in Active /\ req[q].at \in Instances /\ req[q].got \in Cached
          BY <1>0, <4>1, <4>3, RequestCases DEF Active
        <4>5. req'[q].got = Doubt(req[q].got)
          BY <3>1, <3>g, <4>1, <4>2, <4>4, OvertakenShape
        <4> QED
          BY <4>4, <4>5, DoubtShape
      <3>4. req'[p] # Idle
        <4>1. Goto(p, "publish")[p] # Idle
          BY <3>g, RequestCases
        <4> QED
          BY <3>1, <3>g, <4>1, OvertakenShape
      <3>5. Announcing'
        BY <3>4 DEF Announcing
      <3> QED
        BY <3>2, <3>3, <3>5 DEF StaleInv, StaleOnlyAfterRace
    <2>5. CASE Publish(p)
      <3> PICK reached \in {listening, {}} :
            /\ inbox' = [i \in Instances |-> IF i \in reached THEN inbox[i] + 1 ELSE inbox[i]]
            /\ l1' = DoubtAt(Instances \ reached)
            /\ req' = Overtaken(Finish(p), Instances \ reached)
        BY <2>5 DEF Publish
      <3>1. UNCHANGED <<row, l2>> /\ req[p].step = "publish"
        BY <2>5 DEF Publish, At
      <3>2. Finish(p) \in [Requests -> Request] /\ \A q \in Requests \ {p} : Finish(p)[q] = req[q]
        BY FinishShape
      <3>3. \A q \in Requests \ {p} : req'[q].step = req[q].step
        BY <3>2, OvertakenShape
      <3>4. Unflushed => Unflushed'
        BY <3>1, <3>3 DEF Unflushed, Requests
      <3>5. ASSUME NEW i \in Instances, Wrong(l1'[i], row')
            PROVE  inbox'[i] > 0
        <4>1. i \in reached
          BY <1>0, <3>5, DoubtAtShape, DoubtShape
        <4> QED
          BY <1>0, <4>1
      <3>6. ASSUME NEW q \in Readers, req'[q] # Idle, Wrong(req'[q].got, row')
            PROVE  Unflushed
        <4>1. q \in Requests /\ q # p
          BY CacheConstants DEF Requests
        <4>2. Finish(p)[q] = req[q]
          BY <3>2, <4>1
        <4>3. req[q] # Idle
          BY <3>2, <3>6, <4>1, <4>2, OvertakenShape
        <4>4. req[q] \in Active /\ req[q].got \in Cached
          BY <1>0, <4>1, <4>3, RequestCases DEF Active
        <4>5. req'[q].got \in {req[q].got, Doubt(req[q].got)}
          BY <3>2, <4>1, <4>2, <4>4, OvertakenShape
        <4>6. Wrong(req[q].got, row)
          BY <3>1, <3>6, <4>4, <4>5, DoubtShape
        <4> QED
          BY <4>3, <4>6 DEF StaleInv
      <3>7. Wrong(l2', row') => Unflushed
        BY <3>1 DEF StaleInv
      <3> QED
        BY <3>4, <3>5, <3>6, <3>7 DEF StaleInv, StaleOnlyAfterRace, Outdated, Wrong
    <2> QED
      BY <1>2, <2>2, <2>3, <2>4, <2>5 DEF Finalize
  <1> QED
    BY <1>1, <1>2

\* A listener drops what the invalidation was for; an invalidation lost with its
\* connection, or never sent by a process that ended, leaves doubt behind.
LEMMA ListenerKeepsStale ==
    ASSUME CacheShape, CacheShape', StaleInv, NEW i \in Instances,
           HandleInvalidation(i) \/ LoseConnection(i) \/ Reconnect(i) \/ Restart(i)
    PROVE  StaleInv'
  <1>0. /\ req \in [Requests -> Request] /\ l1 \in [Instances -> Cached] /\ l2 \in Cached
        /\ inbox \in [Instances -> Nat]
        /\ req' \in [Requests -> Request]
    BY DEF CacheShape
  <1>1. UNCHANGED row
    BY DEF HandleInvalidation, LoseConnection, Reconnect, Restart
  <1>2. ASSUME NEW f \in [Requests -> Request], NEW S,
               \A q \in Requests : f[q] = req[q] \/ f[q] = Idle,
               \A q \in Admins : f[q] = req[q],
               req' = Overtaken(f, S)
        PROVE  /\ Unflushed' = Unflushed /\ Announcing' = Announcing
               /\ \A q \in Readers : req'[q] # Idle /\ Wrong(req'[q].got, row) => Unflushed
    <2>1. \A q \in Requests : req'[q].step = f[q].step /\ (req'[q] = Idle <=> f[q] = Idle)
      BY <1>2, OvertakenShape
    <2>2. Unflushed' = Unflushed
      BY <1>2, <2>1 DEF Unflushed, Requests
    <2>3. Announcing' = Announcing
      BY <1>2, <2>1 DEF Announcing, Requests
    <2>4. ASSUME NEW q \in Readers, req'[q] # Idle, Wrong(req'[q].got, row)
          PROVE  Unflushed
      <3>1. q \in Requests
        BY DEF Requests
      <3>2. req[q] # Idle /\ f[q] = req[q]
        BY <1>2, <2>1, <2>4, <3>1
      <3>3. req[q] \in Active /\ req[q].got \in Cached
        BY <1>0, <3>1, <3>2, RequestCases DEF Active
      <3>4. req'[q].got \in {req[q].got, Doubt(req[q].got)}
        BY <1>2, <3>1, <3>2, <3>3, OvertakenShape
      <3>5. Wrong(req[q].got, row)
        BY <2>4, <3>3, <3>4, DoubtShape
      <3> QED
        BY <3>2, <3>5 DEF StaleInv
    <2> QED
      BY <2>2, <2>3, <2>4
  <1>3. ASSUME UNCHANGED req
        PROVE  /\ Unflushed' = Unflushed /\ Announcing' = Announcing
               /\ \A q \in Readers : req'[q] # Idle /\ Wrong(req'[q].got, row) => Unflushed
    BY <1>3 DEF Unflushed, Announcing, StaleInv
  <1>4. \A q \in Requests : req[q] = req[q] \/ req[q] = Idle
    OBVIOUS
  <1>5. \A j \in Instances : Wrong(l1[j], row) => Announcing \/ inbox[j] > 0
    BY DEF StaleInv, StaleOnlyAfterRace, Outdated, Wrong
  <1>6. CASE HandleInvalidation(i)
    <2>1. /\ Unflushed' = Unflushed /\ Announcing' = Announcing
          /\ \A q \in Readers : req'[q] # Idle /\ Wrong(req'[q].got, row) => Unflushed
      <3>1. req' = Overtaken(req, {i})
        BY <1>6 DEF HandleInvalidation
      <3> QED
        BY <1>0, <1>2, <3>1
    <2>2. \A j \in Instances : Wrong(l1'[j], row) => l1'[j] = l1[j] /\ inbox'[j] = inbox[j]
      BY <1>0, <1>6 DEF HandleInvalidation, Wrong
    <2>3. l2' = l2
      BY <1>6 DEF HandleInvalidation
    <2> QED
      BY <1>1, <1>5, <2>1, <2>2, <2>3 DEF StaleInv, StaleOnlyAfterRace, Outdated, Wrong
  <1>7. CASE LoseConnection(i)
    <2> PICK left \in 0..inbox[i] :
          /\ inbox' = [inbox EXCEPT ![i] = left]
          /\ IF left < inbox[i]
             THEN l1' = DoubtAt({i}) /\ req' = Overtaken(req, {i})
             ELSE UNCHANGED <<l1, req>>
      BY <1>7 DEF LoseConnection
    <2>1. /\ Unflushed' = Unflushed /\ Announcing' = Announcing
          /\ \A q \in Readers : req'[q] # Idle /\ Wrong(req'[q].got, row) => Unflushed
      BY <1>0, <1>2, <1>3
    <2>2. ASSUME NEW j \in Instances, Wrong(l1'[j], row)
          PROVE  l1'[j] = l1[j] /\ inbox'[j] = inbox[j]
      <3>1. CASE left < inbox[i]
        <4>1. j # i
          BY <1>0, <2>2, <3>1, DoubtAtShape, DoubtShape
        <4> QED
          BY <1>0, <3>1, <4>1, DoubtAtShape
      <3>2. CASE ~(left < inbox[i])
        <4>1. left = inbox[i] /\ l1' = l1
          BY <1>0, <3>2
        <4> QED
          BY <1>0, <4>1
      <3> QED
        BY <3>1, <3>2
    <2>3. l2' = l2
      BY <1>7 DEF LoseConnection
    <2> QED
      BY <1>1, <1>5, <2>1, <2>2, <2>3 DEF StaleInv, StaleOnlyAfterRace, Outdated, Wrong
  <1>8. CASE Reconnect(i)
    BY <1>8 DEF Reconnect, StaleInv, StaleOnlyAfterRace, Outdated, Unflushed, Announcing
  <1>9. CASE Restart(i)
    <2> DEFINE here == {p \in DOMAIN req : req[p] # Idle /\ req[p].at = i}
               cut  == \E p \in here : req[p].step \in ChangeSteps
               missed == IF cut THEN Instances ELSE {i}
               left == [p \in DOMAIN req |-> IF p \in here THEN Idle ELSE req[p]]
    <2>1. /\ l1' = [DoubtAt(missed) EXCEPT ![i] = Miss]
          /\ l2' = IF cut THEN Doubt(l2) ELSE l2
          /\ req' = Overtaken(left, missed)
          /\ inbox' = [inbox EXCEPT ![i] = 0]
      BY <1>9 DEF Restart
    <2>2. left \in [Requests -> Request] /\ \A q \in Requests : left[q] = req[q] \/ left[q] = Idle
      BY <1>0, RequestCases
    <2>3. CASE cut
      <3>1. missed = Instances
        BY <2>3
      <3> HIDE DEF cut, missed, left
      <3>2. \A j \in Instances : ~Wrong(l1'[j], row')
        <4>1. ~Wrong(Miss, row')
          BY DEF Wrong
        <4>2. DoubtAt(Instances) \in [Instances -> Cached]
          BY <1>0, DoubtAtShape
        <4>3. \A j \in Instances : l1'[j] = Miss \/ l1'[j] = Doubt(l1[j])
          BY <1>0, <2>1, <3>1, <4>2, DoubtAtShape
        <4> QED
          BY <1>0, <4>1, <4>3, DoubtShape
      <3>3. ~Wrong(l2', row')
        BY <1>0, <2>1, <2>3, DoubtShape
      <3>4. ASSUME NEW q \in Readers, req'[q] # Idle
            PROVE  ~Wrong(req'[q].got, row')
        <4>1. q \in Requests
          BY DEF Requests
        <4>2. left[q] # Idle /\ left[q] = req[q]
          BY <2>1, <2>2, <3>4, <4>1, OvertakenShape
        <4>3. left[q] \in Active /\ left[q].at \in Instances /\ left[q].got \in Cached
          BY <2>2, <4>1, <4>2, RequestCases DEF Active
        <4>4. req'[q].got = Doubt(left[q].got)
          BY <2>1, <2>2, <3>1, <4>1, <4>3, OvertakenShape
        <4> QED
          BY <4>3, <4>4, DoubtShape
      <3> QED
        BY <3>2, <3>3, <3>4 DEF StaleInv, StaleOnlyAfterRace, Outdated, Wrong
    <2>4. CASE ~cut
      <3>1. missed = {i} /\ l2' = l2
        BY <2>1, <2>4
      <3>2. ASSUME NEW q \in Admins
            PROVE  left[q] = req[q]
        <4>1. q \in Requests /\ (req[q] # Idle => req[q].step \in ChangeSteps)
          BY DEF Requests, CacheShape
        <4>2. q \notin here
          BY <1>0, <2>4, <4>1
        <4> QED
          BY <1>0, <4>1, <4>2
      <3> HIDE DEF cut, missed, left
      <3>3. /\ Unflushed' = Unflushed /\ Announcing' = Announcing
            /\ \A q \in Readers : req'[q] # Idle /\ Wrong(req'[q].got, row) => Unflushed
        BY <1>2, <2>1, <2>2, <3>2
      <3>4. \A j \in Instances : Wrong(l1'[j], row) => l1'[j] = l1[j] /\ inbox'[j] = inbox[j]
        BY <1>0, <2>1, <3>1, DoubtAtShape, DoubtShape DEF Wrong
      <3> QED
        BY <1>1, <1>5, <3>1, <3>3, <3>4 DEF StaleInv, StaleOnlyAfterRace, Outdated, Wrong
    <2> QED
      BY <2>3, <2>4
  <1> QED
    BY <1>6, <1>7, <1>8, <1>9

\* StaleOnlyAfterRace, for any number of instances, reads and changes: the order
\* row, own entry, Redis entry, broadcast in UpsertTopicConfig and
\* DeleteTopicConfig leaves no outdated entry of GetTopicConfig's cache behind
\* that no invalidation is on its way to, but for the race and the lost
\* invalidations the flag "doubtful" records.
THEOREM StaleOnlyAfterRaceHolds == Spec => []StaleOnlyAfterRace
  <1>1. Init => StaleInv
    <2> SUFFICES ASSUME Init PROVE StaleInv
      OBVIOUS
    <2>1. \A p \in Readers : req[p] = Idle
      BY DEF Init
    <2>2. l2 = Miss /\ \A i \in Instances : l1[i] = Miss
      BY DEF Init
    <2> QED
      BY <2>1, <2>2 DEF StaleInv, StaleOnlyAfterRace, Outdated, Wrong
  <1>2. CacheShape /\ CacheShape' /\ StaleInv /\ [Next]_vars => StaleInv'
    <2> SUFFICES ASSUME CacheShape, CacheShape', StaleInv, [Next]_vars PROVE StaleInv'
      OBVIOUS
    <2>1. CASE RedisExpires
      BY <2>1
      DEF RedisExpires, StaleInv, StaleOnlyAfterRace, Outdated, Wrong, Unflushed, Announcing
    <2>2. CASE UNCHANGED vars
      BY <2>2 DEF vars, StaleInv, StaleOnlyAfterRace, Outdated, Wrong, Unflushed, Announcing
    <2> QED
      BY <2>1, <2>2, ReadKeepsStale, ChangeKeepsStale, ListenerKeepsStale DEF Next
  <1>3. StaleInv => StaleOnlyAfterRace
    BY DEF StaleInv
  <1> QED
    BY <1>1, <1>2, <1>3, ShapeInductive, PTL DEF Spec

-----------------------------------------------------------------------------
(* What reads answer with *)

\* An entry, or none, that says what the row has once been.
WasHeld(e) == e = Miss \/ e.cfg \in held

\* A step that writes no row keeps ReadsWereHeld if what it caches and fetches
\* was held.
LEMMA CopiesWereHeld ==
    ASSUME CacheShape, ReadsWereHeld, UNCHANGED <<row, held>>,
           \A i \in Instances : l1'[i] = Doubt(l1[i]) \/ WasHeld(l1'[i]),
           l2' = Doubt(l2) \/ WasHeld(l2'),
           \A p \in Readers : \/ req'[p] = Idle
                              \/ WasHeld(req'[p].got)
                              \/ req[p] # Idle /\ req'[p].got = Doubt(req[p].got)
    PROVE  ReadsWereHeld'
  <1>0. l1 \in [Instances -> Cached] /\ l2 \in Cached /\ req \in [Requests -> Request]
    BY DEF CacheShape
  <1>1. ASSUME NEW e \in Cached, WasHeld(e)
        PROVE  WasHeld(Doubt(e))
    BY <1>1, DoubtShape DEF WasHeld
  <1>2. \A i \in Instances : WasHeld(l1'[i])
    <2>1. \A i \in Instances : WasHeld(l1[i])
      BY DEF ReadsWereHeld, WasHeld
    <2> QED
      BY <1>0, <1>1, <2>1
  <1>3. WasHeld(l2')
    <2>1. WasHeld(l2)
      BY DEF ReadsWereHeld, WasHeld
    <2> QED
      BY <1>0, <1>1, <2>1
  <1>4. \A p \in Readers : req'[p] = Idle \/ WasHeld(req'[p].got)
    <2> SUFFICES ASSUME NEW p \in Readers, req[p] # Idle, req'[p].got = Doubt(req[p].got)
                 PROVE  WasHeld(req'[p].got)
      OBVIOUS
    <2>1. req[p].got \in Cached
      BY <1>0, RequestCases DEF Requests, Active
    <2>2. WasHeld(req[p].got)
      BY DEF ReadsWereHeld, WasHeld
    <2> QED
      BY <1>1, <2>1, <2>2
  <1> QED
    BY <1>2, <1>3, <1>4 DEF ReadsWereHeld, WasHeld

\* Every read of GetTopicConfig answers with a value the row has had, whatever
\* the caches, the invalidations and the failures did: the assumption MessageQueue
\* makes about the configuration of a request.
THEOREM ReadsWereHeldHolds == Spec => []ReadsWereHeld
  <1>1. Init => ReadsWereHeld
    BY DEF Init, ReadsWereHeld
  <1>2. CacheShape /\ ReadsWereHeld /\ [Next]_vars => ReadsWereHeld'
    <2> SUFFICES ASSUME CacheShape, ReadsWereHeld, [Next]_vars PROVE ReadsWereHeld'
      OBVIOUS
    <2>0. l1 \in [Instances -> Cached] /\ l2 \in Cached /\ req \in [Requests -> Request]
      BY DEF CacheShape
    <2>a. /\ WasHeld(Miss) /\ WasHeld(l2) /\ WasHeld([cfg |-> row, doubtful |-> FALSE])
          /\ \A i \in Instances : WasHeld(l1[i])
          /\ \A p \in Readers : req[p] = Idle \/ WasHeld(req[p].got)
      BY DEF ReadsWereHeld, WasHeld
    <2>b. ASSUME NEW f \in [Requests -> Request], NEW S, NEW p \in Readers,
                 f[p] = req[p] \/ f[p] = Idle
          PROVE  \/ Overtaken(f, S)[p] = Idle
                 \/ WasHeld(Overtaken(f, S)[p].got)
                 \/ req[p] # Idle /\ Overtaken(f, S)[p].got = Doubt(req[p].got)
      <3>1. p \in Requests
        BY DEF Requests
      <3>2. CASE f[p] = Idle
        BY <3>1, <3>2, OvertakenShape
      <3>3. CASE f[p] # Idle
        <4>1. f[p] \in Active /\ f[p] = req[p] /\ req[p] # Idle
          BY <2>b, <3>1, <3>3, RequestCases
        <4>2. Overtaken(f, S)[p].got \in {f[p].got, Doubt(f[p].got)}
          BY <3>1, <4>1, OvertakenShape
        <4> QED
          BY <2>a, <4>1, <4>2
      <3> QED
        BY <3>2, <3>3
    <2>c. ASSUME NEW S, l1' = DoubtAt(S)
          PROVE  \A i \in Instances : l1'[i] = Doubt(l1[i]) \/ WasHeld(l1'[i])
      BY <2>0, <2>a, <2>c, DoubtAtShape
    <2>1. ASSUME NEW p \in Readers, Read(p)
          PROVE  ReadsWereHeld'
      <3>1. UNCHANGED <<row, held>>
        BY <2>1 DEF Read, LoadLocal, GetRedis, SelectRow, StoreLocal, SetRedis
      <3>2. p \in Requests /\ \A q \in Readers \ {p} : req'[q] = req[q]
        BY <2>0, <2>1
        DEF Read, LoadLocal, GetRedis, SelectRow, StoreLocal, SetRedis, Goto, Finish, Requests
      <3>3. /\ \A i \in Instances : WasHeld(l1'[i])
            /\ WasHeld(l2')
            /\ req'[p] = Idle \/ WasHeld(req'[p].got)
        <4> HIDE DEF WasHeld
        <4>1. CASE \E i \in Instances : LoadLocal(p, i)
          BY <2>0, <2>a, <3>2, <4>1 DEF LoadLocal
        <4>2. CASE GetRedis(p)
          <5>1. req[p] \in Active /\ req[p] # Idle
            BY <2>0, <3>2, <4>2, RequestCases DEF GetRedis, At
          <5>2. req'[p].got = l2 \/ req'[p].got = req[p].got
            BY <2>0, <3>2, <4>2, <5>1 DEF GetRedis, Goto, Active
          <5>3. l1' = l1 /\ l2' \in {l2, Miss}
            BY <4>2 DEF GetRedis
          <5> QED
            BY <2>a, <5>1, <5>2, <5>3
        <4>3. CASE SelectRow(p)
          <5>1. req[p] \in Active
            BY <2>0, <3>2, <4>3, RequestCases DEF SelectRow, At
          <5>2. req'[p] = Idle \/ req'[p].got = [cfg |-> row, doubtful |-> FALSE]
            BY <2>0, <3>2, <4>3, <5>1 DEF SelectRow, Finish, Active
          <5>3. UNCHANGED <<l1, l2>>
            BY <4>3 DEF SelectRow
          <5> QED
            BY <2>a, <5>2, <5>3
        <4>4. CASE StoreLocal(p)
          <5>1. req[p] \in Active /\ req[p] # Idle
            BY <2>0, <3>2, <4>4, RequestCases DEF StoreLocal, At
          <5>2. req'[p] = Idle \/ req'[p].got = req[p].got
            BY <2>0, <3>2, <4>4, <5>1 DEF StoreLocal, Finish, Goto, Active
          <5>3. l2' = l2 /\ \A i \in Instances : l1'[i] = l1[i] \/ l1'[i] = req[p].got
            BY <2>0, <4>4 DEF StoreLocal
          <5> QED
            BY <2>a, <5>1, <5>2, <5>3
        <4>5. CASE SetRedis(p)
          <5>1. req[p] # Idle
            BY <4>5, RequestCases DEF SetRedis, At
          <5>2. l1' = l1 /\ l2' \in {l2, req[p].got} /\ req'[p] = Idle
            BY <2>0, <3>2, <4>5 DEF SetRedis, Finish
          <5> QED
            BY <2>a, <5>1, <5>2
        <4> QED
          BY <2>1, <4>1, <4>2, <4>3, <4>4, <4>5 DEF Read
      <3> QED
        BY <2>a, <3>1, <3>2, <3>3, CopiesWereHeld
    <2>2. ASSUME NEW p \in Admins, Begin(p)
          PROVE  ReadsWereHeld'
      <3>1. /\ row' \in held' /\ held \subseteq held' /\ UNCHANGED <<l1, l2>>
            /\ \A q \in Readers : req'[q] = req[q]
        BY <2>0, <2>2, CacheConstants
        DEF Begin, DeleteTopicConfig, UpsertTopicConfig, Change, Requests
      <3> QED
        BY <3>1 DEF ReadsWereHeld
    <2>3. ASSUME NEW p \in Admins, Finalize(p)
          PROVE  ReadsWereHeld'
      <3>1. UNCHANGED <<row, held>>
        BY <2>3 DEF Finalize, DeleteBucket, DropLocal, DropRedis, Publish
      <3>2. p \in Requests /\ p \notin Readers
        BY CacheConstants DEF Requests
      <3>3. req[p] \in Active
        BY <2>0, <2>3, <3>2, RequestCases
        DEF Finalize, DeleteBucket, DropLocal, DropRedis, Publish, At
      <3>4. ASSUME NEW step \in {"dropLocal", "dropRedis", "publish"}
            PROVE  /\ Goto(p, step) \in [Requests -> Request]
                   /\ \A q \in Readers : Goto(p, step)[q] = req[q]
        <4>1. step \in ReadSteps \cup ChangeSteps
          BY DEF ChangeSteps
        <4>2. /\ Goto(p, step) \in [Requests -> Request]
              /\ \A q \in Requests \ {p} : Goto(p, step)[q] = req[q]
          BY <3>2, <3>3, <4>1, GotoShape
        <4> QED
          BY <3>2, <4>2 DEF Requests
      <3>5. Finish(p) \in [Requests -> Request] /\ \A q \in Readers : Finish(p)[q] = req[q]
        BY <3>2, FinishShape DEF Requests
      <3>6. CASE DeleteBucket(p)
        <4>1. CASE req' = Goto(p, "dropLocal") /\ UNCHANGED <<l1, l2>>
          BY <2>a, <3>1, <3>4, <4>1, CopiesWereHeld
        <4>2. CASE /\ req' = Overtaken(Finish(p), Instances)
                   /\ l1' = DoubtAt(Instances)
                   /\ l2' = Doubt(l2)
          BY <2>b, <2>c, <3>1, <3>5, <4>2, CopiesWereHeld
        <4> QED
          BY <3>6, <4>1, <4>2 DEF DeleteBucket
      <3>7. CASE DropLocal(p)
        <4>1. req' = Goto(p, "dropRedis") /\ l2' = l2
          BY <3>7 DEF DropLocal
        <4>2. \A i \in Instances : l1'[i] \in {l1[i], Miss}
          BY <2>0, <3>7 DEF DropLocal
        <4> QED
          BY <2>a, <3>1, <3>4, <4>1, <4>2, CopiesWereHeld
      <3>8. CASE DropRedis(p)
        <4>1. /\ req' = Overtaken(Goto(p, "publish"), Instances)
              /\ l1' = l1 /\ l2' \in {Miss, Doubt(l2)}
          BY <3>8 DEF DropRedis
        <4> QED
          BY <2>a, <2>b, <3>1, <3>4, <4>1, CopiesWereHeld
      <3>9. CASE Publish(p)
        <4> PICK reached \in {listening, {}} :
              /\ l1' = DoubtAt(Instances \ reached)
              /\ req' = Overtaken(Finish(p), Instances \ reached)
          BY <3>9 DEF Publish
        <4>1. l2' = l2
          BY <3>9 DEF Publish
        <4> QED
          BY <2>a, <2>b, <2>c, <3>1, <3>5, <4>1, CopiesWereHeld
      <3> QED
        BY <2>3, <3>6, <3>7, <3>8, <3>9 DEF Finalize
    <2>4. ASSUME NEW i \in Instances,
                 HandleInvalidation(i) \/ LoseConnection(i) \/ Reconnect(i) \/ Restart(i)
          PROVE  ReadsWereHeld'
      <3>1. UNCHANGED <<row, held>>
        BY <2>4 DEF HandleInvalidation, LoseConnection, Reconnect, Restart
      <3>2. CASE HandleInvalidation(i)
        <4>1. req' = Overtaken(req, {i}) /\ l2' = l2
          BY <3>2 DEF HandleInvalidation
        <4>2. \A j \in Instances : l1'[j] \in {l1[j], Miss}
          BY <2>0, <3>2 DEF HandleInvalidation
        <4> QED
          BY <2>0, <2>a, <2>b, <3>1, <4>1, <4>2, CopiesWereHeld
      <3>3. CASE LoseConnection(i)
        <4>1. /\ l2' = l2
              /\ \/ l1' = DoubtAt({i}) /\ req' = Overtaken(req, {i})
                 \/ UNCHANGED <<l1, req>>
          BY <3>3 DEF LoseConnection
        <4>2. CASE UNCHANGED <<l1, req>>
          BY <2>a, <3>1, <4>1, <4>2, CopiesWereHeld
        <4>3. CASE l1' = DoubtAt({i}) /\ req' = Overtaken(req, {i})
          BY <2>0, <2>a, <2>b, <2>c, <3>1, <4>1, <4>3, CopiesWereHeld
        <4> QED
          BY <4>1, <4>2, <4>3
      <3>4. CASE Reconnect(i)
        BY <3>4 DEF Reconnect, ReadsWereHeld
      <3>5. CASE Restart(i)
        <4> DEFINE here == {p \in DOMAIN req : req[p] # Idle /\ req[p].at = i}
                   cut  == \E p \in here : req[p].step \in ChangeSteps
                   missed == IF cut THEN Instances ELSE {i}
                   left == [p \in DOMAIN req |-> IF p \in here THEN Idle ELSE req[p]]
        <4>1. /\ l1' = [DoubtAt(missed) EXCEPT ![i] = Miss]
              /\ l2' \in {l2, Doubt(l2)}
              /\ req' = Overtaken(left, missed)
          BY <3>5 DEF Restart
        <4>2. left \in [Requests -> Request] /\ \A p \in Readers : left[p] = req[p] \/ left[p] = Idle
          BY <2>0, RequestCases DEF Requests
        <4> HIDE DEF missed, left
        <4>3. \A j \in Instances : l1'[j] \in {l1[j], Doubt(l1[j]), Miss}
          BY <2>0, <4>1, DoubtAtShape
        <4> QED
          BY <2>a, <2>b, <3>1, <4>1, <4>2, <4>3, CopiesWereHeld
      <3> QED
        BY <2>4, <3>2, <3>3, <3>4, <3>5
    <2>5. CASE RedisExpires
      BY <2>5 DEF RedisExpires, ReadsWereHeld
    <2>6. CASE UNCHANGED vars
      BY <2>6 DEF vars, ReadsWereHeld
    <2> QED
      BY <2>1, <2>2, <2>3, <2>4, <2>5, <2>6 DEF Next
  <1> QED
    BY <1>1, <1>2, ShapeInductive, PTL DEF Spec

-----------------------------------------------------------------------------
(* The schema *)

\* The requests, given the schemas issued so far.
Fetching(I) == [step : FetchSteps, at : Instances, ts : I \cup {Null}]
Judging(I) ==
    [step : JudgeSteps, at : Instances, ts : I, used : Texts, payload : Payloads \cup {Null}]
Registering == [step : RegisterSteps, text : Texts \cup {Null}]

SharedVersion(I, version) ==
    \E a, b \in I : a.version = version /\ b.version = version /\ a.text # b.text

\* A request that has a compiled schema has the one of the text it fetched, or
\* the cached one of the same version.
Sound(q, I) ==
    \/ q = Idle
    \/ q \in Fetching(I) /\ (q.step = "resolve" => q.ts \in I)
    \/ /\ q \in Judging(I)
       /\ q.step = "storeCompiled" => q.used = q.ts.text
       /\ q.step = "check" => q.used = q.ts.text \/ SharedVersion(I, q.ts.version)
    \/ q \in Registering

\* The inductive strengthening of JudgedByFetched: whatever is cached, shared or
\* fetched has been the row.
SchemaInv ==
    /\ issued \subseteq [text : Texts, version : Nat]
    /\ schema \in issued \cup {Null}
    /\ compiled \in [Instances -> issued \cup {Miss}]
    /\ shared \in [ts : issued \cup {Null}] \cup {Miss}
    /\ DOMAIN sreq = Requests /\ sreq = [p \in Requests |-> sreq[p]]
    /\ \A p \in Requests : Sound(sreq[p], issued)

\* A schema that is registered takes nothing back from the requests under way.
LEMMA SoundLater ==
    ASSUME NEW I, NEW J, I \subseteq J, NEW q, Sound(q, I)
    PROVE  Sound(q, J)
  <1>1. CASE q \in Fetching(I) /\ (q.step = "resolve" => q.ts \in I)
    BY <1>1 DEF Sound, Fetching
  <1>2. CASE /\ q \in Judging(I)
             /\ q.step = "storeCompiled" => q.used = q.ts.text
             /\ q.step = "check" => q.used = q.ts.text \/ SharedVersion(I, q.ts.version)
    <2>1. q \in Judging(J)
      BY <1>2 DEF Judging
    <2>2. SharedVersion(I, q.ts.version) => SharedVersion(J, q.ts.version)
      BY DEF SharedVersion
    <2> QED
      BY <1>2, <2>1, <2>2 DEF Sound
  <1> QED
    BY <1>1, <1>2 DEF Sound

\* The kind of a request follows from its step.
LEMMA SoundCases ==
    ASSUME NEW I, NEW q, Sound(q, I)
    PROVE  /\ q.step \in FetchSteps => q \in Fetching(I)
           /\ q.step \in JudgeSteps => q \in Judging(I)
           /\ q.step \in RegisterSteps => q \in Registering
  <1>1. q = Idle => q.step = "idle"
    BY DEF Idle
  <1>2. q \in Fetching(I) => q.step \in FetchSteps
    BY DEF Fetching
  <1>3. q \in Judging(I) => q.step \in JudgeSteps
    BY DEF Judging
  <1>4. q \in Registering => q.step \in RegisterSteps
    BY DEF Registering
  <1> QED
    BY <1>1, <1>2, <1>3, <1>4 DEF Sound, FetchSteps, JudgeSteps, RegisterSteps

\* A step of one request keeps SchemaInv if that request stays sound.
LEMMA OneRequestMoves ==
    ASSUME SchemaInv, NEW p \in Requests, NEW q, sreq' = [sreq EXCEPT ![p] = q],
           Sound(q, issued'), issued \subseteq issued',
           issued' \subseteq [text : Texts, version : Nat],
           schema' \in issued' \cup {Null},
           compiled' \in [Instances -> issued' \cup {Miss}],
           shared' \in [ts : issued' \cup {Null}] \cup {Miss}
    PROVE  SchemaInv'
  <1>1. DOMAIN sreq = Requests /\ sreq = [r \in Requests |-> sreq[r]]
    BY DEF SchemaInv
  <1>2. DOMAIN sreq' = Requests /\ sreq' = [r \in Requests |-> sreq'[r]]
    BY <1>1
  <1>3. sreq'[p] = q /\ \A r \in Requests \ {p} : sreq'[r] = sreq[r]
    BY <1>1
  <1>4. \A r \in Requests : Sound(sreq'[r], issued')
    BY <1>3, SoundLater DEF SchemaInv
  <1> QED
    BY <1>2, <1>4 DEF SchemaInv

\* The caches keep what they have, lose it, or get what a request fetched.
LEMMA CachesKept ==
    ASSUME SchemaInv, UNCHANGED <<schema, issued>>,
           \/ UNCHANGED compiled
           \/ \E i \in Instances, ts \in issued \cup {Miss} : compiled' = [compiled EXCEPT ![i] = ts],
           shared' \in {shared, Miss} \/ \E ts \in issued \cup {Null} : shared' = [ts |-> ts]
    PROVE  /\ issued \subseteq issued'
           /\ issued' \subseteq [text : Texts, version : Nat]
           /\ schema' \in issued' \cup {Null}
           /\ compiled' \in [Instances -> issued' \cup {Miss}]
           /\ shared' \in [ts : issued' \cup {Null}] \cup {Miss}
  <1>1. compiled' \in [Instances -> issued' \cup {Miss}]
    BY DEF SchemaInv
  <1>2. shared' \in [ts : issued' \cup {Null}] \cup {Miss}
    BY DEF SchemaInv
  <1> QED
    BY <1>1, <1>2 DEF SchemaInv

\* Registering and deleting a schema keeps SchemaInv.
LEMMA RegisterKeepsSchema ==
    ASSUME SchemaInv, NEW p \in Admins,
           \/ \E i \in Instances :
                 DeleteTopicSchema(p, i) \/ \E text \in Texts : UpsertTopicSchema(p, i, text)
           \/ Register(p)
    PROVE  SchemaInv'
  <1> p \in Requests
    BY DEF Requests
  <1>0. DOMAIN sreq = Requests /\ Sound(sreq[p], issued)
    BY DEF SchemaInv
  <1>i. Sound(Idle, issued')
    BY DEF Sound
  <1>1. ASSUME NEW i \in Instances, NEW text \in Texts \cup {Null}, StartRegistering(p, i, text)
        PROVE  SchemaInv'
    <2>1. [step |-> "write", text |-> text] \in Registering
      BY DEF Registering, RegisterSteps
    <2>2. Sound([step |-> "write", text |-> text], issued')
      BY <2>1 DEF Sound
    <2> QED
      BY <1>1, <2>2, CachesKept, OneRequestMoves DEF StartRegistering
  <1>2. CASE WriteSchema(p)
    <2> DEFINE text == sreq[p].text
               ts == [text |-> text, version |-> NextVersion]
    <2>1. sreq[p] \in Registering
      BY <1>0, <1>2, SoundCases DEF WriteSchema, SAt, RegisterSteps
    <2>2. text \in Texts \cup {Null}
      BY <2>1 DEF Registering
    <2>3. [sreq[p] EXCEPT !.step = "dropRedis"] \in Registering
      BY <2>1 DEF Registering, RegisterSteps
    <2>4. Sound([sreq[p] EXCEPT !.step = "dropRedis"], issued')
      BY <2>3 DEF Sound
    <2>5. SGoto(p, "dropRedis") = [sreq EXCEPT ![p] = [sreq[p] EXCEPT !.step = "dropRedis"]]
      BY DEF SGoto
    <2>6. UNCHANGED <<compiled, shared>>
      BY <1>2 DEF WriteSchema
    <2>7. CASE text # Null /\ schema' = ts /\ issued' = issued \cup {ts} /\ sreq' = SGoto(p, "dropRedis")
      <3>1. NextVersion \in Nat
        BY DEF NextVersion, SchemaInv
      <3>2. ts \in [text : Texts, version : Nat]
        BY <2>2, <2>7, <3>1
      <3>3. /\ issued \subseteq issued'
            /\ issued' \subseteq [text : Texts, version : Nat]
            /\ schema' \in issued' \cup {Null}
            /\ compiled' \in [Instances -> issued' \cup {Miss}]
            /\ shared' \in [ts : issued' \cup {Null}] \cup {Miss}
        <4> HIDE DEF ts
        <4>1. compiled' \in [Instances -> issued' \cup {Miss}]
          BY <2>6, <2>7 DEF SchemaInv
        <4>2. shared' \in [ts : issued' \cup {Null}] \cup {Miss}
          BY <2>6, <2>7 DEF SchemaInv
        <4> QED
          BY <2>7, <3>2, <4>1, <4>2 DEF SchemaInv
      <3> QED
        BY <2>4, <2>5, <2>7, <3>3, OneRequestMoves
    <2>8. CASE text = Null /\ schema' = Null /\ sreq' = SGoto(p, "dropRedis") /\ UNCHANGED issued
      <3>1. /\ issued' \subseteq [text : Texts, version : Nat]
            /\ compiled' \in [Instances -> issued' \cup {Miss}]
            /\ shared' \in [ts : issued' \cup {Null}] \cup {Miss}
        BY <2>6, <2>8 DEF SchemaInv
      <3> QED
        BY <2>4, <2>5, <2>8, <3>1, OneRequestMoves
    <2>9. CASE sreq' = SFinish(p) /\ UNCHANGED <<schema, issued>>
      BY <1>i, <2>6, <2>9, CachesKept, OneRequestMoves DEF SFinish
    <2> QED
      BY <1>2, <2>7, <2>8, <2>9 DEF WriteSchema
  <1>3. CASE DropSharedSchema(p)
    <2>1. sreq[p] \in Registering
      BY <1>0, <1>3, SoundCases DEF DropSharedSchema, SAt, RegisterSteps
    <2>2. [sreq[p] EXCEPT !.step = "publish"] \in Registering
      BY <2>1 DEF Registering, RegisterSteps
    <2>3. Sound([sreq[p] EXCEPT !.step = "publish"], issued')
      BY <2>2 DEF Sound
    <2>4. sreq' = [sreq EXCEPT ![p] = [sreq[p] EXCEPT !.step = "publish"]]
      BY <1>3 DEF DropSharedSchema, SGoto
    <2>5. UNCHANGED <<schema, issued, compiled>> /\ shared' \in {shared, Miss}
      BY <1>3 DEF DropSharedSchema
    <2> QED
      BY <2>3, <2>4, <2>5, CachesKept, OneRequestMoves
  <1>4. CASE PublishSchema(p)
    BY <1>4, <1>i, CachesKept, OneRequestMoves DEF PublishSchema, SFinish
  <1> QED
    BY <1>1, <1>2, <1>3, <1>4 DEF DeleteTopicSchema, UpsertTopicSchema, Register

\* A validation keeps SchemaInv: the compiled form it takes from the cache has
\* the version of the schema it fetched, and so its text or a version that two
\* texts share.
LEMMA ValidateKeepsSchema ==
    ASSUME SchemaInv, NEW p \in Readers,
           (\E i \in Instances : StartValidating(p, i)) \/ Validate(p)
    PROVE  SchemaInv'
  <1> p \in Requests
    BY DEF Requests
  <1>0. DOMAIN sreq = Requests /\ Sound(sreq[p], issued)
    BY DEF SchemaInv
  <1>u. UNCHANGED <<schema, issued>>
    BY DEF StartValidating, Validate, GetSharedSchema, SelectSchema, SetSharedSchema,
           ResolveSchema, StoreCompiled, CheckPayload, ReturnVerdict
  <1>i. Sound(Idle, issued')
    BY DEF Sound
  <1>w. ASSUME NEW ts \in issued \cup {Null}, sreq[p] \in Fetching(issued)
        PROVE  \E q : Sound(q, issued) /\ With(p, ts) = [sreq EXCEPT ![p] = q]
    <2> DEFINE step == IF ts = Null THEN "unchecked" ELSE "resolve"
               q == [[sreq[p] EXCEPT !.step = step] EXCEPT !.ts = ts]
    <2>1. q \in Fetching(issued) /\ q.step = step /\ q.ts = ts
      BY <1>w DEF Fetching, FetchSteps
    <2>2. step = "resolve" => ts \in issued
      OBVIOUS
    <2>3. With(p, ts) = [sreq EXCEPT ![p] = q]
      BY <1>0 DEF With
    <2> HIDE DEF q, step
    <2> QED
      BY <2>1, <2>2, <2>3 DEF Sound
  <1>1. CASE \E i \in Instances : StartValidating(p, i)
    <2> PICK i \in Instances : StartValidating(p, i)
      BY <1>1
    <2> DEFINE q == [step |-> "getRedis", at |-> i, ts |-> Null]
    <2>1. q \in Fetching(issued') /\ q.step # "resolve"
      BY DEF Fetching, FetchSteps
    <2>2. Sound(q, issued')
      BY <2>1 DEF Sound
    <2>3. sreq' = [sreq EXCEPT ![p] = q] /\ UNCHANGED <<compiled, shared>>
      BY DEF StartValidating
    <2> HIDE DEF q
    <2> QED
      BY <1>u, <2>2, <2>3, CachesKept, OneRequestMoves
  <1>2. CASE GetSharedSchema(p)
    <2>1. sreq[p] \in Fetching(issued)
      BY <1>0, <1>2, SoundCases DEF GetSharedSchema, SAt, FetchSteps
    <2>2. CASE shared \in Shared /\ sreq' = UseShared(p, shared.ts) /\ UNCHANGED shared
      <3>1. shared.ts \in issued \cup {Null}
        BY <2>2, NotShared DEF SchemaInv
      <3>2. PICK q : Sound(q, issued) /\ sreq' = [sreq EXCEPT ![p] = q]
        BY <1>w, <2>1, <2>2, <3>1 DEF UseShared
      <3>3. UNCHANGED compiled
        BY <1>2 DEF GetSharedSchema
      <3> QED
        BY <1>u, <2>2, <3>2, <3>3, CachesKept, OneRequestMoves
    <2>3. CASE sreq' = SGoto(p, "select") /\ shared' \in {shared, Miss}
      <3> DEFINE q == [sreq[p] EXCEPT !.step = "select"]
      <3>1. q \in Fetching(issued') /\ q.step # "resolve"
        BY <1>u, <2>1 DEF Fetching, FetchSteps
      <3>2. Sound(q, issued')
        BY <3>1 DEF Sound
      <3>3. sreq' = [sreq EXCEPT ![p] = q] /\ UNCHANGED compiled
        BY <1>2, <2>3 DEF GetSharedSchema, SGoto
      <3> HIDE DEF q
      <3> QED
        BY <1>u, <2>3, <3>2, <3>3, CachesKept, OneRequestMoves
    <2> QED
      BY <1>2, <2>2, <2>3 DEF GetSharedSchema
  <1>3. CASE SelectSchema(p)
    <2>1. sreq[p] \in Fetching(issued)
      BY <1>0, <1>3, SoundCases DEF SelectSchema, SAt, FetchSteps
    <2>2. UNCHANGED <<compiled, shared>>
      BY <1>3 DEF SelectSchema
    <2>3. CASE sreq' = [sreq EXCEPT ![p].step = "setRedis", ![p].ts = schema]
      <3> DEFINE q == [[sreq[p] EXCEPT !.step = "setRedis"] EXCEPT !.ts = schema]
      <3>1. schema \in issued \cup {Null}
        BY DEF SchemaInv
      <3>2. q \in Fetching(issued') /\ q.step # "resolve"
        BY <1>u, <2>1, <3>1 DEF Fetching, FetchSteps
      <3>3. Sound(q, issued')
        BY <3>2 DEF Sound
      <3>4. sreq' = [sreq EXCEPT ![p] = q]
        BY <1>0, <2>3
      <3> HIDE DEF q
      <3> QED
        BY <1>u, <2>2, <3>3, <3>4, CachesKept, OneRequestMoves
    <2>4. CASE sreq' = SFinish(p)
      BY <1>i, <1>u, <2>2, <2>4, CachesKept, OneRequestMoves DEF SFinish
    <2> QED
      BY <1>3, <2>3, <2>4 DEF SelectSchema
  <1>4. CASE SetSharedSchema(p)
    <2>1. sreq[p] \in Fetching(issued)
      BY <1>0, <1>4, SoundCases DEF SetSharedSchema, SAt, FetchSteps
    <2>2. sreq[p].ts \in issued \cup {Null}
      BY <2>1 DEF Fetching
    <2>3. PICK q : Sound(q, issued) /\ sreq' = [sreq EXCEPT ![p] = q]
      BY <1>4, <1>w, <2>1, <2>2 DEF SetSharedSchema
    <2>4. UNCHANGED compiled /\ shared' \in {shared, [ts |-> sreq[p].ts]}
      BY <1>4 DEF SetSharedSchema
    <2> QED
      BY <1>u, <2>2, <2>3, <2>4, CachesKept, OneRequestMoves
  <1>5. CASE ResolveSchema(p)
    <2> DEFINE entry == compiled[sreq[p].at]
               hit == entry # Miss /\ SameVersion(entry, sreq[p].ts)
               q == [step |-> IF hit THEN "check" ELSE "storeCompiled",
                     at |-> sreq[p].at, ts |-> sreq[p].ts,
                     used |-> IF hit THEN entry.text ELSE sreq[p].ts.text, payload |-> Null]
    <2>1. sreq[p] \in Fetching(issued) /\ sreq[p].step = "resolve"
      BY <1>0, <1>5, SoundCases DEF ResolveSchema, SAt, FetchSteps
    <2>2. sreq[p].ts \in issued
      <3>1. sreq[p] \notin Judging(issued) /\ sreq[p] \notin Registering /\ sreq[p] # Idle
        BY <2>1 DEF Judging, JudgeSteps, Registering, RegisterSteps, Idle
      <3> QED
        BY <1>0, <2>1, <3>1 DEF Sound
    <2>3. sreq[p].at \in Instances /\ entry \in issued \cup {Miss}
      BY <2>1 DEF Fetching, SchemaInv
    <2>4. sreq[p].ts.text \in Texts /\ (hit => entry.text \in Texts)
      BY <2>2, <2>3 DEF SchemaInv
    <2>5. sreq' = [sreq EXCEPT ![p] = q] /\ UNCHANGED <<compiled, shared>>
      BY <1>0, <1>5 DEF ResolveSchema
    <2> HIDE DEF hit, entry
    <2>6. q \in Judging(issued)
      BY <2>2, <2>3, <2>4 DEF Judging, JudgeSteps
    <2>7. q.step = "storeCompiled" => q.used = q.ts.text
      OBVIOUS
    <2>8. q.step = "check" => q.used = q.ts.text \/ SharedVersion(issued, q.ts.version)
      BY <2>2, <2>3 DEF hit, SharedVersion, SameVersion
    <2>9. Sound(q, issued)
      BY <2>6, <2>7, <2>8 DEF Sound
    <2> HIDE DEF q
    <2> QED
      BY <1>u, <2>5, <2>9, CachesKept, OneRequestMoves
  <1>6. CASE StoreCompiled(p)
    <2> DEFINE q == [sreq[p] EXCEPT !.step = "check"]
    <2>1. sreq[p] \in Judging(issued) /\ sreq[p].step = "storeCompiled"
      BY <1>0, <1>6, SoundCases DEF StoreCompiled, SAt, JudgeSteps
    <2>2. sreq[p].used = sreq[p].ts.text
      <3>1. sreq[p] \notin Fetching(issued) /\ sreq[p] \notin Registering /\ sreq[p] # Idle
        BY <2>1 DEF Fetching, FetchSteps, Registering, RegisterSteps, Idle
      <3> QED
        BY <1>0, <2>1, <3>1 DEF Sound
    <2>3. q \in Judging(issued) /\ q.step = "check" /\ q.used = sreq[p].used /\ q.ts = sreq[p].ts
      BY <2>1 DEF Judging, JudgeSteps
    <2>4. sreq' = [sreq EXCEPT ![p] = q]
      BY <1>6 DEF StoreCompiled, SGoto
    <2> HIDE DEF q
    <2>5. Sound(q, issued)
      BY <2>2, <2>3 DEF Sound
    <2>6. sreq[p].ts \in issued /\ sreq[p].at \in Instances
      BY <2>1 DEF Judging
    <2>7. compiled' = [compiled EXCEPT ![sreq[p].at] = sreq[p].ts] /\ UNCHANGED shared
      BY <1>6 DEF StoreCompiled
    <2> QED
      BY <1>u, <2>4, <2>5, <2>6, <2>7, CachesKept, OneRequestMoves
  <1>7. CASE CheckPayload(p)
    <2>1. sreq[p] \in Judging(issued)
      BY <1>0, <1>7, SoundCases DEF CheckPayload, SAt, JudgeSteps
    <2>2. PICK payload \in Payloads :
             sreq' = [sreq EXCEPT ![p].payload = payload,
                                  ![p].step = IF Accepts(sreq[p].used, payload)
                                              THEN "accepted" ELSE "refused"]
      BY <1>7 DEF CheckPayload
    <2>3. PICK verdict \in {"accepted", "refused"} :
             sreq' = [sreq EXCEPT ![p].payload = payload, ![p].step = verdict]
      BY <2>2
    <2> DEFINE q == [[sreq[p] EXCEPT !.payload = payload] EXCEPT !.step = verdict]
    <2>4. q \in Judging(issued) /\ q.step \notin {"storeCompiled", "check"}
      BY <2>1 DEF Judging, JudgeSteps
    <2>5. sreq' = [sreq EXCEPT ![p] = q]
      BY <1>0, <2>3
    <2> HIDE DEF q
    <2>6. Sound(q, issued)
      BY <2>4 DEF Sound
    <2>7. UNCHANGED <<compiled, shared>>
      BY <1>7 DEF CheckPayload
    <2> QED
      BY <1>u, <2>5, <2>6, <2>7, CachesKept, OneRequestMoves
  <1>8. CASE ReturnVerdict(p)
    BY <1>8, <1>i, <1>u, CachesKept, OneRequestMoves DEF ReturnVerdict, SFinish
  <1> QED
    BY <1>1, <1>2, <1>3, <1>4, <1>5, <1>6, <1>7, <1>8 DEF Validate

\* JudgedByFetched, for any number of instances, requests, texts and versions:
\* resolveSchema compares versions, and the compiled form in the process, the
\* entry in Redis and the fetched row all come from rows of topic_schemas.
THEOREM JudgedByFetchedHolds == SSpec => []JudgedByFetched
  <1>1. SInit => SchemaInv
    <2> SUFFICES ASSUME SInit PROVE SchemaInv
      OBVIOUS
    <2>1. issued \subseteq [text : Texts, version : Nat] /\ schema \in issued \cup {Null}
      <3>1. ASSUME InitSchema # Null
            PROVE  InitSchema \in [text : Texts, version : Nat]
        BY <3>1, SchemaConstants
      <3> QED
        BY <3>1 DEF SInit
    <2>2. DOMAIN sreq = Requests /\ sreq = [p \in Requests |-> sreq[p]]
      BY DEF SInit, Requests
    <2>3. \A p \in Requests : Sound(sreq[p], issued)
      BY DEF SInit, Sound, Requests
    <2>4. compiled \in [Instances -> issued \cup {Miss}] /\ shared = Miss
      BY DEF SInit
    <2> QED
      BY <2>1, <2>2, <2>3, <2>4 DEF SchemaInv
  <1>2. SchemaInv /\ [SNext]_svars => SchemaInv'
    <2> SUFFICES ASSUME SchemaInv, [SNext]_svars PROVE SchemaInv'
      OBVIOUS
    <2>1. ASSUME NEW i \in Instances, HandleSchemaChanged(i)
          PROVE  SchemaInv'
      <3>1. UNCHANGED <<schema, issued, shared, sreq>> /\ compiled' \in [Instances -> issued \cup {Miss}]
        BY <2>1 DEF HandleSchemaChanged, SchemaInv
      <3> QED
        BY <3>1 DEF SchemaInv
    <2>2. ASSUME NEW i \in Instances, RestartSchema(i)
          PROVE  SchemaInv'
      <3>1. UNCHANGED <<schema, issued, shared>> /\ compiled' \in [Instances -> issued \cup {Miss}]
        BY <2>2 DEF RestartSchema, SchemaInv
      <3>2. DOMAIN sreq = Requests /\ \A p \in Requests : Sound(sreq[p], issued)
        BY DEF SchemaInv
      <3>3. /\ DOMAIN sreq' = Requests /\ sreq' = [p \in Requests |-> sreq'[p]]
            /\ \A p \in Requests : sreq'[p] = Idle \/ sreq'[p] = sreq[p]
        BY <2>2, <3>2 DEF RestartSchema
      <3>4. \A p \in Requests : Sound(sreq'[p], issued)
        BY <3>2, <3>3 DEF Sound
      <3> QED
        BY <3>1, <3>3, <3>4 DEF SchemaInv
    <2>3. CASE SharedExpires
      BY <2>3 DEF SharedExpires, SchemaInv
    <2>4. CASE UNCHANGED svars
      BY <2>4 DEF svars, SchemaInv
    <2> QED
      BY <2>1, <2>2, <2>3, <2>4, RegisterKeepsSchema, ValidateKeepsSchema DEF SNext
  <1>3. SchemaInv => JudgedByFetched
    <2> SUFFICES ASSUME SchemaInv, NEW p \in Readers, SAt(p, "check")
                 PROVE  sreq[p].used = sreq[p].ts.text \/ Reused(sreq[p].ts.version)
      BY DEF JudgedByFetched
    <2>1. Sound(sreq[p], issued) /\ sreq[p].step = "check"
      BY DEF SchemaInv, Requests, SAt
    <2>2. sreq[p] \notin Fetching(issued) /\ sreq[p] \notin Registering /\ sreq[p] # Idle
      BY <2>1 DEF Fetching, FetchSteps, Registering, RegisterSteps, Idle
    <2>3. sreq[p].used = sreq[p].ts.text \/ SharedVersion(issued, sreq[p].ts.version)
      BY <2>1, <2>2 DEF Sound
    <2> QED
      BY <2>3 DEF SharedVersion, Reused
  <1> QED
    BY <1>1, <1>2, <1>3, PTL DEF SSpec

=============================================================================
