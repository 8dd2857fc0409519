----------------------- MODULE ServerInstances_proofs -----------------------
(***************************************************************************)
(* Proofs about the server processes, for any number of processes and      *)
(* requests: an update of the schedule that no other interrupts leaves the *)
(* scheduler it asked for, and none beside it.                             *)
(***************************************************************************)
EXTENDS ServerInstances, TLAPS

\* A request between storing its schedule and storing its stop function.
Pending == [step : {"swap", "start", "store"}, at : Instances, schedule : Schedules \cup {Off}]

\* The request is under way in process i.
Under(u, i) == update[u] \in Pending /\ update[u].at = i

\* The process runs the scheduler it was last given, and can stop it.
Settled(i) ==
    /\ {c.schedule : c \in crons[i]} = {applied[i]} \ {Off}
    /\ \A c \in crons[i] : c.owner = stop[i]

\* How far a lone request has come.
Underway(u, i) ==
    /\ update[u].schedule = applied[i]
    /\ update[u].step = "swap" => \A c \in crons[i] : c.owner = stop[i]
    /\ update[u].step = "start" => applied[i] # Off /\ crons[i] = {}
    /\ update[u].step = "store" =>
          applied[i] # Off /\ crons[i] = {[owner |-> u, schedule |-> applied[i]]}

\* A process in which no two requests met has at most one under way, and is
\* settled between them; one that is gone, or drains, has none.
SerialAt(i) ==
    /\ phase[i] \in {"down", "draining"} => \A u \in Updates : ~Under(u, i)
    /\ phase[i] # "down" /\ i \notin overlapped =>
          /\ \A u, v \in Updates : Under(u, i) /\ Under(v, i) => u = v
          /\ (\A u \in Updates : ~Under(u, i)) => Settled(i)
          /\ \A u \in Updates : Under(u, i) => Underway(u, i)

SerialInv == \A i \in Instances : SerialAt(i)

ServerInv == ServerTypeOK /\ SerialInv

-----------------------------------------------------------------------------
(* Types *)

\* A request is idle, done or under way, and its step tells which.
LEMMA UpdateShape ==
    ASSUME ServerTypeOK, NEW u \in Updates
    PROVE  /\ update[u] \in {Idle, Done} \/ update[u] \in Pending
           /\ update[u] \in Pending <=> update[u] \notin {Idle, Done}
           /\ update[u].step \in {"swap", "start", "store"} => update[u] \in Pending
<1>1. update[u] \in {Idle, Done} \/ update[u] \in Pending
  BY DEF ServerTypeOK, Pending
<1>2. update[u] \in {Idle, Done} => update[u].step \in {"idle", "done"}
  BY DEF Idle, Done
<1>3. update[u] \in Pending => update[u].step \in {"swap", "start", "store"}
  BY DEF Pending
<1> QED
  BY <1>1, <1>2, <1>3

\* The requests the shutdown of a process waits for are those under way in it.
LEMMA UpdatingIsUnder ==
    ASSUME ServerTypeOK, NEW i \in Instances
    PROVE  Updating(i) = {u \in Updates : Under(u, i)}
BY UpdateShape DEF Updating, Under

\* Every part of a process keeps its type.
LEMMA ServerTypeNext == ServerTypeOK /\ [Next]_vars => ServerTypeOK'
<1> SUFFICES ASSUME ServerTypeOK, [Next]_vars PROVE ServerTypeOK'
  OBVIOUS
<1> USE ServerConstants
<1>1. CASE \E i \in Instances : StartServer(i)
  <2>1. PICK i \in Instances : StartServer(i)
    BY <1>1
  <2>2. PICK s \in Schedules \cup {Off} :
          /\ crons' = [crons EXCEPT ![i] = Scheduled(Boot, s)]
          /\ applied' = [applied EXCEPT ![i] = s]
    BY <2>1 DEF StartServer, ServerTypeOK
  <2>3. Scheduled(Boot, s) \subseteq Cron
    BY <2>2 DEF Scheduled, Cron
  <2> QED
    BY <2>1, <2>2, <2>3 DEF StartServer, ServerTypeOK, Phases
<1>2. CASE \E i \in Instances : Signal(i) \/ HTTPClosed(i) \/ Exit(i)
  BY <1>2 DEF Signal, HTTPClosed, Exit, ServerTypeOK, Phases
<1>3. CASE \E i \in Instances : Crash(i)
  BY <1>3 DEF Crash, ServerTypeOK, Phases
<1>4. CASE \E c \in Clients : CloseStream(c) \/ \E i \in Instances : OpenStream(c, i)
  BY <1>4 DEF CloseStream, OpenStream, ServerTypeOK
<1>5. CASE \E u \in Updates, i \in Instances, s \in Schedules \cup {Off, Garbled} : Persist(u, i, s)
  <2>1. PICK u \in Updates, i \in Instances, s \in Schedules \cup {Off} : Persist(u, i, s)
    BY <1>5 DEF Persist, Parses
  <2>2. [step |-> "swap", at |-> i, schedule |-> s] \in Pending
    BY DEF Pending
  <2> QED
    BY <2>1, <2>2 DEF Persist, ServerTypeOK, Pending
<1>6. CASE \E u \in Updates : StopOld(u) \/ StartCron(u) \/ StoreStop(u)
  <2>1. PICK u \in Updates : StopOld(u) \/ StartCron(u) \/ StoreStop(u)
    BY <1>6
  <2>2. update[u] \in Pending
    BY <2>1, UpdateShape DEF StopOld, StartCron, StoreStop
  <2>3. update[u].at \in Instances /\ update[u].schedule \in Schedules \cup {Off}
    BY <2>2 DEF Pending
  <2>4. \A step \in {"swap", "start", "store"} : [update[u] EXCEPT !.step = step] \in Pending
    BY <2>2 DEF Pending
  <2>5. update' \in [Updates -> {Idle, Done} \cup Pending]
    <3>1. PICK v \in {Done} \cup Pending : update' = [update EXCEPT ![u] = v]
      BY <2>1, <2>4 DEF StopOld, StartCron, StoreStop, Goto, Finish
    <3>2. update \in [Updates -> {Idle, Done} \cup Pending]
      BY DEF ServerTypeOK, Pending
    <3> QED
      BY <3>1, <3>2
  <2>6. crons' \in [Instances -> SUBSET Cron]
    <3>1. Scheduled(u, update[u].schedule) \subseteq Cron
      BY <2>3 DEF Scheduled, Cron
    <3> QED
      BY <2>1, <2>3, <3>1 DEF StopOld, StartCron, StoreStop, Stopped, ServerTypeOK
  <2>7. stop' \in [Instances -> Updates \cup {Boot, Null}]
    BY <2>1, <2>3 DEF StopOld, StartCron, StoreStop, ServerTypeOK
  <2> QED
    BY <2>1, <2>5, <2>6, <2>7 DEF StopOld, StartCron, StoreStop, ServerTypeOK, Pending
<1>7. CASE \/ \E i \in Instances, r \in Reapers : Tick(i, r) \/ EndTick(i, r)
           \/ \E i \in Instances : RunOnce(i) \/ RanOnce(i)
  BY <1>7 DEF Tick, EndTick, RunOnce, RanOnce, ServerTypeOK
<1>8. CASE UNCHANGED vars
  BY <1>8 DEF vars, ServerTypeOK
<1> QED
  BY <1>1, <1>2, <1>3, <1>4, <1>5, <1>6, <1>7, <1>8 DEF Next

-----------------------------------------------------------------------------
(* One update after another *)

\* A process of which a step changes nothing that matters here.
LEMMA ProcessKept ==
    ASSUME NEW i \in Instances, SerialAt(i),
           phase'[i] = phase[i] \/ (phase[i] = "up" /\ phase'[i] = "closing"),
           crons'[i] = crons[i], stop'[i] = stop[i], applied'[i] = applied[i],
           i \in overlapped' <=> i \in overlapped,
           \A u \in Updates : (Under(u, i)' <=> Under(u, i))
                              /\ (Under(u, i) => update'[u] = update[u])
    PROVE  SerialAt(i)'
BY DEF SerialAt, Settled, Underway

\* A process that ends, or drains, has no request under way.
LEMMA ProcessEnds ==
    ASSUME NEW i \in Instances, SerialAt(i),
           \/ phase'[i] = "down"
           \/ /\ phase'[i] = "draining" /\ phase[i] # "down"
              /\ crons'[i] = crons[i] /\ stop'[i] = stop[i] /\ applied'[i] = applied[i]
              /\ i \in overlapped' <=> i \in overlapped
              /\ \A u \in Updates : ~Under(u, i),
           \A u \in Updates : ~Under(u, i)'
    PROVE  SerialAt(i)'
BY DEF SerialAt, Settled

\* Starting, signalling, draining, leaving and dying.
LEMMA ProcessSerial ==
    ASSUME ServerInv, NEW i \in Instances,
           StartServer(i) \/ Signal(i) \/ HTTPClosed(i) \/ Exit(i) \/ Crash(i),
           NEW k \in Instances
    PROVE  SerialAt(k)'
<1>1. SerialAt(k) /\ SerialAt(i)
  BY DEF ServerInv, SerialInv
<1>2. CASE StartServer(i)
  <2>1. PICK s \in Schedules \cup {Off} :
          crons' = [crons EXCEPT ![i] = Scheduled(Boot, s)] /\ applied' = [applied EXCEPT ![i] = s]
    BY <1>2, ServerConstants DEF StartServer, ServerInv, ServerTypeOK
  <2>2. /\ phase' = [phase EXCEPT ![i] = "up"] /\ phase[i] = "down"
        /\ stop' = [stop EXCEPT ![i] = Boot]
        /\ overlapped' = overlapped \ {i} /\ update' = update
    BY <1>2 DEF StartServer
  <2>3. \A u \in Updates : Under(u, k)' <=> Under(u, k)
    BY <2>2 DEF Under
  <2>4. CASE k = i
    <3>1. \A u \in Updates : ~Under(u, i)'
      BY <1>1, <2>2, <2>3, <2>4 DEF SerialAt
    <3>2. phase'[i] = "up" /\ stop'[i] = Boot /\ applied'[i] = s /\ crons'[i] = Scheduled(Boot, s)
      BY <2>1, <2>2 DEF ServerInv, ServerTypeOK
    <3>3. CASE s = Off
      <4>1. crons'[i] = {}
        BY <3>2, <3>3 DEF Scheduled
      <4> QED
        BY <2>4, <3>1, <3>2, <3>3, <4>1 DEF SerialAt, Settled
    <3>4. CASE s # Off
      <4>1. crons'[i] = {[owner |-> Boot, schedule |-> s]}
        BY <3>2, <3>4 DEF Scheduled
      <4>2. {c.schedule : c \in crons'[i]} = {s}
        BY <4>1
      <4> QED
        BY <2>4, <3>1, <3>2, <3>4, <4>1, <4>2 DEF SerialAt, Settled
    <3> QED
      BY <3>3, <3>4
  <2>5. CASE k # i
    BY <1>1, <2>1, <2>2, <2>3, <2>5, ProcessKept DEF ServerInv, ServerTypeOK
  <2> QED
    BY <2>4, <2>5
<1>3. CASE Signal(i)
  <2>1. \A u \in Updates : (Under(u, k)' <=> Under(u, k)) /\ update'[u] = update[u]
    BY <1>3 DEF Signal, Under
  <2> QED
    BY <1>1, <1>3, <2>1, ProcessKept DEF Signal, ServerInv, ServerTypeOK
<1>4. CASE HTTPClosed(i)
  <2>1. \A u \in Updates : (Under(u, k)' <=> Under(u, k)) /\ update'[u] = update[u]
    BY <1>4 DEF HTTPClosed, Under
  <2>2. \A u \in Updates : ~Under(u, i)
    BY <1>4, UpdatingIsUnder DEF HTTPClosed, ServerInv
  <2>3. /\ phase' = [phase EXCEPT ![i] = "draining"] /\ phase[i] = "closing"
        /\ UNCHANGED <<crons, stop, applied, overlapped>>
    BY <1>4 DEF HTTPClosed
  <2>4. CASE k = i
    BY <1>1, <2>1, <2>2, <2>3, <2>4, ProcessEnds DEF ServerInv, ServerTypeOK
  <2>5. CASE k # i
    BY <1>1, <2>1, <2>3, <2>5, ProcessKept DEF ServerInv, ServerTypeOK
  <2> QED
    BY <2>4, <2>5
<1>5. CASE Exit(i)
  <2>1. \A u \in Updates : (Under(u, k)' <=> Under(u, k)) /\ update'[u] = update[u]
    BY <1>5 DEF Exit, Under
  <2>2. /\ phase' = [phase EXCEPT ![i] = "down"] /\ phase[i] = "draining"
        /\ crons' = [crons EXCEPT ![i] = {}] /\ stop' = [stop EXCEPT ![i] = Null]
        /\ UNCHANGED <<applied, overlapped>>
    BY <1>5 DEF Exit
  <2>3. CASE k = i
    <3>1. \A u \in Updates : ~Under(u, i)
      BY <1>1, <2>2 DEF SerialAt
    <3> QED
      BY <1>1, <2>1, <2>2, <2>3, <3>1, ProcessEnds DEF ServerInv, ServerTypeOK
  <2>4. CASE k # i
    BY <1>1, <2>1, <2>2, <2>4, ProcessKept DEF ServerInv, ServerTypeOK
  <2> QED
    BY <2>3, <2>4
<1>6. CASE Crash(i)
  <2>1. /\ phase' = [phase EXCEPT ![i] = "down"]
        /\ crons' = [crons EXCEPT ![i] = {}] /\ stop' = [stop EXCEPT ![i] = Null]
        /\ update' = [u \in Updates |-> IF u \in Updating(i) THEN Done ELSE update[u]]
        /\ UNCHANGED <<applied, overlapped>>
    BY <1>6 DEF Crash
  <2>2. Updating(i) = {u \in Updates : Under(u, i)}
    BY UpdatingIsUnder DEF ServerInv
  <2>3. Done \notin Pending
    BY DEF Done, Pending
  <2>4. CASE k = i
    <3>1. \A u \in Updates : ~Under(u, i)'
      BY <2>1, <2>2, <2>3 DEF Under
    <3> QED
      BY <1>1, <2>1, <2>4, <3>1, ProcessEnds DEF ServerInv, ServerTypeOK
  <2>5. CASE k # i
    <3>1. \A u \in Updates : (Under(u, k)' <=> Under(u, k)) /\ (Under(u, k) => update'[u] = update[u])
      BY <2>1, <2>2, <2>3, <2>5 DEF Under
    <3> QED
      BY <1>1, <2>1, <2>5, <3>1, ProcessKept DEF ServerInv, ServerTypeOK
  <2> QED
    BY <2>4, <2>5
<1> QED
  BY <1>2, <1>3, <1>4, <1>5, <1>6

\* A request that is accepted while another is under way marks the process;
\* otherwise it finds it settled.
LEMMA PersistSerial ==
    ASSUME ServerInv, NEW u \in Updates, NEW i \in Instances, NEW s, Persist(u, i, s),
           NEW k \in Instances
    PROVE  SerialAt(k)'
<1>1. SerialAt(k)
  BY DEF ServerInv, SerialInv
<1>2. /\ s \in Schedules \cup {Off} /\ update[u] = Idle /\ phase[i] = "up"
      /\ update' = [update EXCEPT ![u] = [step |-> "swap", at |-> i, schedule |-> s]]
      /\ overlapped' = IF Updating(i) = {} THEN overlapped ELSE overlapped \cup {i}
      /\ applied' = [applied EXCEPT ![i] = s]
      /\ UNCHANGED <<phase, crons, stop>>
  BY DEF Persist, Parses
<1>3. Updating(i) = {v \in Updates : Under(v, i)}
  BY UpdatingIsUnder DEF ServerInv
<1>4. update'[u] = [step |-> "swap", at |-> i, schedule |-> s] /\ update'[u] \in Pending
  BY <1>2 DEF ServerInv, ServerTypeOK, Pending
<1>5. \A v \in Updates : v # u => update'[v] = update[v] /\ (Under(v, k)' <=> Under(v, k))
  BY <1>2 DEF ServerInv, ServerTypeOK, Under
<1>6. ~Under(u, k)
  BY <1>2, UpdateShape DEF Under, ServerInv
<1>7. CASE k = i
  <2>1. Under(u, i)'
    BY <1>4 DEF Under
  <2>2. CASE i \in overlapped'
    BY <1>2, <1>7, <2>2 DEF SerialAt
  <2>3. CASE i \notin overlapped'
    <3>1. i \notin overlapped /\ \A v \in Updates : ~Under(v, i)
      BY <1>2, <1>3, <2>3
    <3>2. \A c \in crons[i] : c.owner = stop[i]
      BY <1>1, <1>2, <1>7, <3>1 DEF SerialAt, Settled
    <3>3. Underway(u, i)'
      BY <1>2, <1>4, <3>2 DEF Underway, ServerInv, ServerTypeOK
    <3>4. \A v \in Updates : Under(v, i)' => v = u
      BY <1>5, <1>7, <3>1
    <3> QED
      BY <1>2, <1>7, <2>1, <3>3, <3>4 DEF SerialAt
  <2> QED
    BY <2>2, <2>3
<1>8. CASE k # i
  <2>1. ~Under(u, k)'
    BY <1>4, <1>8 DEF Under
  <2>2. /\ applied'[k] = applied[k] /\ (k \in overlapped' <=> k \in overlapped)
    BY <1>2, <1>8 DEF ServerInv, ServerTypeOK
  <2> QED
    BY <1>1, <1>2, <1>5, <1>6, <2>1, <2>2, ProcessKept
<1> QED
  BY <1>7, <1>8

\* A lone request stops the scheduler that ran, starts its own and stores how to
\* stop it.
LEMMA SwapSerial ==
    ASSUME ServerInv, NEW u \in Updates, StopOld(u) \/ StartCron(u) \/ StoreStop(u),
           NEW k \in Instances
    PROVE  SerialAt(k)'
<1>1. SerialAt(k)
  BY DEF ServerInv, SerialInv
<1>2. update[u] \in Pending
  BY UpdateShape DEF StopOld, StartCron, StoreStop, ServerInv
<1>3. PICK i \in Instances : i = update[u].at
  BY <1>2 DEF Pending
<1>4. Under(u, i) /\ update[u].schedule \in Schedules \cup {Off}
  BY <1>2, <1>3 DEF Under, Pending
<1>5. /\ UNCHANGED <<phase, overlapped, applied>>
      /\ \A v \in Updates : v # u => update'[v] = update[v] /\ (Under(v, k)' <=> Under(v, k))
      /\ crons' = [crons EXCEPT ![i] = crons'[i]] /\ stop' = [stop EXCEPT ![i] = stop'[i]]
  <2>1. UNCHANGED <<phase, overlapped, applied>>
    BY DEF StopOld, StartCron, StoreStop
  <2>2. \A v \in Updates : v # u => update'[v] = update[v]
    BY DEF StopOld, StartCron, StoreStop, Goto, Finish, ServerInv, ServerTypeOK
  <2>3. crons' = [crons EXCEPT ![i] = crons'[i]] /\ stop' = [stop EXCEPT ![i] = stop'[i]]
    BY <1>3 DEF StopOld, StartCron, StoreStop, ServerInv, ServerTypeOK
  <2> QED
    BY <2>1, <2>2, <2>3 DEF Under
<1>6. /\ update'[u] = Done \/ update'[u] = [update[u] EXCEPT !.step = update'[u].step]
      /\ Under(u, k)' => k = i
  <2>1. update'[u] = Done \/ update'[u] = [update[u] EXCEPT !.step = "start"]
                          \/ update'[u] = [update[u] EXCEPT !.step = "store"]
    BY DEF StopOld, StartCron, StoreStop, Goto, Finish, ServerInv, ServerTypeOK
  <2>2. update'[u] # Done => update'[u].at = i
    BY <1>2, <1>3, <2>1 DEF Pending
  <2>3. Done \notin Pending
    BY DEF Done, Pending
  <2> QED
    BY <1>2, <2>1, <2>2, <2>3 DEF Under, Pending
<1>7. CASE k # i
  <2>1. ~Under(u, k) /\ ~Under(u, k)'
    BY <1>3, <1>6, <1>7 DEF Under
  <2>2. crons'[k] = crons[k] /\ stop'[k] = stop[k]
    BY <1>5, <1>7 DEF ServerInv, ServerTypeOK
  <2> QED
    BY <1>1, <1>5, <2>1, <2>2, ProcessKept
<1>8. CASE k = i
  <2>1. phase[i] \notin {"down", "draining"}
    BY <1>1, <1>4, <1>8 DEF SerialAt
  <2>2. CASE i \in overlapped
    BY <1>5, <1>8, <2>1, <2>2 DEF SerialAt
  <2>3. CASE i \notin overlapped
    <3>1. Underway(u, i) /\ \A v \in Updates : v # u => ~Under(v, i)
      BY <1>1, <1>4, <1>8, <2>1, <2>3 DEF SerialAt
    <3>2. \A v \in Updates : v # u => ~Under(v, i)'
      BY <1>5, <1>8, <3>1
    <3>3. ASSUME ~Under(u, i)', Settled(i)'
          PROVE  SerialAt(i)'
      BY <1>5, <2>1, <3>2, <3>3 DEF SerialAt
    <3>4. ASSUME Under(u, i)', Underway(u, i)'
          PROVE  SerialAt(i)'
      BY <1>5, <2>1, <3>2, <3>4 DEF SerialAt
    <3>5. Done \notin Pending
      BY DEF Done, Pending
    <3>6. CASE StopOld(u)
      <4>1. crons'[i] = {}
        <5>1. \A c \in crons[i] : c.owner = stop[i]
          BY <3>1, <3>6 DEF StopOld, Underway
        <5> QED
          BY <1>3, <3>6, <5>1 DEF StopOld, Stopped, ServerInv, ServerTypeOK
      <4>2. CASE applied[i] = Off
        <5>1. update'[u] = Done
          BY <3>1, <3>6, <4>2 DEF StopOld, Finish, Underway, ServerInv, ServerTypeOK
        <5>2. Settled(i)'
          BY <1>5, <4>1, <4>2 DEF Settled
        <5> QED
          BY <1>8, <3>3, <3>5, <5>1, <5>2 DEF Under
      <4>3. CASE applied[i] # Off
        <5>1. update'[u] = [update[u] EXCEPT !.step = "start"]
          BY <3>1, <3>6, <4>3 DEF StopOld, Goto, Underway, ServerInv, ServerTypeOK
        <5>2. /\ update'[u] \in Pending /\ update'[u].at = i /\ update'[u].step = "start"
              /\ update'[u].schedule = applied[i]
          BY <1>2, <1>3, <3>1, <5>1 DEF Pending, Underway
        <5>3. Underway(u, i)'
          BY <1>5, <4>1, <4>3, <5>2 DEF Underway
        <5> QED
          BY <1>8, <3>4, <5>2, <5>3 DEF Under
      <4> QED
        BY <4>2, <4>3
    <3>7. CASE StartCron(u)
      <4>1. applied[i] # Off /\ crons[i] = {} /\ update[u].schedule = applied[i]
        BY <3>1, <3>7 DEF StartCron, Underway
      <4>2. crons'[i] = {[owner |-> u, schedule |-> applied[i]]}
        BY <1>3, <3>7, <4>1 DEF StartCron, Scheduled, ServerInv, ServerTypeOK
      <4>3. update'[u] = [update[u] EXCEPT !.step = "store"]
        BY <3>7 DEF StartCron, Goto, ServerInv, ServerTypeOK
      <4>4. /\ update'[u] \in Pending /\ update'[u].at = i /\ update'[u].step = "store"
            /\ update'[u].schedule = applied[i]
        BY <1>2, <1>3, <4>1, <4>3 DEF Pending
      <4>5. Underway(u, i)'
        BY <1>5, <4>1, <4>2, <4>4 DEF Underway
      <4> QED
        BY <1>8, <3>4, <4>4, <4>5 DEF Under
    <3>8. CASE StoreStop(u)
      <4>1. applied[i] # Off /\ crons[i] = {[owner |-> u, schedule |-> applied[i]]}
        BY <3>1, <3>8 DEF StoreStop, Underway
      <4>2. update'[u] = Done /\ stop'[i] = u /\ crons'[i] = crons[i]
        BY <1>3, <3>8 DEF StoreStop, Finish, ServerInv, ServerTypeOK
      <4>3. {c.schedule : c \in crons[i]} = {applied[i]}
        BY <4>1
      <4>4. Settled(i)'
        BY <1>5, <4>1, <4>2, <4>3 DEF Settled
      <4> QED
        BY <1>8, <3>3, <3>5, <4>2, <4>4 DEF Under
    <3> QED
      BY <3>6, <3>7, <3>8
  <2> QED
    BY <2>2, <2>3
<1> QED
  BY <1>7, <1>8

\* The invariant holds when nothing has been started, and every step keeps it.
LEMMA ServerInvariant == Spec => []ServerInv
<1>1. Init => ServerInv
  <2> SUFFICES ASSUME Init PROVE ServerInv
    OBVIOUS
  <2>1. ServerTypeOK
    BY DEF Init, ServerTypeOK, Phases
  <2>3. SerialInv
    BY DEF Init, SerialInv, SerialAt, Under, Pending, Idle
  <2> QED
    BY <2>1, <2>3 DEF ServerInv
<1>2. ServerInv /\ [Next]_vars => ServerInv'
  <2> SUFFICES ASSUME ServerInv, [Next]_vars PROVE ServerInv'
    OBVIOUS
  <2>1. ServerTypeOK'
    BY ServerTypeNext DEF ServerInv
  <2>2. ASSUME NEW k \in Instances
        PROVE  SerialAt(k)'
    <3>1. CASE \E i \in Instances :
                 StartServer(i) \/ Signal(i) \/ HTTPClosed(i) \/ Exit(i) \/ Crash(i)
      BY <3>1, ProcessSerial
    <3>2. CASE \E u \in Updates, i \in Instances, s \in Schedules \cup {Off, Garbled} : Persist(u, i, s)
      BY <3>2, PersistSerial
    <3>3. CASE \E u \in Updates : StopOld(u) \/ StartCron(u) \/ StoreStop(u)
      BY <3>3, SwapSerial
    <3>4. CASE \/ \E c \in Clients : CloseStream(c) \/ \E i \in Instances : OpenStream(c, i)
               \/ \E i \in Instances, r \in Reapers : Tick(i, r) \/ EndTick(i, r)
               \/ \E i \in Instances : RunOnce(i) \/ RanOnce(i)
               \/ UNCHANGED vars
      <4>1. UNCHANGED <<phase, crons, stop, applied, overlapped, update>>
        BY <3>4 DEF CloseStream, OpenStream, Tick, EndTick, RunOnce, RanOnce, vars
      <4>2. \A u \in Updates : Under(u, k)' <=> Under(u, k)
        BY <4>1 DEF Under
      <4> QED
        BY <4>1, <4>2, ProcessKept DEF ServerInv, SerialInv
    <3> QED
      BY <3>1, <3>2, <3>3, <3>4 DEF Next
  <2> QED
    BY <2>1, <2>2 DEF ServerInv, SerialInv
<1> QED
  BY <1>1, <1>2, PTL DEF Spec

\* A process whose updates came one after the other runs exactly the scheduler
\* of its last one and can stop it, across any number of restarts and crashes
\* (UpdateDeleteReaperSchedule).
THEOREM SerialUpdatesApplyHolds == Spec => []SerialUpdatesApply
<1>1. ASSUME ServerInv, NEW i \in Instances,
             phase[i] = "up", Updating(i) = {}, i \notin overlapped
      PROVE  Settled(i)
  <2>1. \A u \in Updates : ~Under(u, i)
    BY <1>1, UpdatingIsUnder DEF ServerInv
  <2> QED
    BY <1>1, <2>1 DEF ServerInv, SerialInv, SerialAt
<1>2. ServerInv => SerialUpdatesApply
  BY <1>1 DEF SerialUpdatesApply, Settled
<1> QED
  BY <1>2, ServerInvariant, PTL

=============================================================================
