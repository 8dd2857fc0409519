-------------------------- MODULE ServerInstances --------------------------
(***************************************************************************)
(* The server processes: start, the reapers they run in the background,    *)
(* the delete reaper's schedule an administrator changes at run time, and  *)
(* the shutdown.                                                           *)
(*                                                                         *)
(* A cron scheduler is named after what started it, the boot of the        *)
(* process or a request; a request runs once.  A tick of a reaper takes    *)
(* the reaper's advisory lock in a transaction or skips; a pass that an    *)
(* administrator asks for takes no lock and may run beside it.             *)
(***************************************************************************)
EXTENDS FiniteSets

CONSTANTS
    Instances,      \* server processes over one database
    Updates,        \* PUT /api/admin/delete-reaper/schedule requests
    Clients,        \* gRPC clients that hold a Subscribe stream
    Schedules,      \* cron expressions that parse
    Off,            \* the empty schedule
    Garbled,        \* an expression that does not parse
    StaticSchedule, \* queue.delete_reaper_schedule of the configuration
    Boot,           \* the start of a process
    Null            \* no row, no stop function, no instance

ASSUME ServerConstants ==
    /\ StaticSchedule \in Schedules \cup {Off}
    /\ {Off, Garbled, Null} \cap Schedules = {} /\ Garbled # Off
    /\ Boot \notin Updates /\ Null \notin Updates \cup {Boot}
    /\ Null \notin Instances

VARIABLES
    setting,    \* the value of delete_reaper_schedule in system_settings
    phase,      \* of each process
    crons,      \* schedulers running in each process
    stop,       \* whose scheduler deleteReaperStop stops
    update,     \* progress of each request
    overlapped, \* processes in which two updates were under way at once (history)
    applied,    \* the schedule the process was last given (history)
    ticking,    \* reapers whose tick is at work in each process
    lock,       \* the process whose tick has the advisory lock of each reaper
    manual,     \* processes in which a request runs a reaper's pass
    stream      \* the process each client has its stream to

vars == <<setting, phase, crons, stop, update, overlapped, applied, ticking, lock, manual, stream>>

Reapers == {"expiry", "delete"}
Phases == {"down", "up", "closing", "draining"}
Cron == [owner : Updates \cup {Boot}, schedule : Schedules]

Idle == [step |-> "idle"]
Done == [step |-> "done"]

Updating(i) == {u \in Updates : update[u] \notin {Idle, Done} /\ update[u].at = i}

Init ==
    /\ setting = Null
    /\ phase = [i \in Instances |-> "down"]
    /\ crons = [i \in Instances |-> {}]
    /\ stop = [i \in Instances |-> Null]
    /\ update = [u \in Updates |-> Idle]
    /\ overlapped = {}
    /\ applied = [i \in Instances |-> Off]
    /\ ticking = [i \in Instances |-> {}]
    /\ lock = [r \in Reapers |-> Null]
    /\ manual = {}
    /\ stream = [c \in Clients |-> Null]

-----------------------------------------------------------------------------
(* main: start, signal, shutdown *)

\* StartDeleteReaper starts no scheduler for the empty schedule.
Scheduled(owner, s) == IF s = Off THEN {} ELSE {[owner |-> owner, schedule |-> s]}

\* The stored schedule is used unless it is empty or cannot be read.
StartServer(i) ==
    /\ phase[i] = "down"
    /\ phase' = [phase EXCEPT ![i] = "up"]
    /\ \E s \in {StaticSchedule, IF setting \in {Null, Off} THEN StaticSchedule ELSE setting} :
          /\ crons' = [crons EXCEPT ![i] = Scheduled(Boot, s)]
          /\ applied' = [applied EXCEPT ![i] = s]
    /\ stop' = [stop EXCEPT ![i] = Boot]
    /\ overlapped' = overlapped \ {i}
    /\ UNCHANGED <<setting, update, ticking, lock, manual, stream>>

\* SIGTERM: the context is cancelled and the HTTP server takes no new request.
Signal(i) ==
    /\ phase[i] = "up"
    /\ phase' = [phase EXCEPT ![i] = "closing"]
    /\ UNCHANGED <<setting, crons, stop, update, overlapped, applied, ticking, lock, manual, stream>>

\* App.Shutdown returns when the requests under way have been answered.
HTTPClosed(i) ==
    /\ phase[i] = "closing"
    /\ Updating(i) = {} /\ i \notin manual
    /\ phase' = [phase EXCEPT ![i] = "draining"]
    /\ UNCHANGED <<setting, crons, stop, update, overlapped, applied, ticking, lock, manual, stream>>

\* GracefulStop waits for the streams, and pool.Close for the connections.
Exit(i) ==
    /\ phase[i] = "draining"
    /\ \A c \in Clients : stream[c] # i
    /\ ticking[i] = {}
    /\ phase' = [phase EXCEPT ![i] = "down"]
    /\ crons' = [crons EXCEPT ![i] = {}]
    /\ stop' = [stop EXCEPT ![i] = Null]
    /\ UNCHANGED <<setting, update, overlapped, applied, ticking, lock, manual, stream>>

\* The process is killed; the database ends its transactions and with them
\* their locks.
Crash(i) ==
    /\ phase[i] # "down"
    /\ phase' = [phase EXCEPT ![i] = "down"]
    /\ crons' = [crons EXCEPT ![i] = {}]
    /\ stop' = [stop EXCEPT ![i] = Null]
    /\ update' = [u \in Updates |-> IF u \in Updating(i) THEN Done ELSE update[u]]
    /\ ticking' = [ticking EXCEPT ![i] = {}]
    /\ lock' = [r \in Reapers |-> IF lock[r] = i THEN Null ELSE lock[r]]
    /\ manual' = manual \ {i}
    /\ stream' = [c \in Clients |-> IF stream[c] = i THEN Null ELSE stream[c]]
    /\ UNCHANGED <<setting, overlapped, applied>>

-----------------------------------------------------------------------------
(* Subscribe streams *)

\* Seeded fault: streams are accepted until the process is gone.
OpenStreamAnyTime(c, i) ==
    /\ stream[c] = Null
    /\ phase[i] # "down"
    /\ stream' = [stream EXCEPT ![c] = i]
    /\ UNCHANGED <<setting, phase, crons, stop, update, overlapped, applied, ticking, lock, manual>>

\* The gRPC server takes streams until GracefulStop closes its listener.
OpenStream(c, i) ==
    /\ stream[c] = Null
    /\ phase[i] \in {"up", "closing"}
    /\ stream' = [stream EXCEPT ![c] = i]
    /\ UNCHANGED <<setting, phase, crons, stop, update, overlapped, applied, ticking, lock, manual>>

\* Only the client ends a stream: the handler watches the stream's context,
\* which the cancelled one of main is no parent of.
CloseStream(c) ==
    /\ stream[c] # Null
    /\ stream' = [stream EXCEPT ![c] = Null]
    /\ UNCHANGED <<setting, phase, crons, stop, update, overlapped, applied, ticking, lock, manual>>

-----------------------------------------------------------------------------
(* UpdateDeleteReaperSchedule *)

\* cron.ParseStandard; the empty schedule is not parsed.
Parses(s) == s \in Schedules \cup {Off}

\* A schedule that parses is stored, before anything happens to the running one.
Persist(u, i, s) ==
    /\ Parses(s)
    /\ update[u] = Idle
    /\ phase[i] = "up"
    /\ setting' = s
    /\ update' = [update EXCEPT ![u] = [step |-> "swap", at |-> i, schedule |-> s]]
    /\ overlapped' = IF Updating(i) = {} THEN overlapped ELSE overlapped \cup {i}
    /\ applied' = [applied EXCEPT ![i] = s]
    /\ UNCHANGED <<phase, crons, stop, ticking, lock, manual, stream>>

Goto(u, step) == [update EXCEPT ![u].step = step]
Finish(u) == [update EXCEPT ![u] = Done]

\* Seeded fault: the stop function is forgotten, not called.
Unstopped(i) == crons[i]

\* The schedulers left once deleteReaperStop has been called.
Stopped(i) == {c \in crons[i] : c.owner # stop[i]}

\* Under deleteReaperMu.  The empty schedule ends here.
StopOld(u) ==
    LET i == update[u].at
    IN  /\ update[u].step = "swap"
        /\ crons' = [crons EXCEPT ![i] = Stopped(i)]
        /\ stop' = [stop EXCEPT ![i] = Null]
        /\ update' = IF update[u].schedule = Off THEN Finish(u) ELSE Goto(u, "start")
        /\ UNCHANGED <<setting, phase, overlapped, applied, ticking, lock, manual, stream>>

\* StartDeleteReaper: the scheduler runs from c.Start() on.
StartCron(u) ==
    LET i == update[u].at
    IN  /\ update[u].step = "start"
        /\ crons' = [crons EXCEPT ![i] = @ \cup Scheduled(u, update[u].schedule)]
        /\ update' = Goto(u, "store")
        /\ UNCHANGED <<setting, phase, stop, overlapped, applied, ticking, lock, manual, stream>>

\* Under deleteReaperMu again.
StoreStop(u) ==
    /\ update[u].step = "store"
    /\ stop' = [stop EXCEPT ![update[u].at] = u]
    /\ update' = Finish(u)
    /\ UNCHANGED <<setting, phase, crons, overlapped, applied, ticking, lock, manual, stream>>

-----------------------------------------------------------------------------
(* Ticks and tryWithReaperLock *)

\* The expiry reaper runs with its process.  The cron of the delete reaper starts a
\* goroutine per tick, whose context is cancelled with main's or the HTTP server's.
Ticks(i, r) ==
    \/ phase[i] = "up" /\ (r = "delete" => crons[i] # {})
    \/ r = "delete" /\ phase[i] = "closing" /\ \E c \in crons[i] : c.owner # Boot

\* pg_try_advisory_xact_lock: a tick that does not get the lock is skipped.
Tick(i, r) ==
    /\ Ticks(i, r)
    /\ lock[r] = Null
    /\ lock' = [lock EXCEPT ![r] = i]
    /\ ticking' = [ticking EXCEPT ![i] = @ \cup {r}]
    /\ UNCHANGED <<setting, phase, crons, stop, update, overlapped, applied, manual, stream>>

\* Seeded fault: a lock of the session, which the connection takes back to the pool.
EndTickOfSession(i, r) ==
    /\ r \in ticking[i]
    /\ ticking' = [ticking EXCEPT ![i] = @ \ {r}]
    /\ UNCHANGED <<setting, phase, crons, stop, update, overlapped, applied, lock, manual, stream>>

\* COMMIT, or ROLLBACK after an error or a cancelled context.
EndTick(i, r) ==
    /\ r \in ticking[i]
    /\ lock' = [lock EXCEPT ![r] = Null]
    /\ ticking' = [ticking EXCEPT ![i] = @ \ {r}]
    /\ UNCHANGED <<setting, phase, crons, stop, update, overlapped, applied, manual, stream>>

-----------------------------------------------------------------------------
(* RunExpiryReaperOnce, RunDeleteReaperOnce, RunArchiveReaperOnce *)

\* A request does the work of a reaper without asking for its lock.
RunOnce(i) ==
    /\ phase[i] = "up"
    /\ i \notin manual
    /\ manual' = manual \cup {i}
    /\ UNCHANGED <<setting, phase, crons, stop, update, overlapped, applied, ticking, lock, stream>>

RanOnce(i) ==
    /\ i \in manual
    /\ manual' = manual \ {i}
    /\ UNCHANGED <<setting, phase, crons, stop, update, overlapped, applied, ticking, lock, stream>>

-----------------------------------------------------------------------------

Next ==
    \/ \E i \in Instances : StartServer(i) \/ Signal(i) \/ HTTPClosed(i) \/ Exit(i) \/ Crash(i)
    \/ \E c \in Clients : CloseStream(c) \/ \E i \in Instances : OpenStream(c, i)
    \/ \E u \in Updates :
          \/ \E i \in Instances, s \in Schedules \cup {Off, Garbled} : Persist(u, i, s)
          \/ StopOld(u) \/ StartCron(u) \/ StoreStop(u)
    \/ \E i \in Instances, r \in Reapers : Tick(i, r) \/ EndTick(i, r)
    \/ \E i \in Instances : RunOnce(i) \/ RanOnce(i)

Spec == Init /\ [][Next]_vars

\* Requests, ticks and the shutdown run on, and tickers keep firing; clients may do
\* as they like.
Fairness ==
    /\ \A i \in Instances : WF_vars(HTTPClosed(i)) /\ WF_vars(Exit(i))
    /\ \A u \in Updates : WF_vars(StopOld(u) \/ StartCron(u) \/ StoreStop(u))
    /\ \A i \in Instances, r \in Reapers : WF_vars(Tick(i, r)) /\ WF_vars(EndTick(i, r))
    /\ \A i \in Instances : WF_vars(RanOnce(i))

FairSpec == Spec /\ Fairness

-----------------------------------------------------------------------------
(* Properties *)

\* What each part of a process can be.
ServerTypeOK ==
    /\ setting \in Schedules \cup {Off, Null}
    /\ phase \in [Instances -> Phases]
    /\ crons \in [Instances -> SUBSET Cron]
    /\ stop \in [Instances -> Updates \cup {Boot, Null}]
    /\ update \in [Updates -> {Idle, Done}
                     \cup [step : {"swap", "start", "store"}, at : Instances,
                           schedule : Schedules \cup {Off}]]
    /\ overlapped \subseteq Instances
    /\ applied \in [Instances -> Schedules \cup {Off}]
    /\ ticking \in [Instances -> SUBSET Reapers]
    /\ lock \in [Reapers -> Instances \cup {Null}]
    /\ manual \subseteq Instances
    /\ stream \in [Clients -> Instances \cup {Null}]

\* A process whose updates came one after the other runs one scheduler, that of
\* its last update (or none, when it was switched off), and can stop it.  Two
\* updates at once can leave a scheduler behind that nothing stops.
SerialUpdatesApply ==
    \A i \in Instances :
        phase[i] = "up" /\ Updating(i) = {} /\ i \notin overlapped =>
            /\ {c.schedule : c \in crons[i]} = {applied[i]} \ {Off}
            /\ \A c \in crons[i] : c.owner = stop[i]

\* As long as one process stays up, and has a scheduler for the delete reaper, ticks
\* of that reaper go on doing its work in one process or another: the ticks that are
\* skipped, the processes that die with the lock and the passes that run without it
\* leave no reaper locked out.
ReapersKeepWorking ==
    \A i \in Instances, r \in Reapers :
        <>[](phase[i] = "up" /\ (r = "delete" => crons[i] # {}))
        => []<>(\E k \in Instances : r \in ticking[k])

\* A signalled process ends if its clients leave: neither updates nor reapers, ticking
\* or run by a request, hold it up, and no new client does.
ShutdownCompletes ==
    \A i \in Instances :
        []<>(\A c \in Clients : stream[c] # i) => (phase[i] = "closing" ~> phase[i] = "down")

\* docs/guide/configuration.md: the schedule in system_settings takes precedence
\* over the static configuration on subsequent restarts.  (Not met: see README,
\* Variations.)
StoredScheduleWins ==
    [][\A i \in Instances :
          phase[i] = "down" /\ phase'[i] = "up" /\ setting # Null => applied'[i] = setting]_vars

=============================================================================
