-------------------------- MODULE MessageLifecycle --------------------------
(***************************************************************************)
(* What queue-ti promises about a message, whatever table, cache, timer or *)
(* client is behind it.  A message waits, is delivered to one consumer at  *)
(* a time, and its delivery ends by an acknowledgement, by another attempt *)
(* or by failure.  A message given up on may be parked (the dead-letter    *)
(* topic), where it is delivered but never retried, and an operator may    *)
(* send it back.  Outside the parking place, failure and expiry are final, *)
(* and a message that is gone never returns.                               *)
(*                                                                         *)
(* MessageQueue implements this specification: see Lifecycle there.        *)
(***************************************************************************)
CONSTANT Ids

VARIABLES
    phase,   \* where each message is in its life
    parked,  \* the messages in a dead-letter topic
    kept     \* the acknowledged messages a replay can still copy

lifeVars == <<phase, parked, kept>>

Phases == {"unborn", "waiting", "claimed", "failed", "expired", "gone"}

Moved(S, to) == [m \in Ids |-> IF m \in S THEN to ELSE phase[m]]

Init ==
    /\ phase = [m \in Ids |-> "unborn"]
    /\ parked = {}
    /\ kept = {}

\* New messages, or copies of acknowledged ones, start to wait.
Accept(S) ==
    /\ \A m \in S : phase[m] = "unborn"
    /\ phase' = Moved(S, "waiting")
    /\ UNCHANGED <<parked, kept>>

\* Only what waits is delivered.
Deliver(S) ==
    /\ \A m \in S : phase[m] = "waiting"
    /\ phase' = Moved(S, "claimed")
    /\ UNCHANGED <<parked, kept>>

\* Only what is delivered can be acknowledged, and only an acknowledged message
\* that was not parked is kept for replay.
Acknowledge(m) ==
    /\ phase[m] = "claimed"
    /\ phase' = Moved({m}, "gone")
    /\ parked' = parked \ {m}
    /\ \/ UNCHANGED kept
       \/ m \notin parked /\ kept' = kept \cup {m}

\* A rejected delivery is retried or parked, and a parked one has failed.
Reject(m) ==
    /\ phase[m] = "claimed"
    /\ \/ m \notin parked /\ phase' = Moved({m}, "waiting") /\ UNCHANGED parked
       \/ m \notin parked /\ phase' = Moved({m}, "waiting") /\ parked' = parked \cup {m}
       \/ phase' = Moved({m}, "failed") /\ UNCHANGED parked
    /\ UNCHANGED kept

\* The way back from the parking place, open at any phase.
SendBack(m) ==
    /\ m \in parked
    /\ phase' = Moved({m}, "waiting")
    /\ parked' = parked \ {m}
    /\ UNCHANGED kept

Expire(S) ==
    /\ \A m \in S : phase[m] \in {"waiting", "claimed"}
    /\ phase' = Moved(S, "expired")
    /\ UNCHANGED <<parked, kept>>

\* Messages are removed, by an operator or because they expired, and copies
\* kept for replay are dropped.
Remove(S, F) ==
    /\ \A m \in S : phase[m] # "unborn"
    /\ phase' = Moved(S, "gone")
    /\ parked' = parked \ S
    /\ kept' = kept \ F

Next ==
    \/ \E S \in SUBSET Ids : Accept(S) \/ Deliver(S) \/ Expire(S)
    \/ \E m \in Ids : Acknowledge(m) \/ Reject(m) \/ SendBack(m)
    \/ \E S, F \in SUBSET Ids : Remove(S, F)

Spec == Init /\ [][Next]_lifeVars

=============================================================================
