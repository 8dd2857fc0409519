--------------------------- MODULE MCMessageQueue ---------------------------
(***************************************************************************)
(* Small instances of MessageQueue: topic configurations for TLC.          *)
(***************************************************************************)
EXTENDS MessageQueue, TLC

NoOverrides == [t \in Topics |-> Null]

Defaults ==
    [maxRetries   |-> Null,
     messageTTL   |-> Null,
     maxDepth     |-> Null,
     replayable   |-> FALSE,
     replayWindow |-> Null]

Nobody == {}

\* A queue that admits one active message.
Shallow == [t \in Topics |-> [Defaults EXCEPT !.maxDepth = 1]]

\* A replayable topic with a window, and an administrator who deletes the
\* configuration and writes it again.
Windowed == [Defaults EXCEPT !.replayable = TRUE, !.replayWindow = 1]
WithReplay == [t \in Topics |-> Windowed]
DeletesAndRestores == {Null, Windowed}

Interchangeable == Permutations(Consumers) \cup Permutations(Producers)

=============================================================================
