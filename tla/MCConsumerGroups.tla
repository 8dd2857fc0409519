-------------------------- MODULE MCConsumerGroups --------------------------
(***************************************************************************)
(* Small instances of ConsumerGroups.                                      *)
(***************************************************************************)
EXTENDS ConsumerGroups, TLC

NoOverrides == [t \in Topics |-> Null]

Nobody == {}

\* A replayable topic.
WithReplay ==
    [t \in Topics |-> [maxRetries |-> Null, messageTTL |-> Null, maxDepth |-> Null,
                       replayable |-> TRUE, replayWindow |-> Null]]

AnyGroup == Permutations(Groups)

=============================================================================
