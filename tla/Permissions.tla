----------------------------- MODULE Permissions -----------------------------
(***************************************************************************)
(* The grants of users and the decisions taken from them.  A topic and a   *)
(* topic pattern are sequences of characters, because the pattern is       *)
(* matched by its text.                                                    *)
(***************************************************************************)
EXTENDS Naturals, Sequences, SequencesExt

CONSTANTS
    GrantIds,   \* ids of grants; one is given once
    Actions,    \* the actions an administrator grants
    Patterns,   \* topic patterns of grants
    Topics,
    Groups,     \* consumer groups
    NoGroup,    \* a request without a group, a grant of another action
    NoGrant

ASSUME PermissionConstants ==
    /\ Actions \subseteq {"read", "write", "admin"}
    /\ Patterns \cup Topics \subseteq Seq(STRING)
    /\ NoGroup \notin Groups

VARIABLES
    account,  \* whether the user's account exists
    grant     \* the table user_grants, for this user

pvars == <<account, grant>>

Grant == [action : Actions \cup {"consume"}, pattern : Patterns, group : Groups \cup {NoGroup}]

Grants == {grant[g] : g \in {h \in GrantIds : grant[h] # NoGrant}}

PInit ==
    /\ account = TRUE
    /\ grant = [g \in GrantIds |-> NoGrant]

-----------------------------------------------------------------------------
(* Decisions *)

AnyTopic == <<"*">>
Below == <<".", "*">>

\* Seeded fault: the dot is cut off with the star.
MatchesText(pattern, topic) ==
    \/ pattern = AnyTopic
    \/ IF IsSuffix(Below, pattern) THEN IsPrefix(SubSeq(pattern, 1, Len(pattern) - 2), topic)
                                   ELSE pattern = topic

MatchesPattern(pattern, topic) ==
    \/ pattern = AnyTopic
    \/ IF IsSuffix(Below, pattern) THEN IsPrefix(Front(pattern), topic) ELSE pattern = topic

HasGrant(grants, action, topic) ==
    \E g \in grants : g.action = action /\ MatchesPattern(g.pattern, topic)

HasDequeueAccess(grants, topic) ==
    HasGrant(grants, "write", topic) \/ HasGrant(grants, "consume", topic)

\* A consume grant for the topic restricts its user to the groups granted.
HasConsumerGroupAccess(grants, topic, group) ==
    LET consume == {g \in grants : g.action = "consume" /\ MatchesPattern(g.pattern, topic)}
    IN  consume = {} \/ \E g \in consume : g.group = group

\* The claims of a call are those of an "admin", of this "user", or "none".  The
\* gRPC server: UnaryInterceptor lets no unary call through without claims, and a
\* stream passes no interceptor, so Subscribe is asked with none.
checkGrant(claims, action, topic) == claims # "user" \/ HasGrant(Grants, action, topic)

checkDequeueGrant(claims, topic, group) ==
    \/ claims # "user"
    \/ /\ HasDequeueAccess(Grants, topic)
       /\ group # NoGroup => HasConsumerGroupAccess(Grants, topic, group)

\* The HTTP middleware: by the topic of the request, or of the message it names.
\* The routes ask for "read" and "write"; those for configurations, schemas and
\* statistics ask for an administrator, and no route for a grant of "admin".
requireGrant(claims, action, topic) ==
    claims = "admin" \/ (claims = "user" /\ HasGrant(Grants, action, topic))

requireDequeueGrant(claims, topic, group) ==
    \/ claims = "admin"
    \/ claims = "user" /\ ~ \/ ~HasDequeueAccess(Grants, topic)
                            \/ group # NoGroup /\ ~HasConsumerGroupAccess(Grants, topic, group)

-----------------------------------------------------------------------------
(* Operations *)

\* A row with a reference to the user.
Insert(row) ==
    /\ account
    /\ \E g \in GrantIds : grant[g] = NoGrant
    /\ grant' = [grant EXCEPT ![CHOOSE g \in GrantIds : grant[g] = NoGrant] = row]
    /\ UNCHANGED account

\* An omitted pattern is "*"; the same grant may be given twice.
addUserGrant(action, pattern) ==
    Insert([action |-> action, pattern |-> pattern, group |-> NoGroup])

\* The unique index on consume grants refuses a second one.
addConsumerGroupGrant(pattern, group) ==
    LET row == [action |-> "consume", pattern |-> pattern, group |-> group]
    IN  row \notin Grants /\ Insert(row)

deleteUserGrant(g) ==
    /\ grant[g] # NoGrant
    /\ grant' = [grant EXCEPT ![g] = NoGrant]
    /\ UNCHANGED account

\* ON DELETE CASCADE
DeleteAccount ==
    /\ account
    /\ account' = FALSE
    /\ grant' = [g \in GrantIds |-> NoGrant]

PNext ==
    \/ \E p \in Patterns :
          \/ \E a \in Actions : addUserGrant(a, p)
          \/ \E c \in Groups : addConsumerGroupGrant(p, c)
    \/ \E g \in GrantIds : deleteUserGrant(g)
    \/ DeleteAccount

-----------------------------------------------------------------------------
(* Properties *)

\* What the table holds: grants of an account that exists, and a consume grant
\* once, so that deleting it takes the group away.
GrantTypeOK ==
    /\ grant \in [GrantIds -> Grant \cup {NoGrant}]
    /\ ~account => Grants = {}
    /\ \A g, h \in GrantIds :
          grant[g] # NoGrant /\ grant[g] = grant[h] /\ grant[g].action = "consume" => g = h

\* Where the parts of a name begin: at its first character and behind its dots.
Starts(name) == {1} \cup {i + 1 : i \in {j \in DOMAIN name : name[j] = "."}}

\* The part that begins at a position, up to the next dot.
Part(name, i) == [k \in {k \in i..Len(name) : \A j \in i..k : name[j] # "."} |-> name[k]]

Parts(name) == [i \in Starts(name) |-> Part(name, i)]

\* What a pattern means, part by part: a last part "*" stands for one or more
\* parts, every other for itself.  (So "orders.*" leaves out "orders", as the
\* tests of MatchesPattern have it.)
Covers(pattern, topic) ==
    LET last == Len(pattern)
    IN  IF last \in Starts(pattern) /\ pattern[last] = "*"
        THEN \A i \in Starts(pattern) :
                 i \in Starts(topic) /\ (i # last => Part(topic, i) = Part(pattern, i))
        ELSE Parts(topic) = Parts(pattern)

\* What the two servers decide for a call with the claims of a user: it reads and
\* writes by the grants of that action; without a consume grant for the topic a
\* writer consumes from any group, and with one the user consumes from the groups
\* granted and from no other, whether or not a write grant exists too.  A topic is
\* covered part by part, whatever the text of the pattern, and whatever grants
\* were given and taken back before.  (A call without claims is not decided by
\* grants, and a grant of "admin" decides nothing.)
GrantsDecide ==
    \A t \in Topics :
        LET held == {g \in Grants : Covers(g.pattern, t)}
            granted == {g.group : g \in {h \in held : h.action = "consume"}}
            writes == \E g \in held : g.action = "write"
            reads == \E g \in held : g.action = "read"
            Consumes(c) == IF c = NoGroup THEN writes \/ granted # {}
                           ELSE IF granted = {} THEN writes ELSE c \in granted
        IN  /\ requireGrant("user", "read", t) <=> reads
            /\ requireGrant("user", "write", t) <=> writes
            /\ checkGrant("user", "write", t) <=> writes
            /\ \A c \in Groups \cup {NoGroup} :
                  /\ checkDequeueGrant("user", t, c) <=> Consumes(c)
                  /\ requireDequeueGrant("user", t, c) <=> Consumes(c)

\* docs/guide/authentication.md: the pattern "orders.*" matches "orders" as well
\* as the topics below it.  (Not met: see README, Variations.)
GlobCoversRoot ==
    \A g \in Grants : \A t \in Topics :
        g.pattern = t \o Below => checkGrant("user", g.action, t)

=============================================================================
