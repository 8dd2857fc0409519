--------------------------- MODULE MCCredentials ---------------------------
(***************************************************************************)
(* A small deployment of the accounts and their tokens, of the grants of a *)
(* user, and of a client that keeps its token fresh.  They meet in the     *)
(* claims of a token only, so a behaviour follows one of them and leaves   *)
(* the others alone.                                                       *)
(***************************************************************************)
EXTENDS UserTokens, Permissions, TokenRefresher

VARIABLE followed

Names(n) == UNION {[1..k -> {"a", "."}] : k \in 1..n}

SomePatterns == {<<"*">>, <<"a">>, <<"a", ".", "*">>, <<".", "*">>, <<"a", "*">>}
SomeTopics == Names(3) \cup {<<"*">>, <<"a", ".", "*">>}

all == <<uvars, pvars, rvars, followed>>

CredentialsInit ==
    /\ UInit /\ PInit
    /\ followed \in {"accounts", "grants", "client"}
    /\ RInit /\ (followed # "client" => token = TokenDuration)

CredentialsNext ==
    \/ followed = "accounts" /\ UNext /\ UNCHANGED <<pvars, rvars, followed>>
    \/ followed = "grants" /\ PNext /\ UNCHANGED <<uvars, rvars, followed>>
    \/ followed = "client" /\ RNext /\ UNCHANGED <<uvars, pvars, followed>>

CredentialsSpec ==
    CredentialsInit /\ [][CredentialsNext]_all /\ (followed = "client" => RFairness)

=============================================================================
