----------------------------- MODULE UserTokens -----------------------------
(***************************************************************************)
(* User accounts and the tokens issued for them: the seed at server start, *)
(* login and refresh, and the account operations an administrator's token  *)
(* admits.                                                                 *)
(*                                                                         *)
(* A token is what its claims say and the ticks it has left; nothing is    *)
(* kept of it at the server.  Passwords are left out: whoever knows one    *)
(* logs in, and a changed one ends no token.                               *)
(***************************************************************************)
EXTENDS Naturals

CONSTANTS
    Ids,        \* user ids; one is given once
    Usernames,
    SeedUser,   \* auth.username
    Sessions,   \* holders of a token: a browser, a program
    Servers,
    TokenTicks, \* TokenDuration
    RequestTicks, \* bound on the time of a login or refresh request
    MaxChanges, \* bound on the changes administrators make
    Null

ASSUME UserConstants ==
    /\ TokenTicks \in Nat \ {0} /\ RequestTicks \in Nat /\ MaxChanges \in Nat
    /\ SeedUser \in Usernames
    /\ Null \notin Ids

VARIABLES
    user,     \* the table users
    given,    \* ids given so far
    server,   \* start of each server
    session,  \* the token each session holds
    asking,   \* the row the login or refresh request under way has read
    lag,      \* ticks since a user was last an administrator (history)
    gone,     \* ticks since a user was deleted (history)
    changes   \* changes administrators made to the accounts

uvars == <<user, given, server, session, asking, lag, gone, changes>>

Existing == {u \in Ids : user[u] # Null}
IsAdmin(u) == user[u] # Null /\ user[u].admin

UCap == TokenTicks + RequestTicks

Account == [name : Usernames, admin : BOOLEAN]

ASSUME NullIsNoAccount == Null \notin Account

Token == [uid : Ids, adm : BOOLEAN, left : 1..TokenTicks]
Asked == [by : Sessions, uid : Ids, adm : BOOLEAN, age : 0..RequestTicks]

UInit ==
    /\ user = [u \in Ids |-> Null]
    /\ given = {}
    /\ server = [i \in Servers |-> "down"]
    /\ session = [s \in Sessions |-> Null]
    /\ asking = Null
    /\ lag = [u \in Ids |-> UCap]
    /\ gone = [u \in Ids |-> 0]
    /\ changes = 0

-----------------------------------------------------------------------------
(* Store *)

\* The unique index on username.
Taken(name, by) == \E u \in Existing \ {by} : user[u].name = name

\* A row is written; the history follows who is an administrator.
Write(u, row) ==
    /\ user' = [user EXCEPT ![u] = row]
    /\ lag' = [lag EXCEPT ![u] = IF row # Null /\ row.admin THEN 0 ELSE @]

\* INSERT; a row gets an id nobody had before.
Create(name, admin) ==
    /\ Ids # given
    /\ LET u == CHOOSE u \in Ids \ given : TRUE
       IN  Write(u, [name |-> name, admin |-> admin]) /\ given' = given \cup {u}

-----------------------------------------------------------------------------
(* SeedAdminUser, at the start of a server *)

\* The list of users; with none, the one the process is configured with is to be
\* created, and without a name and a password nothing is.
SeedList(i) ==
    /\ server[i] = "down"
    /\ \E configured \in BOOLEAN :
          server' = [server EXCEPT ![i] = IF Existing = {} /\ configured THEN "seeding" ELSE "up"]
    /\ UNCHANGED <<user, given, session, asking, lag, gone, changes>>

\* Another server may have been faster: ErrDuplicate is no error.
SeedCreate(i) ==
    /\ server[i] = "seeding"
    /\ IF Taken(SeedUser, Null) THEN UNCHANGED <<user, given, lag>>
                                ELSE Create(SeedUser, TRUE)
    /\ server' = [server EXCEPT ![i] = "up"]
    /\ UNCHANGED <<session, asking, gone, changes>>

Stop(i) ==
    /\ server[i] # "down"
    /\ server' = [server EXCEPT ![i] = "down"]
    /\ UNCHANGED <<user, given, session, asking, lag, gone, changes>>

Serving == \E i \in Servers : server[i] = "up"

-----------------------------------------------------------------------------
(* handleLogin, handleRefresh *)

\* The row is read, and the token made from it later: comparing the password
\* takes its time.  Requests do not meet, so one at a time is followed.
Ask(s, u, adm) ==
    /\ asking = Null
    /\ asking' = [by |-> s, uid |-> u, adm |-> adm, age |-> 0]

Login(s, u) ==
    /\ Serving
    /\ u \in Existing
    /\ Ask(s, u, user[u].admin)
    /\ UNCHANGED <<user, given, server, session, lag, gone, changes>>

\* Seeded fault: the claims of the old token are signed again.
RefreshFromClaims(s) ==
    /\ Serving
    /\ session[s] # Null
    /\ Ask(s, session[s].uid, session[s].adm)
    /\ UNCHANGED <<user, given, server, session, lag, gone, changes>>

\* A valid token is exchanged for a new one about the user as it is now.
Refresh(s) ==
    /\ Serving
    /\ session[s] # Null
    /\ session[s].uid \in Existing
    /\ Ask(s, session[s].uid, user[session[s].uid].admin)
    /\ UNCHANGED <<user, given, server, session, lag, gone, changes>>

IssueToken ==
    /\ asking # Null
    /\ session' = [session EXCEPT ![asking.by] =
                      [uid |-> asking.uid, adm |-> asking.adm, left |-> TokenTicks]]
    /\ asking' = Null
    /\ UNCHANGED <<user, given, server, lag, gone, changes>>

-----------------------------------------------------------------------------
(* The account routes *)

\* JWTMiddleware and requireAdmin: the claims decide, not the row.
requireAdmin(s) == Serving /\ session[s] # Null /\ session[s].adm

createUser(s, name, admin) ==
    /\ requireAdmin(s)
    /\ ~Taken(name, Null)
    /\ Create(name, admin)
    /\ changes < MaxChanges /\ changes' = changes + 1
    /\ UNCHANGED <<server, session, asking, gone>>

\* Each column is kept or set.
updateUser(s, u, name, admin) ==
    /\ requireAdmin(s)
    /\ u \in Existing
    /\ ~Taken(name, u)
    /\ Write(u, [name |-> name, admin |-> admin])
    /\ changes < MaxChanges /\ changes' = changes + 1
    /\ UNCHANGED <<given, server, session, asking, gone>>

\* Seeded fault: any account may be deleted, one's own too.
deleteAnyUser(s, u) ==
    /\ requireAdmin(s)
    /\ u \in Existing
    /\ Write(u, Null)
    /\ changes < MaxChanges /\ changes' = changes + 1
    /\ UNCHANGED <<given, server, session, asking, gone>>

\* Not one's own account.
deleteUser(s, u) ==
    /\ requireAdmin(s)
    /\ u \in Existing
    /\ session[s].uid # u
    /\ Write(u, Null)
    /\ changes < MaxChanges /\ changes' = changes + 1
    /\ UNCHANGED <<given, server, session, asking, gone>>

-----------------------------------------------------------------------------

UMin(a, b) == IF a < b THEN a ELSE b

\* A token whose time is up is refused by ParseToken everywhere.
UTick ==
    /\ asking # Null => asking.age < RequestTicks
    /\ asking' = IF asking = Null THEN Null ELSE [asking EXCEPT !.age = @ + 1]
    /\ session' = [s \in Sessions |->
                      IF session[s] = Null \/ session[s].left = 1 THEN Null
                      ELSE [session[s] EXCEPT !.left = @ - 1]]
    /\ lag' = [u \in Ids |-> IF IsAdmin(u) THEN 0 ELSE UMin(lag[u] + 1, UCap)]
    /\ gone' = [u \in Ids |-> IF u \in given \ Existing THEN UMin(gone[u] + 1, UCap) ELSE 0]
    /\ UNCHANGED <<user, given, server, changes>>

UNext ==
    \/ \E i \in Servers : SeedList(i) \/ SeedCreate(i) \/ Stop(i)
    \/ \E s \in Sessions :
          \/ Refresh(s)
          \/ \E u \in Ids : Login(s, u) \/ deleteUser(s, u)
          \/ \E name \in Usernames, admin \in BOOLEAN :
                createUser(s, name, admin) \/ \E u \in Ids : updateUser(s, u, name, admin)
    \/ IssueToken \/ UTick

-----------------------------------------------------------------------------
(* Properties *)

\* What the tables and the sessions hold; no two rows share a name.
UserTypeOK ==
    /\ user \in [Ids -> Account \cup {Null}]
    /\ Existing \subseteq given /\ given \subseteq Ids
    /\ \A u, v \in Existing : user[u].name = user[v].name => u = v
    /\ server \in [Servers -> {"down", "seeding", "up"}]
    /\ session \in [Sessions -> Token \cup {Null}]
    /\ asking \in Asked \cup {Null}

\* What a token says lags behind the accounts by no more than its age and the
\* time of the request that issued it, however often it is refreshed: a user who
\* is no administrator any more, or is deleted, gets no token asked for later.
ClaimsLag ==
    \A s \in Sessions :
        session[s] # Null =>
            LET age == TokenTicks - session[s].left
            IN  /\ session[s].adm => lag[session[s].uid] <= age + RequestTicks
                /\ gone[session[s].uid] <= age + RequestTicks

\* The accounts are not all deleted by a user who still has one: the last of them
\* goes only by a token that has outlived its own account, by less than the
\* lifetime of a token and the time of a request.  (With none left nobody logs in,
\* until a server starts that is configured with a first administrator.)
EmptiedByLateToken ==
    [][Existing # {} /\ Existing' = {} => \E v \in given \ Existing : gone[v] < UCap]_uvars

=============================================================================
