--------------------------- MODULE TokenRefresher ---------------------------
(***************************************************************************)
(* The token of a Go client: the store every call reads it from, SetToken, *)
(* and the goroutine that replaces it before it expires.                   *)
(*                                                                         *)
(* Time is relative: a token is the number of ticks it has left, 0 once it *)
(* has expired, and a sleep is the number of ticks it still lasts.         *)
(***************************************************************************)
EXTENDS Naturals

CONSTANTS
    TokenDuration, \* lifetime of a token the server issues
    AdvanceWindow, \* how long before the expiry the refresher wakes
    BackoffStart, BackoffMax, \* of the waits between failed refreshes
    CallTime,      \* the timeout of a refresh call
    Lifetimes,     \* tokens of the program: what it stores, or its own refresher answers
    Garbled,       \* a token whose expiry cannot be read, the empty one among them
    Tolerated,     \* failures in a row that must not matter
    CallBudget     \* time the calls of such a row may take together

ASSUME RefresherConstants ==
    /\ {TokenDuration, AdvanceWindow, BackoffStart, BackoffMax, CallTime, Tolerated, CallBudget}
         \subseteq Nat
    /\ 0 < BackoffStart /\ BackoffStart <= BackoffMax
    /\ AdvanceWindow + CallTime < TokenDuration
    /\ Lifetimes \subseteq (0..TokenDuration) \cup {Garbled}
    /\ Garbled \notin Nat

VARIABLES
    token,        \* the content of tokenStore
    pc,           \* where runRefresher is
    sleep,        \* what is left of its sleep, or the age of its call
    retryBackoff,
    closed,       \* Client.Close has cancelled the context
    failures,     \* refreshes that failed since the token was good enough to sleep on (history)
    spent,        \* ticks in calls since then; both as far as they matter (history)
    shortened,    \* the program's token ends before the last one (history)
    burst,        \* calls since the clock or the program last moved: 0, 1 or more (history)
    poor          \* poor answers of the refresher since then (history)

rvars == <<token, pc, sleep, retryBackoff, closed, failures, spent, shortened, burst, poor>>

Valid(t) == t # Garbled /\ t > 0

RInit ==
    /\ token \in Lifetimes
    /\ pc = "read" /\ sleep = 0
    /\ retryBackoff = BackoffStart
    /\ closed = FALSE
    /\ failures = 0 /\ spent = 0
    /\ shortened = (token # TokenDuration)
    /\ burst = 0 /\ poor = {}

-----------------------------------------------------------------------------
(* runRefresher *)

\* Nothing is left to do, or the refresher is called.
StartCall ==
    IF closed THEN pc' = "done" /\ UNCHANGED <<sleep, burst>>
              ELSE pc' = "call" /\ sleep' = 0 /\ burst' = IF burst = 0 THEN 1 ELSE 2

\* Seeded fault: the refresher wakes when the token expires.
RemainingToExpiry(t) == t

\* time.Until(exp) - advanceWindow, in the natural numbers.
Remaining(t) == IF t > AdvanceWindow THEN t - AdvanceWindow ELSE 0

\* Seeded fault: a token that cannot be read ends the refresher.
ReadOrReturn ==
    /\ pc = "read"
    /\ \/ /\ token = Garbled
          /\ pc' = "done" /\ UNCHANGED <<sleep, retryBackoff, failures, spent, burst>>
       \/ /\ token # Garbled /\ Remaining(token) > 0
          /\ pc' = "sleep" /\ sleep' = Remaining(token)
          /\ retryBackoff' = BackoffStart
          /\ failures' = 0 /\ spent' = 0
          /\ UNCHANGED burst
       \/ /\ token # Garbled /\ Remaining(token) = 0
          /\ StartCall
          /\ UNCHANGED <<retryBackoff, failures, spent>>
    /\ UNCHANGED <<token, closed, shortened, poor>>

\* The head of the loop: how long to sleep.
ReadExpiry ==
    /\ pc = "read"
    /\ \/ /\ token = Garbled
          /\ pc' = "sleep" /\ sleep' = retryBackoff
          /\ UNCHANGED <<retryBackoff, failures, spent, burst>>
       \/ /\ token # Garbled /\ Remaining(token) > 0
          /\ pc' = "sleep" /\ sleep' = Remaining(token)
          /\ retryBackoff' = BackoffStart
          /\ failures' = 0 /\ spent' = 0
          /\ UNCHANGED burst
       \/ /\ token # Garbled /\ Remaining(token) = 0
          /\ StartCall
          /\ UNCHANGED <<retryBackoff, failures, spent>>
    /\ UNCHANGED <<token, closed, shortened, poor>>

SleepOver ==
    /\ pc = "sleep" /\ sleep = 0
    /\ StartCall
    /\ UNCHANGED <<token, retryBackoff, closed, failures, spent, shortened, poor>>

\* A server's token, issued while the call ran.
Issued == {TokenDuration - age : age \in 0..sleep}

\* What is poor about an answer: the head of the loop finds no time to sleep, or
\* no expiry.
Poor(t) == IF t = Garbled THEN {"unreadable"} ELSE IF Remaining(t) = 0 THEN {"inside"} ELSE {}

\* Auth.Refresh logs in again, and answers "" where the server asks for no login;
\* the program's own refresher may answer with any token.
RefreshSucceeds ==
    /\ pc = "call"
    /\ \E t \in Issued \cup Lifetimes \cup {Garbled} :
          token' = t /\ shortened' = (t \notin Issued) /\ poor' = poor \cup Poor(t)
    /\ pc' = "read" /\ sleep' = 0
    /\ retryBackoff' = BackoffStart
    /\ failures' = 0 /\ spent' = 0
    /\ UNCHANGED <<closed, burst>>

More(n) == IF n > Tolerated THEN n ELSE n + 1

\* Seeded fault: the next attempt follows at once.
RetryAtOnce ==
    /\ pc = "call"
    /\ pc' = "wait" /\ sleep' = 0
    /\ failures' = More(failures)
    /\ UNCHANGED <<token, retryBackoff, closed, spent, shortened, burst, poor>>

RefreshFails ==
    /\ pc = "call"
    /\ IF closed THEN pc' = "done" /\ sleep' = 0 /\ UNCHANGED failures
                 ELSE pc' = "wait" /\ sleep' = retryBackoff /\ failures' = More(failures)
    /\ UNCHANGED <<token, retryBackoff, closed, spent, shortened, burst, poor>>

Doubled(b) == IF 2 * b > BackoffMax THEN BackoffMax ELSE 2 * b

WaitOver ==
    /\ pc = "wait" /\ sleep = 0
    /\ retryBackoff' = Doubled(retryBackoff)
    /\ pc' = "read"
    /\ UNCHANGED <<token, sleep, closed, failures, spent, shortened, burst, poor>>

\* Both waits watch the context.
CtxDone ==
    /\ closed /\ pc \in {"sleep", "wait"}
    /\ pc' = "done" /\ sleep' = 0
    /\ UNCHANGED <<token, retryBackoff, closed, failures, spent, shortened, burst, poor>>

Run ==
    \/ ReadExpiry \/ SleepOver \/ WaitOver \/ CtxDone
    \/ RefreshSucceeds \/ RefreshFails

-----------------------------------------------------------------------------
(* The program, and time *)

\* The sleep of the refresher still follows the token it read.
SetToken(t) ==
    /\ token' = t
    /\ shortened' = (shortened \/ t = Garbled \/ (token # Garbled /\ t < token))
    /\ burst' = 0 /\ poor' = {}
    /\ UNCHANGED <<pc, sleep, retryBackoff, closed, failures, spent>>

Close ==
    /\ ~closed
    /\ closed' = TRUE
    /\ UNCHANGED <<token, pc, sleep, retryBackoff, failures, spent, shortened, burst, poor>>

\* A sleep ends on time and a call by its timeout.  After the goroutine's end the
\* connection is closed and nobody asks for the token any more.
Tick ==
    /\ \/ /\ pc \in {"sleep", "wait"} /\ sleep > 0 /\ sleep' = sleep - 1
          /\ UNCHANGED spent
       \/ /\ pc = "call" /\ sleep < CallTime /\ sleep' = sleep + 1
          /\ spent' = IF spent > CallBudget THEN spent ELSE spent + 1
    /\ token' = IF Valid(token) THEN token - 1 ELSE token
    /\ burst' = 0 /\ poor' = {}
    /\ UNCHANGED <<pc, retryBackoff, closed, failures, shortened>>

RNext == Run \/ Close \/ Tick \/ \E t \in Lifetimes : SetToken(t)

\* Time passes and the goroutine runs; the program may do as it likes.
RFairness == WF_rvars(Run) /\ WF_rvars(Tick)

-----------------------------------------------------------------------------
(* Properties *)

\* What the store and the goroutine can hold; the backoff keeps its range.
RefresherTypeOK ==
    /\ token \in (0..TokenDuration) \cup {Garbled}
    /\ pc \in {"read", "sleep", "call", "wait", "done"}
    /\ sleep \in 0..(TokenDuration + BackoffMax)
    /\ retryBackoff \in BackoffStart..BackoffMax
    /\ {closed, shortened} \subseteq BOOLEAN
    /\ failures \in 0..(Tolerated + 1) /\ spent \in 0..(CallBudget + 1)
    /\ burst \in 0..2 /\ poor \subseteq {"inside", "unreadable"}

\* A client that is not closed always sends a token that is still good, as long
\* as no more than Tolerated refreshes fail in a row, the calls of the row take
\* no longer than CallBudget together, and the program neither stores nor answers
\* with a token that ends earlier than the one the sleep was computed from.
TokenStaysValid ==
    ~closed /\ ~shortened /\ failures <= Tolerated /\ spent <= CallBudget => Valid(token)

\* runRefresher calls its refresher twice in a row, without time passing or the
\* program changing the token, only when that refresher answers with a token
\* inside the advance window (then without a pause, for as long as it does): no
\* failure, no token it cannot read and no token of the server makes it spin.
NoBusyRefresh == burst <= 1 \/ "inside" \in poor

\* A token that is no good is replaced by a good one, whoever stored it, unless
\* refreshes fail or the refresher itself answers poorly.
TokenRecovers ==
    ~Valid(token) ~> (Valid(token) \/ closed \/ failures > Tolerated \/ poor # {})

\* The refresher is not called twice without a pause, whatever it answers.
\* (Not met: see README, Variations.)
NeverBusy == burst <= 1

=============================================================================
