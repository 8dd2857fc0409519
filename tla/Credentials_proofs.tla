-------------------------- MODULE Credentials_proofs --------------------------
(***************************************************************************)
(* Proofs about the tokens, for any lifetimes and numbers of users, servers*)
(* and sessions: what a token claims against the accounts, who deletes the *)
(* last of them, and the refresher of the Go client.  And about the grants,*)
(* for patterns and topics of any length: what is decided from their text  *)
(* is what their parts mean.                                               *)
(***************************************************************************)
EXTENDS UserTokens, TokenRefresher, Permissions, FiniteSetTheorems, SequenceTheorems,
        TLAPS

-----------------------------------------------------------------------------
(* The refresher of the Go client *)

\* What the refresher's variables hold; a call is no older than its timeout, and
\* the goroutine ends only after Close.
RefresherShape ==
    /\ token \in (0..TokenDuration) \cup {Garbled}
    /\ pc \in {"read", "sleep", "call", "wait", "done"}
    /\ sleep \in Nat
    /\ pc = "call" => sleep <= CallTime
    /\ retryBackoff \in BackoffStart..BackoffMax
    /\ failures \in 0..(Tolerated + 1)
    /\ spent \in 0..(CallBudget + 1)
    /\ burst \in 0..2
    /\ pc = "done" => closed

\* The constants, as numbers.
LEMMA RefresherNumbers ==
    /\ TokenDuration \in Nat /\ AdvanceWindow \in Nat /\ CallTime \in Nat /\ Tolerated \in Nat
    /\ CallBudget \in Nat /\ BackoffStart \in Nat /\ BackoffMax \in Nat
    /\ 0 < BackoffStart /\ BackoffStart <= BackoffMax
    /\ AdvanceWindow + CallTime < TokenDuration
    /\ Garbled \notin Nat
    /\ \A t \in Lifetimes : t \in (0..TokenDuration) \cup {Garbled}
  BY RefresherConstants

\* The next wait of runRefresher stays within its range.
LEMMA DoubledRange ==
    ASSUME NEW b \in BackoffStart..BackoffMax
    PROVE  Doubled(b) \in BackoffStart..BackoffMax
  BY RefresherNumbers DEF Doubled

\* A token the server issues during a call has more than the advance window left.
LEMMA IssuedIsFresh ==
    ASSUME RefresherShape, pc = "call", NEW t \in Issued
    PROVE  t \in 0..TokenDuration /\ t > AdvanceWindow
  <1>1. PICK age \in 0..sleep : t = TokenDuration - age
    BY DEF Issued
  <1>2. sleep \in Nat /\ sleep <= CallTime
    BY DEF RefresherShape
  <1> QED
    BY <1>1, <1>2, RefresherNumbers

\* What a refresh stores: a token; and one of the server's is fresh.
LEMMA Answered ==
    ASSUME RefresherShape, RefreshSucceeds
    PROVE  /\ token' \in (0..TokenDuration) \cup {Garbled}
           /\ ~shortened' => token' \in 0..TokenDuration /\ token' > AdvanceWindow
           /\ poor' = poor \cup Poor(token')
  <1>1. PICK t \in Issued \cup Lifetimes \cup {Garbled} :
            token' = t /\ shortened' = (t \notin Issued) /\ poor' = poor \cup Poor(t)
    BY DEF RefreshSucceeds
  <1>2. pc = "call"
    BY DEF RefreshSucceeds
  <1>3. t \in Issued => t \in 0..TokenDuration /\ t > AdvanceWindow
    BY <1>2, IssuedIsFresh
  <1>4. t \in (0..TokenDuration) \cup {Garbled}
    BY <1>3, RefresherNumbers
  <1> QED
    BY <1>1, <1>3, <1>4

\* RefresherShape holds throughout.
LEMMA ShapeOfRefresher == RInit /\ [][RNext]_rvars => []RefresherShape
  <1>1. RInit => RefresherShape
    BY RefresherNumbers DEF RInit, RefresherShape
  <1>2. RefresherShape /\ [RNext]_rvars => RefresherShape'
    <2> SUFFICES ASSUME RefresherShape, [RNext]_rvars PROVE RefresherShape'
      OBVIOUS
    <2> USE RefresherNumbers
    <2>1. CASE ReadExpiry
      <3>1. CASE token = Garbled
        BY <2>1, <3>1 DEF ReadExpiry, RefresherShape, Remaining
      <3>2. CASE token # Garbled /\ Remaining(token) > 0
        BY <2>1, <3>2 DEF ReadExpiry, RefresherShape, Remaining
      <3>3. CASE token # Garbled /\ ~(Remaining(token) > 0)
        BY <2>1, <3>3 DEF ReadExpiry, RefresherShape, StartCall
      <3> QED
        BY <3>1, <3>2, <3>3
    <2>2. CASE SleepOver
      BY <2>2 DEF SleepOver, StartCall, RefresherShape
    <2>3. CASE RefreshSucceeds
      BY <2>3, Answered DEF RefreshSucceeds, RefresherShape
    <2>4. CASE RefreshFails
      BY <2>4 DEF RefreshFails, More, RefresherShape
    <2>5. CASE WaitOver
      BY <2>5, DoubledRange DEF WaitOver, RefresherShape
    <2>6. CASE CtxDone
      BY <2>6 DEF CtxDone, RefresherShape
    <2>7. CASE Close
      BY <2>7 DEF Close, RefresherShape
    <2>8. CASE Tick
      BY <2>8 DEF Tick, Valid, RefresherShape
    <2>9. CASE \E t \in Lifetimes : SetToken(t)
      BY <2>9 DEF SetToken, RefresherShape
    <2>10. CASE UNCHANGED rvars
      BY <2>10 DEF rvars, RefresherShape
    <2> QED
      BY <2>1, <2>2, <2>3, <2>4, <2>5, <2>6, <2>7, <2>8, <2>9, <2>10 DEF RNext, Run
  <1> QED
    BY <1>1, <1>2, PTL

\* After a call without a tick, and with no answer from inside the window, the
\* goroutine has a wait of its own before the next one.
PauseInv ==
    "inside" \notin poor =>
        /\ burst <= 1
        /\ burst = 1 =>
              /\ pc = "read" => token = Garbled \/ Remaining(token) > 0
              /\ pc \in {"sleep", "wait"} => sleep > 0

\* NoBusyRefresh, for every advance window, lifetime and backoff that
\* StartTokenRefresher can be used with and every answer of the refresher: a
\* failed call, an unreadable token and a token from outside the window are each
\* followed by a pause.
THEOREM NoBusyRefreshHolds == RInit /\ [][RNext]_rvars => []NoBusyRefresh
  <1>1. RInit => PauseInv
    BY DEF RInit, PauseInv
  <1>2. RefresherShape /\ PauseInv /\ [RNext]_rvars => PauseInv'
    <2> SUFFICES ASSUME RefresherShape, PauseInv, [RNext]_rvars PROVE PauseInv'
      OBVIOUS
    <2> USE RefresherNumbers
    <2>1. CASE ReadExpiry
      <3>1. CASE token = Garbled
        BY <2>1, <3>1 DEF ReadExpiry, RefresherShape, PauseInv
      <3>2. CASE token # Garbled /\ Remaining(token) > 0
        BY <2>1, <3>2 DEF ReadExpiry, RefresherShape, PauseInv
      <3>3. CASE token # Garbled /\ ~(Remaining(token) > 0)
        BY <2>1, <3>3 DEF ReadExpiry, RefresherShape, StartCall, PauseInv
      <3> QED
        BY <3>1, <3>2, <3>3
    <2>2. CASE SleepOver
      BY <2>2 DEF SleepOver, StartCall, RefresherShape, PauseInv
    <2>3. CASE RefreshSucceeds
      <3>1. /\ pc' = "read" /\ burst' = burst
            /\ poor' = poor \cup Poor(token')
            /\ token' \in (0..TokenDuration) \cup {Garbled}
        BY <2>3, Answered DEF RefreshSucceeds
      <3>2. CASE "inside" \in poor'
        BY <3>2 DEF PauseInv
      <3>3. CASE "inside" \notin poor'
        <4>1. "inside" \notin poor /\ "inside" \notin Poor(token')
          BY <3>1, <3>3
        <4>2. token' = Garbled \/ Remaining(token') # 0
          BY <4>1 DEF Poor
        <4>r. ASSUME NEW t \in Nat, Remaining(t) # 0 PROVE Remaining(t) > 0
          BY <4>r DEF Remaining
        <4>3. token' = Garbled \/ Remaining(token') > 0
          <5>1. token' = Garbled \/ token' \in Nat
            BY <3>1
          <5> QED
            BY <4>2, <4>r, <5>1
        <4>4. burst' <= 1
          BY <3>1, <4>1 DEF PauseInv
        <4>5. pc' \notin {"sleep", "wait"}
          BY <3>1
        <4> QED
          BY <4>3, <4>4, <4>5 DEF PauseInv
      <3> QED
        BY <3>2, <3>3
    <2>4. CASE RefreshFails
      BY <2>4 DEF RefreshFails, RefresherShape, PauseInv
    <2>5. CASE WaitOver
      BY <2>5 DEF WaitOver, RefresherShape, PauseInv
    <2>6. CASE CtxDone
      BY <2>6 DEF CtxDone, RefresherShape, PauseInv
    <2>7. CASE Close
      BY <2>7 DEF Close, RefresherShape, PauseInv
    <2>8. CASE Tick
      BY <2>8 DEF Tick, RefresherShape, PauseInv
    <2>9. CASE \E t \in Lifetimes : SetToken(t)
      BY <2>9 DEF SetToken, RefresherShape, PauseInv
    <2>10. CASE UNCHANGED rvars
      BY <2>10 DEF rvars, PauseInv
    <2> QED
      BY <2>1, <2>2, <2>3, <2>4, <2>5, <2>6, <2>7, <2>8, <2>9, <2>10 DEF RNext, Run
  <1>3. PauseInv => NoBusyRefresh
    BY DEF PauseInv, NoBusyRefresh
  <1> QED
    BY <1>1, <1>2, <1>3, ShapeOfRefresher, PTL

\* The waits between failures in a row, and what a token must still be good for
\* beside the calls when the call after n failures starts: the waits to come.
\* The waits and the budget of the calls have to fit into the advance window.
FitsWindow(wait, need) ==
    /\ wait \in [0..Tolerated -> BackoffStart..BackoffMax]
    /\ need \in [0..Tolerated -> Nat]
    /\ wait[0] = BackoffStart
    /\ \A n \in 0..Tolerated :
          /\ need[n] + CallBudget < AdvanceWindow
          /\ n < Tolerated => /\ wait[n + 1] = Doubled(wait[n])
                              /\ need[n] = wait[n] + need[n + 1]

\* The promise of TokenStaysValid applies.
Protected == ~closed /\ ~shortened /\ failures <= Tolerated /\ spent <= CallBudget

\* What is left of the token covers what the goroutine is about to do.
CoverInv(wait, need) ==
    Protected =>
        /\ token \in Nat
        /\ pc = "wait" => /\ failures > 0
                          /\ retryBackoff <= wait[failures - 1]
                          /\ token + spent > sleep + need[failures] + CallBudget
        /\ pc # "wait" => retryBackoff <= wait[failures]
        /\ pc \in {"read", "call"} => token + spent > need[failures] + CallBudget
        /\ pc = "sleep" => token >= sleep + AdvanceWindow

\* A longer wait doubles to a longer wait.
LEMMA DoubledMonotone ==
    ASSUME NEW a \in Nat, NEW b \in Nat, a <= b
    PROVE  Doubled(a) <= Doubled(b)
  BY RefresherNumbers DEF Doubled

\* TokenStaysValid, for every choice of lifetimes, window, backoff, timeout,
\* number of failures in a row and budget of the calls for which FitsWindow
\* holds: the waits of runRefresher and its calls use up no more than the window.
THEOREM TokenStaysValidHolds ==
    ASSUME NEW wait, NEW need, FitsWindow(wait, need)
    PROVE  RInit /\ [][RNext]_rvars => []TokenStaysValid
  <1> DEFINE Cover == CoverInv(wait, need)
  <1>0. /\ \A n \in 0..Tolerated : wait[n] \in Nat /\ BackoffStart <= wait[n] /\ need[n] \in Nat
        /\ \A n \in 0..Tolerated : need[n] + CallBudget < AdvanceWindow
        /\ \A n \in 0..Tolerated : n < Tolerated =>
              wait[n + 1] = Doubled(wait[n]) /\ need[n] = wait[n] + need[n + 1]
        /\ wait[0] = BackoffStart
    BY RefresherNumbers DEF FitsWindow
  <1>z. need[0] \in Nat /\ need[0] + CallBudget < AdvanceWindow /\ wait[0] = BackoffStart
    BY <1>0, RefresherNumbers
  <1>1. RInit => Cover
    <2> SUFFICES ASSUME RInit, Protected PROVE Cover
      BY DEF CoverInv
    <2>3. /\ token = TokenDuration /\ pc = "read" /\ failures = 0 /\ spent = 0
          /\ retryBackoff = BackoffStart
      BY DEF RInit, Protected
    <2> QED
      BY <1>z, <2>3, RefresherNumbers DEF CoverInv
  <1>2. RefresherShape /\ Cover /\ [RNext]_rvars => Cover'
    <2> SUFFICES ASSUME RefresherShape, CoverInv(wait, need), [RNext]_rvars, Protected'
                 PROVE  /\ token' \in Nat
                        /\ pc' = "wait" =>
                              /\ failures' > 0
                              /\ retryBackoff' <= wait[failures' - 1]
                              /\ token' + spent' > sleep' + need[failures'] + CallBudget
                        /\ pc' # "wait" => retryBackoff' <= wait[failures']
                        /\ pc' \in {"read", "call"} =>
                              token' + spent' > need[failures'] + CallBudget
                        /\ pc' = "sleep" => token' >= sleep' + AdvanceWindow
      BY DEF CoverInv
    <2> USE RefresherNumbers
    <2>0. /\ token \in (0..TokenDuration) \cup {Garbled} /\ sleep \in Nat
          /\ retryBackoff \in Nat /\ failures \in Nat /\ spent \in Nat
          /\ pc \in {"read", "sleep", "call", "wait", "done"}
          /\ pc = "done" => closed
      BY DEF RefresherShape
    <2>a. ASSUME ~shortened, ~closed, failures <= Tolerated, spent <= CallBudget
          PROVE  /\ token \in Nat /\ failures \in 0..Tolerated
                 /\ pc = "wait" => /\ failures > 0
                                   /\ retryBackoff <= wait[failures - 1]
                                   /\ token + spent > sleep + need[failures] + CallBudget
                 /\ pc # "wait" => retryBackoff <= wait[failures]
                 /\ pc \in {"read", "call"} => token + spent > need[failures] + CallBudget
                 /\ pc = "sleep" => token >= sleep + AdvanceWindow
      BY <2>a, <2>0 DEF CoverInv, Protected
    <2>1. CASE ReadExpiry
      <3>1. UNCHANGED <<token, closed, shortened>> /\ pc = "read" /\ ~closed /\ ~shortened
        BY <2>1 DEF ReadExpiry, Protected
      <3>3. CASE token # Garbled /\ Remaining(token) > 0
        <4>1. /\ pc' = "sleep" /\ sleep' = token - AdvanceWindow /\ retryBackoff' = BackoffStart
              /\ failures' = 0
          BY <2>1, <3>3 DEF ReadExpiry, Remaining
        <4> QED
          BY <1>z, <2>0, <3>1, <3>3, <4>1 DEF Remaining
      <3>4. CASE ~(token # Garbled /\ Remaining(token) > 0)
        <4>1. UNCHANGED <<failures, spent>>
          BY <2>1, <3>4 DEF ReadExpiry
        <4>2. /\ token \in Nat /\ failures \in 0..Tolerated
              /\ token + spent > need[failures] + CallBudget /\ retryBackoff <= wait[failures]
          BY <2>a, <3>1, <4>1 DEF Protected
        <4>3. pc' = "call" /\ sleep' = 0 /\ retryBackoff' = retryBackoff
          BY <2>1, <3>1, <3>4, <4>2 DEF ReadExpiry, StartCall
        <4> QED
          BY <3>1, <4>1, <4>2, <4>3
      <3> QED
        BY <3>3, <3>4
    <2>2. CASE SleepOver
      <3>1. /\ UNCHANGED <<token, retryBackoff, closed, failures, spent, shortened>>
            /\ pc = "sleep" /\ sleep = 0
        BY <2>2 DEF SleepOver
      <3>2. pc' = "call" /\ sleep' = 0
        BY <2>2, <3>1 DEF SleepOver, StartCall, Protected
      <3>3. /\ token \in Nat /\ failures \in 0..Tolerated
            /\ retryBackoff <= wait[failures] /\ token >= AdvanceWindow
        BY <2>a, <3>1 DEF Protected
      <3>4. need[failures] \in Nat /\ need[failures] + CallBudget < AdvanceWindow
        BY <1>0, <3>3
      <3> QED
        BY <2>0, <3>1, <3>2, <3>3, <3>4
    <2>3. CASE RefreshSucceeds
      <3>1. token' \in Nat /\ token' > AdvanceWindow
        BY <2>3, Answered DEF Protected
      <3>2. pc' = "read" /\ failures' = 0 /\ spent' = 0 /\ retryBackoff' = BackoffStart
        BY <2>3 DEF RefreshSucceeds
      <3> QED
        BY <1>z, <3>1, <3>2
    <2>4. CASE RefreshFails
      <3>1. /\ UNCHANGED <<token, retryBackoff, closed, spent, shortened>> /\ pc = "call"
            /\ pc' = "wait" /\ sleep' = retryBackoff /\ failures' = More(failures)
        BY <2>4 DEF RefreshFails, Protected
      <3>2. failures < Tolerated /\ failures' = failures + 1
        BY <2>0, <3>1 DEF Protected, More
      <3>a. failures <= Tolerated /\ ~shortened /\ ~closed /\ spent <= CallBudget
        BY <2>0, <3>1, <3>2 DEF Protected
      <3>3. /\ token \in Nat /\ failures \in 0..Tolerated
            /\ retryBackoff <= wait[failures] /\ token + spent > need[failures] + CallBudget
        BY <2>a, <3>1, <3>a
      <3>4. need[failures] = wait[failures] + need[failures + 1]
        BY <1>0, <3>2, <3>3
      <3>5. wait[failures] \in Nat /\ need[failures] \in Nat /\ need[failures + 1] \in Nat
        BY <1>0, <3>2, <3>3
      <3>7. token + spent > retryBackoff + need[failures + 1] + CallBudget
        BY <2>0, <3>3, <3>4, <3>5
      <3>8. failures' - 1 = failures
        BY <3>2, <3>3
      <3> QED
        BY <3>1, <3>2, <3>3, <3>7, <3>8
    <2>5. CASE WaitOver
      <3>1. /\ UNCHANGED <<token, sleep, closed, failures, spent, shortened>>
            /\ pc = "wait" /\ sleep = 0 /\ pc' = "read"
            /\ retryBackoff' = Doubled(retryBackoff)
        BY <2>5 DEF WaitOver
      <3>2. /\ token \in Nat /\ failures \in 0..Tolerated /\ failures > 0
            /\ retryBackoff <= wait[failures - 1]
            /\ token + spent > sleep + need[failures] + CallBudget
        BY <2>a, <3>1 DEF Protected
      <3>3. /\ failures - 1 \in 0..Tolerated /\ failures - 1 < Tolerated
            /\ (failures - 1) + 1 = failures
        BY <3>2
      <3>4. wait[failures] = Doubled(wait[failures - 1]) /\ wait[failures - 1] \in Nat
        BY <1>0, <3>3
      <3>5. Doubled(retryBackoff) <= wait[failures]
        BY <2>0, <3>2, <3>4, DoubledMonotone
      <3>6. token + spent > need[failures] + CallBudget
        BY <1>0, <3>1, <3>2
      <3> QED
        BY <3>1, <3>2, <3>5, <3>6
    <2>6. CASE CtxDone
      BY <2>6 DEF CtxDone, Protected
    <2>7. CASE Close
      BY <2>7 DEF Close, Protected
    <2>8. CASE Tick
      <3>1. UNCHANGED <<pc, retryBackoff, closed, failures, shortened>>
        BY <2>8 DEF Tick
      <3>s. spent <= CallBudget
        BY <2>0, <2>8 DEF Tick, Protected
      <3>2. /\ token \in Nat /\ failures \in 0..Tolerated
            /\ pc = "wait" => /\ failures > 0
                              /\ retryBackoff <= wait[failures - 1]
                              /\ token + spent > sleep + need[failures] + CallBudget
            /\ pc # "wait" => retryBackoff <= wait[failures]
            /\ pc \in {"read", "call"} => token + spent > need[failures] + CallBudget
            /\ pc = "sleep" => token >= sleep + AdvanceWindow
        BY <2>a, <3>1, <3>s DEF Protected
      <3>4. need[failures] \in Nat
        BY <1>0, <3>2
      <3>5. CASE pc \in {"sleep", "wait"} /\ sleep > 0 /\ sleep' = sleep - 1 /\ spent' = spent
        <4>1. token > 0 /\ token' = token - 1
          BY <2>0, <2>8, <3>s, <3>2, <3>4, <3>5 DEF Tick, Valid
        <4> QED
          BY <2>0, <3>1, <3>2, <3>4, <3>5, <4>1
      <3>6. CASE pc = "call" /\ spent' = IF spent > CallBudget THEN spent ELSE spent + 1
        <4>1. spent' = spent + 1
          BY <2>0, <3>s, <3>6
        <4>2. token > 0 /\ token' = token - 1
          BY <2>0, <2>8, <3>s, <3>2, <3>4, <3>6 DEF Tick, Valid
        <4> QED
          BY <2>0, <3>1, <3>2, <3>4, <3>6, <4>1, <4>2
      <3> QED
        BY <2>8, <3>5, <3>6 DEF Tick
    <2>9. ASSUME NEW t \in Lifetimes, SetToken(t)
          PROVE  /\ token' \in Nat
                 /\ pc' = "wait" => /\ failures' > 0
                                    /\ retryBackoff' <= wait[failures' - 1]
                                    /\ token' + spent' > sleep' + need[failures'] + CallBudget
                 /\ pc' # "wait" => retryBackoff' <= wait[failures']
                 /\ pc' \in {"read", "call"} => token' + spent' > need[failures'] + CallBudget
                 /\ pc' = "sleep" => token' >= sleep' + AdvanceWindow
      <3>1. /\ UNCHANGED <<pc, sleep, retryBackoff, closed, failures, spent>> /\ token' = t
            /\ ~shortened /\ t # Garbled /\ ~(token # Garbled /\ t < token)
        BY <2>9 DEF SetToken, Protected
      <3>2. /\ token \in Nat /\ failures \in 0..Tolerated
            /\ pc = "wait" => /\ failures > 0
                              /\ retryBackoff <= wait[failures - 1]
                              /\ token + spent > sleep + need[failures] + CallBudget
            /\ pc # "wait" => retryBackoff <= wait[failures]
            /\ pc \in {"read", "call"} => token + spent > need[failures] + CallBudget
            /\ pc = "sleep" => token >= sleep + AdvanceWindow
        BY <2>a, <3>1 DEF Protected
      <3>3. t \in Nat /\ token <= t
        BY <3>1, <3>2
      <3>4. need[failures] \in Nat
        BY <1>0, <3>2
      <3> QED
        BY <2>0, <3>1, <3>2, <3>3, <3>4
    <2>10. CASE UNCHANGED rvars
      BY <2>10, <2>a DEF rvars, Protected
    <2> QED
      BY <2>1, <2>2, <2>3, <2>4, <2>5, <2>6, <2>7, <2>8, <2>9, <2>10 DEF RNext, Run
  <1>3. RefresherShape /\ Cover => TokenStaysValid
    <2> SUFFICES ASSUME RefresherShape, CoverInv(wait, need), Protected
                 PROVE  Valid(token)
      BY DEF TokenStaysValid, Protected
    <2>1. failures \in 0..Tolerated /\ sleep \in Nat /\ spent \in Nat /\ spent <= CallBudget
      BY DEF RefresherShape, Protected
    <2>2. need[failures] \in Nat
      BY <1>0, <2>1
    <2>3. pc \in {"read", "sleep", "call", "wait"}
      BY DEF RefresherShape, Protected
    <2>4. AdvanceWindow > 0
      BY <1>0, <2>1, RefresherNumbers
    <2> QED
      BY <2>1, <2>2, <2>3, <2>4, RefresherNumbers DEF CoverInv, Valid
  <1> HIDE DEF Cover
  <1> QED
    BY <1>1, <1>2, <1>3, ShapeOfRefresher, PTL

-----------------------------------------------------------------------------
(* Accounts and the claims of tokens *)

\* What the table, the tokens and the request under way hold.  Time since the
\* deletion runs only for accounts that are gone for good.
AccountShape ==
    /\ user \in [Ids -> Account \cup {Null}]
    /\ given \subseteq Ids
    /\ \A u \in Ids : user[u] # Null => u \in given
    /\ session \in [Sessions -> Token \cup {Null}]
    /\ asking \in Asked \cup {Null}
    /\ lag \in [Ids -> Nat] /\ gone \in [Ids -> Nat]
    /\ \A u \in Ids : IsAdmin(u) => lag[u] = 0
    /\ \A u \in Ids : gone[u] # 0 => u \in given /\ user[u] = Null

\* What the request under way has read is as old as the request at most.
AskedLag ==
    asking # Null =>
        /\ asking.adm => lag[asking.uid] <= asking.age
        /\ gone[asking.uid] <= asking.age

\* The inductive strengthening of ClaimsLag.
LagInv == AccountShape /\ AskedLag /\ ClaimsLag

\* The constants, as numbers.
LEMMA TokenNumbers == TokenTicks \in Nat /\ TokenTicks > 0 /\ RequestTicks \in Nat /\ MaxChanges \in Nat
  BY UserConstants

\* A change of the accounts takes no token and no request back: a user who stays
\* or becomes an administrator has no lag, and nobody else's grows.
LEMMA WriteKeepsLag ==
    ASSUME LagInv, NEW u \in Ids, NEW row \in Account \cup {Null}, Write(u, row),
           UNCHANGED <<session, asking, gone>>,
           \/ given' = given /\ u \in given
           \/ given' = given \cup {u} /\ u \notin given,
           gone[u] = 0
    PROVE  LagInv'
  <1>0. /\ user \in [Ids -> Account \cup {Null}] /\ lag \in [Ids -> Nat] /\ gone \in [Ids -> Nat]
        /\ given \subseteq Ids
        /\ session \in [Sessions -> Token \cup {Null}] /\ asking \in Asked \cup {Null}
        /\ \A v \in Ids : user[v] # Null => v \in given
        /\ \A v \in Ids : IsAdmin(v) => lag[v] = 0
        /\ \A v \in Ids : gone[v] # 0 => v \in given /\ user[v] = Null
    BY DEF LagInv, AccountShape
  <1> DEFINE z == IF row # Null /\ row.admin THEN 0 ELSE lag[u]
  <1>1. user' = [user EXCEPT ![u] = row] /\ lag' = [lag EXCEPT ![u] = z]
    BY DEF Write
  <1>2. z \in Nat /\ z <= lag[u] /\ (row # Null /\ row.admin => z = 0)
    BY <1>0
  <1> HIDE DEF z
  <1>3. user' \in [Ids -> Account \cup {Null}] /\ lag' \in [Ids -> Nat]
    BY <1>0, <1>1, <1>2
  <1>4. \A v \in Ids : lag'[v] <= lag[v]
    BY <1>0, <1>1, <1>2
  <1>5. \A v \in Ids : user'[v] # Null => v \in given'
    BY <1>0, <1>1
  <1>6. \A v \in Ids : IsAdmin(v)' => lag'[v] = 0
    <2> SUFFICES ASSUME NEW v \in Ids, user'[v] # Null, user'[v].admin PROVE lag'[v] = 0
      BY DEF IsAdmin
    <2>1. CASE v = u
      BY <1>0, <1>1, <1>2, <2>1
    <2>2. CASE v # u
      <3>1. user'[v] = user[v] /\ lag'[v] = lag[v]
        BY <1>0, <1>1, <2>2
      <3> QED
        BY <1>0, <3>1 DEF IsAdmin
    <2> QED
      BY <2>1, <2>2
  <1>7. \A v \in Ids : gone'[v] # 0 => v \in given' /\ user'[v] = Null
    <2> SUFFICES ASSUME NEW v \in Ids, gone[v] # 0 PROVE v \in given' /\ user'[v] = Null
      OBVIOUS
    <2>1. v \in given /\ user[v] = Null
      BY <1>0
    <2> QED
      BY <1>0, <1>1, <2>1
  <1>8. AccountShape'
    BY <1>0, <1>3, <1>5, <1>6, <1>7 DEF AccountShape
  <1>9. AskedLag'
    <2> SUFFICES ASSUME asking # Null
                 PROVE  /\ asking.adm => lag'[asking.uid] <= asking.age
                        /\ gone[asking.uid] <= asking.age
      BY DEF AskedLag
    <2>1. asking.uid \in Ids /\ asking.age \in Nat
      BY <1>0, TokenNumbers DEF Asked
    <2>2. lag'[asking.uid] <= lag[asking.uid] /\ lag'[asking.uid] \in Nat /\ lag[asking.uid] \in Nat
      BY <1>0, <1>3, <1>4, <2>1
    <2> QED
      BY <2>1, <2>2 DEF LagInv, AskedLag
  <1>10. ClaimsLag'
    <2> SUFFICES ASSUME NEW s \in Sessions, session[s] # Null
                 PROVE  /\ session[s].adm =>
                             lag'[session[s].uid] <= (TokenTicks - session[s].left) + RequestTicks
                        /\ gone[session[s].uid] <= (TokenTicks - session[s].left) + RequestTicks
      BY DEF ClaimsLag
    <2>1. session[s].uid \in Ids /\ session[s].left \in 1..TokenTicks
      BY <1>0 DEF Token
    <2>2. lag'[session[s].uid] <= lag[session[s].uid] /\ lag'[session[s].uid] \in Nat
          /\ lag[session[s].uid] \in Nat
      BY <1>0, <1>3, <1>4, <2>1
    <2> QED
      BY <2>1, <2>2, TokenNumbers DEF LagInv, ClaimsLag
  <1> QED
    BY <1>8, <1>9, <1>10 DEF LagInv

\* A tick makes accounts, tokens and requests older together.
LEMMA TickKeepsLag ==
    ASSUME LagInv, UTick
    PROVE  LagInv'
  <1>0. /\ user \in [Ids -> Account \cup {Null}] /\ lag \in [Ids -> Nat] /\ gone \in [Ids -> Nat]
        /\ given \subseteq Ids
        /\ session \in [Sessions -> Token \cup {Null}] /\ asking \in Asked \cup {Null}
        /\ \A v \in Ids : user[v] # Null => v \in given
    BY DEF LagInv, AccountShape
  <1>u. UNCHANGED <<user, given>>
    BY DEF UTick
  <1>m. \A a \in Nat : UMin(a + 1, UCap) \in Nat /\ UMin(a + 1, UCap) <= a + 1
    BY TokenNumbers DEF UMin, UCap
  <1>1. lag' \in [Ids -> Nat] /\ \A v \in Ids : lag'[v] <= lag[v] + 1 /\ (IsAdmin(v) => lag'[v] = 0)
    <2>1. lag' = [v \in Ids |-> IF IsAdmin(v) THEN 0 ELSE UMin(lag[v] + 1, UCap)]
      BY DEF UTick
    <2>2. \A v \in Ids : lag[v] \in Nat
      BY <1>0
    <2> QED
      BY <1>m, <2>1, <2>2
  <1>2. /\ gone' \in [Ids -> Nat]
        /\ \A v \in Ids : gone'[v] <= gone[v] + 1 /\ (gone'[v] # 0 => v \in given \ Existing)
    <2>1. gone' = [v \in Ids |-> IF v \in given \ Existing THEN UMin(gone[v] + 1, UCap) ELSE 0]
      BY DEF UTick
    <2>2. \A v \in Ids : gone[v] \in Nat
      BY <1>0
    <2> QED
      BY <1>m, <2>1, <2>2
  <1>3. ASSUME asking # Null
        PROVE  /\ asking' \in Asked /\ asking'.uid = asking.uid /\ asking'.adm = asking.adm
               /\ asking'.age = asking.age + 1 /\ asking.uid \in Ids /\ asking.age \in Nat
    <2>1. asking \in Asked /\ asking.age < RequestTicks
      BY <1>0, <1>3 DEF UTick
    <2>2. asking' = [asking EXCEPT !.age = asking.age + 1]
      BY <1>3 DEF UTick
    <2>3. asking.age \in 0..RequestTicks
      BY <2>1 DEF Asked
    <2>4. asking.age + 1 \in 0..RequestTicks
      BY <2>1, <2>3, TokenNumbers
    <2> QED
      BY <2>1, <2>2, <2>3, <2>4, TokenNumbers DEF Asked
  <1>4. asking = Null => asking' = Null
    BY DEF UTick
  <1>5. ASSUME NEW s \in Sessions, session'[s] # Null
        PROVE  /\ session'[s] \in Token /\ session[s] # Null
               /\ session'[s].uid = session[s].uid /\ session'[s].adm = session[s].adm
               /\ session'[s].left = session[s].left - 1
               /\ session[s].uid \in Ids /\ session[s].left \in 1..TokenTicks
    <2>1. session[s] # Null /\ session[s].left # 1
          /\ session'[s] = [session[s] EXCEPT !.left = session[s].left - 1]
      BY <1>5 DEF UTick
    <2>2. session[s] \in Token
      BY <1>0, <2>1
    <2>3. session[s].left \in 1..TokenTicks
      BY <2>2 DEF Token
    <2>4. session[s].left - 1 \in 1..TokenTicks
      BY <2>1, <2>3, TokenNumbers
    <2> QED
      BY <2>1, <2>2, <2>3, <2>4 DEF Token
  <1>6. session' \in [Sessions -> Token \cup {Null}]
    <2>1. session' = [s \in Sessions |-> session'[s]]
      BY DEF UTick
    <2> QED
      BY <1>5, <2>1
  <1>7. AccountShape'
    <2>1. asking' \in Asked \cup {Null}
      BY <1>3, <1>4
    <2>2. \A v \in Ids : IsAdmin(v)' => lag'[v] = 0
      BY <1>1, <1>u DEF IsAdmin
    <2>3. \A v \in Ids : gone'[v] # 0 => v \in given' /\ user'[v] = Null
      BY <1>2, <1>u DEF Existing
    <2> QED
      BY <1>0, <1>1, <1>2, <1>6, <1>u, <2>1, <2>2, <2>3 DEF AccountShape
  <1>8. AskedLag'
    <2> SUFFICES ASSUME asking' # Null
                 PROVE  /\ asking'.adm => lag'[asking'.uid] <= asking'.age
                        /\ gone'[asking'.uid] <= asking'.age
      BY DEF AskedLag
    <2>1. asking # Null
      BY <1>4
    <2>2. /\ asking.adm => lag[asking.uid] <= asking.age
          /\ gone[asking.uid] <= asking.age
      BY <2>1 DEF LagInv, AskedLag
    <2>3. /\ lag[asking.uid] \in Nat /\ lag'[asking.uid] \in Nat
          /\ gone[asking.uid] \in Nat /\ gone'[asking.uid] \in Nat
          /\ lag'[asking.uid] <= lag[asking.uid] + 1 /\ gone'[asking.uid] <= gone[asking.uid] + 1
      BY <1>0, <1>1, <1>2, <1>3, <2>1
    <2> QED
      BY <1>3, <2>1, <2>2, <2>3
  <1>9. ClaimsLag'
    <2> SUFFICES ASSUME NEW s \in Sessions, session'[s] # Null
                 PROVE  /\ session'[s].adm =>
                             lag'[session'[s].uid] <= (TokenTicks - session'[s].left) + RequestTicks
                        /\ gone'[session'[s].uid] <= (TokenTicks - session'[s].left) + RequestTicks
      BY DEF ClaimsLag
    <2>1. PICK u \in Ids : u = session[s].uid
      BY <1>5
    <2>2. /\ session[s].adm => lag[u] <= (TokenTicks - session[s].left) + RequestTicks
          /\ gone[u] <= (TokenTicks - session[s].left) + RequestTicks
      BY <1>5, <2>1 DEF LagInv, ClaimsLag
    <2>3. /\ lag[u] \in Nat /\ lag'[u] \in Nat /\ gone[u] \in Nat /\ gone'[u] \in Nat
          /\ lag'[u] <= lag[u] + 1 /\ gone'[u] <= gone[u] + 1
      BY <1>0, <1>1, <1>2
    <2> QED
      BY <1>5, <2>1, <2>2, <2>3, TokenNumbers
  <1> QED
    BY <1>7, <1>8, <1>9 DEF LagInv

\* LagInv holds throughout: every step keeps it.
LEMMA LagInvHolds == UInit /\ [][UNext]_uvars => []LagInv
  <1>1. UInit => LagInv
    <2> SUFFICES ASSUME UInit PROVE LagInv
      OBVIOUS
    <2>1. UCap \in Nat
      BY TokenNumbers DEF UCap
    <2>2. AccountShape
      BY <2>1 DEF UInit, AccountShape, IsAdmin
    <2> QED
      BY <2>2 DEF UInit, LagInv, AskedLag, ClaimsLag
  <1>2. LagInv /\ [UNext]_uvars => LagInv'
    <2> SUFFICES ASSUME LagInv, [UNext]_uvars PROVE LagInv'
      OBVIOUS
    <2>0. /\ user \in [Ids -> Account \cup {Null}] /\ lag \in [Ids -> Nat] /\ gone \in [Ids -> Nat]
          /\ given \subseteq Ids
          /\ session \in [Sessions -> Token \cup {Null}] /\ asking \in Asked \cup {Null}
          /\ \A v \in Ids : user[v] # Null => v \in given
          /\ \A v \in Ids : IsAdmin(v) => lag[v] = 0
          /\ \A v \in Ids : gone[v] # 0 => v \in given /\ user[v] = Null
      BY DEF LagInv, AccountShape
    <2>k. ASSUME UNCHANGED <<user, given, session, asking, lag, gone>>
          PROVE  LagInv'
      BY <2>k DEF LagInv, AccountShape, AskedLag, ClaimsLag, IsAdmin
    <2>c. ASSUME NEW name \in Usernames, NEW admin \in BOOLEAN, Create(name, admin),
                 UNCHANGED <<session, asking, gone>>
          PROVE  LagInv'
      <3>1. PICK u \in Ids \ given : /\ Write(u, [name |-> name, admin |-> admin])
                                    /\ given' = given \cup {u}
        <4>1. \E u : u \in Ids \ given
          BY <2>0, <2>c DEF Create
        <4> QED
          BY <2>c, <4>1 DEF Create
      <3>2. [name |-> name, admin |-> admin] \in Account \cup {Null}
        BY DEF Account
      <3>3. gone[u] = 0
        BY <2>0, <3>1
      <3> QED
        BY <2>c, <3>1, <3>2, <3>3, WriteKeepsLag
    <2>1. ASSUME NEW i \in Servers, SeedList(i) \/ Stop(i)
          PROVE  LagInv'
      BY <2>1, <2>k DEF SeedList, Stop
    <2>2. ASSUME NEW i \in Servers, SeedCreate(i)
          PROVE  LagInv'
      <3>1. SeedUser \in Usernames /\ TRUE \in BOOLEAN
        BY UserConstants
      <3>2. CASE Create(SeedUser, TRUE)
        BY <2>2, <2>c, <3>1, <3>2 DEF SeedCreate
      <3>3. CASE UNCHANGED <<user, given, lag>>
        BY <2>2, <2>k, <3>3 DEF SeedCreate
      <3> QED
        BY <2>2, <3>2, <3>3 DEF SeedCreate
    <2>3. ASSUME NEW s \in Sessions, NEW u \in Ids, user[u] # Null, Ask(s, u, user[u].admin),
                 UNCHANGED <<user, given, session, lag, gone>>
          PROVE  LagInv'
      <3>1. user[u] \in Account
        BY <2>0, <2>3
      <3>2. user[u].admin \in BOOLEAN
        BY <3>1 DEF Account
      <3>3. asking' = [by |-> s, uid |-> u, adm |-> user[u].admin, age |-> 0]
        BY <2>3 DEF Ask
      <3>4. 0 \in 0..RequestTicks
        BY TokenNumbers
      <3>5. asking' \in Asked
        BY <3>2, <3>3, <3>4 DEF Asked
      <3>6. AccountShape'
        BY <2>0, <2>3, <3>5 DEF AccountShape, IsAdmin
      <3>7. user[u].admin => lag[u] = 0
        BY <2>0, <2>3 DEF IsAdmin
      <3>8. gone[u] = 0
        BY <2>0, <2>3
      <3>9. asking'.adm = user[u].admin /\ asking'.uid = u /\ asking'.age = 0
        BY <3>3
      <3>10. AskedLag'
        BY <2>3, <3>7, <3>8, <3>9 DEF AskedLag
      <3>11. ClaimsLag'
        BY <2>3 DEF LagInv, ClaimsLag
      <3> QED
        BY <3>6, <3>10, <3>11 DEF LagInv
    <2>4. ASSUME NEW s \in Sessions, Refresh(s)
          PROVE  LagInv'
      <3>1. session[s] # Null /\ session[s].uid \in Existing
        BY <2>4 DEF Refresh
      <3>2. session[s].uid \in Ids /\ user[session[s].uid] # Null
        BY <3>1 DEF Existing
      <3> QED
        BY <2>3, <2>4, <3>2 DEF Refresh
    <2>5. ASSUME NEW s \in Sessions, NEW u \in Ids, Login(s, u)
          PROVE  LagInv'
      BY <2>3, <2>5 DEF Login, Existing
    <2>6. ASSUME NEW s \in Sessions, NEW u \in Ids, deleteUser(s, u)
          PROVE  LagInv'
      <3>1. user[u] # Null
        BY <2>6 DEF deleteUser, Existing
      <3>2. gone[u] = 0 /\ u \in given
        BY <2>0, <3>1
      <3> QED
        BY <2>6, <3>2, WriteKeepsLag DEF deleteUser
    <2>7. ASSUME NEW s \in Sessions, NEW name \in Usernames, NEW admin \in BOOLEAN,
                 createUser(s, name, admin)
          PROVE  LagInv'
      BY <2>7, <2>c DEF createUser
    <2>8. ASSUME NEW s \in Sessions, NEW u \in Ids, NEW name \in Usernames, NEW admin \in BOOLEAN,
                 updateUser(s, u, name, admin)
          PROVE  LagInv'
      <3>1. user[u] # Null
        BY <2>8 DEF updateUser, Existing
      <3>2. gone[u] = 0 /\ u \in given
        BY <2>0, <3>1
      <3>3. [name |-> name, admin |-> admin] \in Account \cup {Null}
        BY DEF Account
      <3> QED
        BY <2>8, <3>2, <3>3, WriteKeepsLag DEF updateUser
    <2>9. CASE IssueToken
      <3>1. asking \in Asked /\ asking # Null
        BY <2>0, <2>9 DEF IssueToken
      <3>2. asking.by \in Sessions /\ asking.uid \in Ids /\ asking.adm \in BOOLEAN
            /\ asking.age \in 0..RequestTicks
        BY <3>1 DEF Asked
      <3> DEFINE t == [uid |-> asking.uid, adm |-> asking.adm, left |-> TokenTicks]
      <3>3. t \in Token
        BY <3>2, TokenNumbers DEF Token
      <3>4. session' = [session EXCEPT ![asking.by] = t] /\ asking' = Null
            /\ UNCHANGED <<user, given, lag, gone>>
        BY <2>9 DEF IssueToken
      <3>5. t.uid = asking.uid /\ t.adm = asking.adm /\ t.left = TokenTicks
        OBVIOUS
      <3> HIDE DEF t
      <3>6. session' \in [Sessions -> Token \cup {Null}]
        BY <2>0, <3>3, <3>4
      <3>7. AccountShape'
        BY <2>0, <3>4, <3>6 DEF AccountShape, IsAdmin
      <3>8. ClaimsLag'
        <4> SUFFICES ASSUME NEW s \in Sessions, session'[s] # Null
                     PROVE  /\ session'[s].adm =>
                                 lag[session'[s].uid] <= (TokenTicks - session'[s].left) + RequestTicks
                            /\ gone[session'[s].uid] <= (TokenTicks - session'[s].left) + RequestTicks
          BY <3>4 DEF ClaimsLag
        <4>1. CASE s = asking.by
          <5>1. session'[s] = t
            BY <2>0, <3>4, <4>1
          <5>2. /\ asking.adm => lag[asking.uid] <= asking.age
                /\ gone[asking.uid] <= asking.age
            BY <3>1 DEF LagInv, AskedLag
          <5>3. lag[asking.uid] \in Nat /\ gone[asking.uid] \in Nat
            BY <2>0, <3>2
          <5> QED
            BY <3>2, <3>5, <5>1, <5>2, <5>3, TokenNumbers
        <4>2. CASE s # asking.by
          <5>1. session'[s] = session[s]
            BY <2>0, <3>4, <4>2
          <5> QED
            BY <5>1 DEF LagInv, ClaimsLag
        <4> QED
          BY <4>1, <4>2
      <3> QED
        BY <3>4, <3>7, <3>8 DEF LagInv, AskedLag
    <2>10. CASE UTick
      BY <2>10, TickKeepsLag
    <2>11. CASE UNCHANGED uvars
      BY <2>11, <2>k DEF uvars
    <2> QED
      BY <2>1, <2>2, <2>4, <2>5, <2>6, <2>7, <2>8, <2>9, <2>10, <2>11 DEF UNext
  <1> QED
    BY <1>1, <1>2, PTL

\* ClaimsLag, for any number of users and sessions, any lifetime of tokens and
\* any time a request takes: handleRefresh reads the account again, so what a
\* token says is as old as the token and the request that issued it.
THEOREM ClaimsLagHolds == UInit /\ [][UNext]_uvars => []ClaimsLag
  <1>1. LagInv => ClaimsLag
    BY DEF LagInv
  <1> QED
    BY <1>1, LagInvHolds, PTL

-----------------------------------------------------------------------------
(* The last account *)

\* Tokens, and the request under way, are about users there are or were.
AboutUsers ==
    /\ \A s \in Sessions : session[s] # Null => session[s].uid \in given
    /\ asking # Null => asking.uid \in given

\* AboutUsers holds throughout.
LEMMA AboutUsersHolds == UInit /\ [][UNext]_uvars => []AboutUsers
  <1>1. UInit => AboutUsers
    BY DEF UInit, AboutUsers
  <1>2. LagInv /\ AboutUsers /\ [UNext]_uvars => AboutUsers'
    <2> SUFFICES ASSUME LagInv, AboutUsers, [UNext]_uvars PROVE AboutUsers'
      OBVIOUS
    <2>0. /\ given \subseteq Ids /\ session \in [Sessions -> Token \cup {Null}]
          /\ asking \in Asked \cup {Null}
          /\ \A v \in Ids : user[v] # Null => v \in given
      BY DEF LagInv, AccountShape
    <2>k. ASSUME UNCHANGED <<session, asking>>, given \subseteq given'
          PROVE  AboutUsers'
      BY <2>k DEF AboutUsers
    <2>1. ASSUME NEW i \in Servers, SeedList(i) \/ SeedCreate(i) \/ Stop(i)
          PROVE  AboutUsers'
      <3>1. UNCHANGED <<session, asking>>
        BY <2>1 DEF SeedList, SeedCreate, Stop
      <3>2. given \subseteq given'
        BY <2>1 DEF SeedList, SeedCreate, Stop, Create
      <3> QED
        BY <2>k, <3>1, <3>2
    <2>2. ASSUME NEW s \in Sessions, NEW u \in Ids, user[u] # Null, Ask(s, u, user[u].admin),
                 UNCHANGED <<given, session>>
          PROVE  AboutUsers'
      <3>1. asking'.uid = u /\ u \in given
        BY <2>0, <2>2 DEF Ask
      <3> QED
        BY <2>2, <3>1 DEF AboutUsers
    <2>3. ASSUME NEW s \in Sessions, Refresh(s)
          PROVE  AboutUsers'
      <3>1. session[s].uid \in Ids /\ user[session[s].uid] # Null
        BY <2>3 DEF Refresh, Existing
      <3> QED
        BY <2>2, <2>3, <3>1 DEF Refresh
    <2>4. ASSUME NEW s \in Sessions, NEW u \in Ids, Login(s, u)
          PROVE  AboutUsers'
      BY <2>2, <2>4 DEF Login, Existing
    <2>5. ASSUME NEW s \in Sessions, NEW u \in Ids, deleteUser(s, u)
          PROVE  AboutUsers'
      BY <2>5, <2>k DEF deleteUser
    <2>6. ASSUME NEW s \in Sessions, NEW name \in Usernames, NEW admin \in BOOLEAN,
                 createUser(s, name, admin)
          PROVE  AboutUsers'
      BY <2>6, <2>k DEF createUser, Create
    <2>7. ASSUME NEW s \in Sessions, NEW u \in Ids, NEW name \in Usernames, NEW admin \in BOOLEAN,
                 updateUser(s, u, name, admin)
          PROVE  AboutUsers'
      BY <2>7, <2>k DEF updateUser
    <2>8. CASE IssueToken
      <3>1. asking.uid \in given /\ asking' = Null /\ UNCHANGED given
        BY <2>8 DEF IssueToken, AboutUsers
      <3>2. session' = [session EXCEPT ![asking.by] =
                           [uid |-> asking.uid, adm |-> asking.adm, left |-> TokenTicks]]
        BY <2>8 DEF IssueToken
      <3>3. ASSUME NEW s \in Sessions, session'[s] # Null
            PROVE  session'[s].uid \in given
        <4>1. CASE s = asking.by
          BY <2>0, <3>1, <3>2, <4>1
        <4>2. CASE s # asking.by
          BY <2>0, <3>2, <3>3, <4>2 DEF AboutUsers
        <4> QED
          BY <4>1, <4>2
      <3> QED
        BY <3>1, <3>3 DEF AboutUsers
    <2>9. CASE UTick
      <3>1. UNCHANGED given
        BY <2>9 DEF UTick
      <3>2. ASSUME NEW s \in Sessions, session'[s] # Null
            PROVE  session'[s].uid \in given
        <4>1. session[s] # Null /\ session'[s] = [session[s] EXCEPT !.left = @ - 1]
          BY <2>9, <3>2 DEF UTick
        <4>2. session[s] \in Token
          BY <2>0, <4>1
        <4>3. session'[s].uid = session[s].uid
          BY <4>1, <4>2 DEF Token
        <4> QED
          BY <4>1, <4>3 DEF AboutUsers
      <3>3. asking' # Null => asking # Null /\ asking'.uid = asking.uid
        <4> SUFFICES ASSUME asking' # Null PROVE asking # Null /\ asking'.uid = asking.uid
          OBVIOUS
        <4>1. asking # Null /\ asking' = [asking EXCEPT !.age = @ + 1]
          BY <2>9 DEF UTick
        <4>2. asking \in Asked
          BY <2>0, <4>1
        <4> QED
          BY <4>1, <4>2 DEF Asked
      <3> QED
        BY <3>1, <3>2, <3>3 DEF AboutUsers
    <2>10. CASE UNCHANGED uvars
      BY <2>10, <2>k DEF uvars
    <2> QED
      BY <2>1, <2>3, <2>4, <2>5, <2>6, <2>7, <2>8, <2>9, <2>10 DEF UNext
  <1> QED
    BY <1>1, <1>2, LagInvHolds, PTL

\* EmptiedByLateToken, for any number of users, sessions and servers and any
\* lifetime of tokens: Delete refuses the caller's own account, so who deletes
\* the last one has none any more, and ClaimsLag says for how long.
THEOREM EmptiedByLateTokenHolds == UInit /\ [][UNext]_uvars => EmptiedByLateToken
  <1> DEFINE Late == \E v \in given \ Existing : gone[v] < UCap
  <1>1. LagInv /\ AboutUsers /\ [UNext]_uvars
            => (Existing # {} /\ Existing' = {} => Late)
    <2> SUFFICES ASSUME LagInv, AboutUsers, [UNext]_uvars, Existing # {}, Existing' = {}
                 PROVE  Late
      OBVIOUS
    <2>0. /\ user \in [Ids -> Account \cup {Null}] /\ gone \in [Ids -> Nat]
          /\ given \subseteq Ids /\ session \in [Sessions -> Token \cup {Null}]
      BY DEF LagInv, AccountShape
    <2>k. user' # user
      BY DEF Existing
    <2>w. ASSUME NEW u \in Ids, NEW row \in Account, Write(u, row)
          PROVE  FALSE
      <3>1. user'[u] = row /\ row # Null
        BY <2>0, <2>w, NullIsNoAccount DEF Write
      <3> QED
        BY <3>1 DEF Existing
    <2>c. ASSUME NEW name \in Usernames, NEW admin \in BOOLEAN, Create(name, admin)
          PROVE  FALSE
      <3>1. \E u : u \in Ids \ given
        BY <2>0, <2>c DEF Create
      <3>2. [name |-> name, admin |-> admin] \in Account
        BY DEF Account
      <3> QED
        BY <2>c, <2>w, <3>1, <3>2 DEF Create
    <2>1. ASSUME NEW i \in Servers, SeedList(i) \/ SeedCreate(i) \/ Stop(i)
          PROVE  FALSE
      <3>1. SeedCreate(i) /\ ~UNCHANGED user
        BY <2>1, <2>k DEF SeedList, Stop
      <3>2. Create(SeedUser, TRUE)
        BY <3>1 DEF SeedCreate
      <3>3. SeedUser \in Usernames
        BY UserConstants
      <3> QED
        BY <2>c, <3>2, <3>3
    <2>2. ASSUME NEW s \in Sessions, Refresh(s)
          PROVE  FALSE
      BY <2>2, <2>k DEF Refresh
    <2>3. ASSUME NEW s \in Sessions, NEW u \in Ids, Login(s, u)
          PROVE  FALSE
      BY <2>3, <2>k DEF Login
    <2>4. ASSUME NEW s \in Sessions, NEW name \in Usernames, NEW admin \in BOOLEAN,
                 createUser(s, name, admin)
          PROVE  FALSE
      BY <2>4, <2>c DEF createUser
    <2>5. ASSUME NEW s \in Sessions, NEW u \in Ids, NEW name \in Usernames, NEW admin \in BOOLEAN,
                 updateUser(s, u, name, admin)
          PROVE  FALSE
      <3>1. [name |-> name, admin |-> admin] \in Account
        BY DEF Account
      <3> QED
        BY <2>5, <2>w, <3>1 DEF updateUser
    <2>6. CASE IssueToken \/ UTick \/ UNCHANGED uvars
      BY <2>6, <2>k DEF IssueToken, UTick, uvars
    <2>7. ASSUME NEW s \in Sessions, NEW u \in Ids, deleteUser(s, u)
          PROVE  Late
      <3>1. /\ session[s] # Null /\ session[s].uid # u
            /\ user' = [user EXCEPT ![u] = Null]
        BY <2>7 DEF deleteUser, requireAdmin, Write
      <3>2. session[s] \in Token
        BY <2>0, <3>1
      <3>3. session[s].uid \in Ids /\ session[s].left \in 1..TokenTicks
        BY <3>2 DEF Token
      <3>4. session[s].uid \notin Existing
        BY <2>0, <3>1, <3>3 DEF Existing
      <3>5. session[s].uid \in given
        BY <3>1 DEF AboutUsers
      <3>6. gone[session[s].uid] <= (TokenTicks - session[s].left) + RequestTicks
        BY <3>1 DEF LagInv, ClaimsLag
      <3>7. gone[session[s].uid] \in Nat
        BY <2>0, <3>3
      <3>8. gone[session[s].uid] < UCap
        BY <3>3, <3>6, <3>7, TokenNumbers DEF UCap
      <3> QED
        BY <3>4, <3>5, <3>8
    <2> QED
      BY <2>1, <2>2, <2>3, <2>4, <2>5, <2>6, <2>7 DEF UNext
  <1>2. LagInv /\ AboutUsers /\ [UNext]_uvars
            => [Existing # {} /\ Existing' = {} => \E v \in given \ Existing : gone[v] < UCap]_uvars
    BY <1>1
  <1> HIDE DEF Late
  <1> QED
    BY <1>2, LagInvHolds, AboutUsersHolds, PTL DEF EmptiedByLateToken

-----------------------------------------------------------------------------
(* Patterns *)

\* Every set of numbers that has a member has a smallest one.  (The intervals
\* 0..n are finite sets, and strict inclusion of finite sets is well founded.)
LEMMA SmallestNumber ==
    ASSUME NEW T, T \subseteq Nat, T # {}
    PROVE  \E n \in T : \A k \in T : n <= k
<1> DEFINE R == StrictSubsetOrdering(Nat)
           F == FiniteSubsetsOf(Nat)
           U == {0..n : n \in T}
<1>1. IsWellFoundedOn(R, F)
  BY FS_StrictSubsetOrderingWellFounded
<1>2. U \subseteq F
  <2>1. ASSUME NEW n \in T
        PROVE  IsFiniteSet(0..n) /\ 0..n \subseteq Nat
    BY FS_Interval
  <2> QED
    BY <2>1 DEF FiniteSubsetsOf
<1>3. U # {}
  OBVIOUS
<1> HIDE DEF R, F
<1>4. PICK x \in U : \A y \in U : ~ (<<y, x>> \in R)
  <2> HIDE DEF U
  <2> QED
    BY <1>1, <1>2, <1>3, WFMin
<1>5. PICK n \in T : x = 0..n
  OBVIOUS
<1>6. ASSUME NEW k \in T, k < n
      PROVE  FALSE
  <2>1. 0..k \subseteq 0..n /\ 0..k # 0..n
    BY <1>6
  <2>2. 0..k \in SUBSET Nat /\ 0..n \in SUBSET Nat
    OBVIOUS
  <2>3. <<0..k, 0..n>> \in R
    BY <2>1, <2>2 DEF R, StrictSubsetOrdering
  <2> QED
    BY <1>4, <1>5, <2>3
<1> QED
  BY <1>6

\* Every character but a dot is in a part that begins at or before it.
LEMMA PartOf ==
    ASSUME NEW C, NEW name \in Seq(C), NEW k \in DOMAIN name, name[k] # "."
    PROVE  \E i \in Starts(name) : k \in DOMAIN Part(name, i)
<1> DEFINE T == {i \in 1..k : \A j \in i..k : name[j] # "."}
<1>1. k \in 1..Len(name) /\ Len(name) \in Nat /\ DOMAIN name = 1..Len(name)
  OBVIOUS
<1>2. T \subseteq Nat /\ k \in T
  BY <1>1
<1>3. PICK i \in T : \A j \in T : i <= j
  <2> HIDE DEF T
  <2> QED
    BY <1>2, SmallestNumber
<1>4. CASE i = 1
  BY <1>1, <1>3, <1>4 DEF Starts, Part
<1>5. CASE i # 1
  <2>1. i - 1 \in 1..k /\ i - 1 \notin T
    BY <1>1, <1>3, <1>5
  <2>2. name[i - 1] = "."
    BY <1>1, <1>3, <2>1
  <2>3. (i - 1) + 1 = i /\ i - 1 \in DOMAIN name
    BY <1>1, <1>3, <2>1
  <2>4. i \in Starts(name)
    BY <2>2, <2>3 DEF Starts
  <2> QED
    BY <1>1, <1>3, <2>4 DEF Part
<1> QED
  BY <1>4, <1>5

\* Two names agree at a position of the first if the second has a part wherever
\* the first has one, and the same part where the position's own begins.
LEMMA PartsFixCharacters ==
    ASSUME NEW C, NEW p \in Seq(C), NEW t \in Seq(C), NEW k \in DOMAIN p,
           k + 1 \in Starts(p) => k + 1 \in Starts(t),
           \A i \in Starts(p) : i <= k => Part(t, i) = Part(p, i)
    PROVE  k \in DOMAIN t /\ t[k] = p[k]
<1>1. k \in Nat \ {0}
  OBVIOUS
<1>2. CASE p[k] = "."
  <2>1. k + 1 \in Starts(t)
    BY <1>2 DEF Starts
  <2>2. PICK j \in DOMAIN t : t[j] = "." /\ j + 1 = k + 1
    BY <1>1, <2>1 DEF Starts
  <2>3. j = k
    BY <1>1, <2>2
  <2> QED
    BY <1>2, <2>2, <2>3
<1>3. CASE p[k] # "."
  <2>1. PICK i \in Starts(p) : k \in DOMAIN Part(p, i)
    BY <1>3, PartOf
  <2>2. i \in Nat \ {0} /\ i <= k
    BY <2>1 DEF Part, Starts
  <2>3. Part(t, i) = Part(p, i)
    BY <2>2
  <2>4. k \in DOMAIN Part(t, i) /\ Part(t, i)[k] = Part(p, i)[k]
    BY <2>1, <2>3
  <2>5. k \in i..Len(t) /\ Part(t, i)[k] = t[k]
    BY <2>4 DEF Part
  <2>6. Part(p, i)[k] = p[k]
    BY <2>1 DEF Part
  <2> QED
    BY <2>2, <2>4, <2>5, <2>6
<1> QED
  BY <1>2, <1>3

\* A name is determined by its parts.
LEMMA PartsFixName ==
    ASSUME NEW C, NEW p \in Seq(C), NEW t \in Seq(C), Parts(p) = Parts(t)
    PROVE  p = t
<1>1. Starts(p) = Starts(t)
  BY DEF Parts
<1>2. \A i \in Starts(p) : Part(p, i) = Part(t, i)
  BY <1>1 DEF Parts
<1>3. \A k \in DOMAIN p : k \in DOMAIN t /\ t[k] = p[k]
  BY <1>1, <1>2, PartsFixCharacters
<1>4. \A k \in DOMAIN t : k \in DOMAIN p
  BY <1>1, <1>2, PartsFixCharacters
<1>5. DOMAIN p = DOMAIN t
  BY <1>3, <1>4
<1>6. Len(p) = Len(t)
  BY <1>5
<1> QED
  BY <1>3, <1>5, <1>6

\* The first n characters of a name.
LEMMA Beginning ==
    ASSUME NEW C, NEW s \in Seq(C), NEW n \in Nat, n <= Len(s)
    PROVE  /\ SubSeq(s, 1, n) \in Seq(C)
           /\ Len(SubSeq(s, 1, n)) = n
           /\ \A k \in 1..n : SubSeq(s, 1, n)[k] = s[k]
<1>1. \A k \in 1..n : s[k] \in C
  OBVIOUS
<1>2. /\ SubSeq(s, 1, n) \in Seq(C)
      /\ Len(SubSeq(s, 1, n)) = IF 1 <= n THEN n - 1 + 1 ELSE 0
      /\ \A k \in 1..(n - 1 + 1) : SubSeq(s, 1, n)[k] = s[1 + k - 1]
  BY <1>1, SubSeqProperties
<1> QED
  BY <1>2

\* What strings.CutSuffix asks of a pattern.
LEMMA EndsBelow ==
    ASSUME NEW C, NEW p \in Seq(C)
    PROVE  IsSuffix(Below, p)
             <=> Len(p) >= 2 /\ p[Len(p) - 1] = "." /\ p[Len(p)] = "*"
<1> DEFINE n == Len(p)
           b == Reverse(Below)
           r == Reverse(p)
<1>1. n \in Nat /\ p \in [1..n -> C]
  OBVIOUS
<1>2. b \in Seq({"*", "."}) /\ Len(b) = 2 /\ b[1] = "*" /\ b[2] = "."
  BY DEF Reverse, Below
<1>3. /\ r \in Seq(C) /\ Len(r) = n
      /\ 2 <= n => r[1] = p[n] /\ r[2] = p[n - 1]
  BY <1>1 DEF Reverse
<1>4. IsSuffix(Below, p) <=> 2 <= n /\ SubSeq(b, 1, 2) = SubSeq(r, 1, 2)
  BY <1>2, <1>3 DEF IsSuffix, IsPrefix
<1> HIDE DEF b, r, n
<1>5. ASSUME 2 <= n
      PROVE  SubSeq(b, 1, 2) = SubSeq(r, 1, 2) <=> b[1] = r[1] /\ b[2] = r[2]
  <2> DEFINE x == SubSeq(b, 1, 2)
             y == SubSeq(r, 1, 2)
             D == C \cup {"*", "."}
  <2>1. b \in Seq(D) /\ r \in Seq(D) /\ 2 <= Len(b) /\ 2 <= Len(r)
    BY <1>2, <1>3, <1>5, SeqMonotonic
  <2> HIDE DEF D
  <2>2. x \in Seq(D) /\ Len(x) = 2 /\ x[1] = b[1] /\ x[2] = b[2]
    BY <2>1, Beginning
  <2>3. y \in Seq(D) /\ Len(y) = 2 /\ y[1] = r[1] /\ y[2] = r[2]
    BY <2>1, Beginning
  <2> HIDE DEF x, y
  <2>4. x = y <=> x[1] = y[1] /\ x[2] = y[2]
    BY <2>2, <2>3, SeqEqual
  <2> QED
    BY <2>2, <2>3, <2>4 DEF x, y
<1>6. IsSuffix(Below, p) <=> 2 <= n /\ p[n - 1] = "." /\ p[n] = "*"
  BY <1>2, <1>3, <1>4, <1>5
<1> QED
  BY <1>1, <1>6 DEF n

\* strings.HasPrefix with what is left of the pattern and its dot.
LEMMA BeginsWithFront ==
    ASSUME NEW C, NEW p \in Seq(C), NEW t \in Seq(C), Len(p) >= 1
    PROVE  IsPrefix(Front(p), t)
             <=> Len(p) - 1 <= Len(t) /\ \A k \in 1..(Len(p) - 1) : t[k] = p[k]
<1> DEFINE n == Len(p) - 1
<1>1. n \in Nat /\ Len(p) \in Nat /\ Len(t) \in Nat /\ n <= Len(p)
  OBVIOUS
<1>2. Front(p) \in Seq(C) /\ Len(Front(p)) = n /\ \A k \in 1..n : Front(p)[k] = p[k]
  BY <1>1, Beginning DEF Front
<1>3. SubSeq(Front(p), 1, n) = Front(p)
  <2>1. /\ SubSeq(Front(p), 1, n) \in Seq(C) /\ Len(SubSeq(Front(p), 1, n)) = n
        /\ \A k \in 1..n : SubSeq(Front(p), 1, n)[k] = Front(p)[k]
    BY <1>1, <1>2, Beginning
  <2> QED
    BY <1>2, <2>1, SeqEqual
<1>4. ASSUME n <= Len(t)
      PROVE  /\ SubSeq(t, 1, n) \in Seq(C) /\ Len(SubSeq(t, 1, n)) = n
             /\ \A k \in 1..n : SubSeq(t, 1, n)[k] = t[k]
  BY <1>1, <1>4, Beginning
<1>5. IsPrefix(Front(p), t) <=> n <= Len(t) /\ Front(p) = SubSeq(t, 1, n)
  BY <1>2, <1>3 DEF IsPrefix
<1> HIDE DEF n
<1>6. ASSUME n <= Len(t), \A k \in 1..n : t[k] = p[k]
      PROVE  Front(p) = SubSeq(t, 1, n)
  BY <1>1, <1>2, <1>4, <1>6, SeqEqual
<1>7. IsPrefix(Front(p), t) <=> n <= Len(t) /\ \A k \in 1..n : t[k] = p[k]
  BY <1>2, <1>4, <1>5, <1>6
<1> QED
  BY <1>7 DEF n

\* A pattern that ends in ".*" covers the topics that begin with the rest of it.
LEMMA GlobCovers ==
    ASSUME NEW C, NEW p \in Seq(C), NEW t \in Seq(C),
           Len(p) >= 2, p[Len(p) - 1] = ".", p[Len(p)] = "*"
    PROVE  IsPrefix(Front(p), t) <=> Covers(p, t)
<1> DEFINE n == Len(p)
<1>1. n \in Nat /\ Len(t) \in Nat /\ DOMAIN p = 1..n /\ DOMAIN t = 1..Len(t)
  OBVIOUS
<1>2. n \in Starts(p)
  <2>1. n - 1 \in DOMAIN p /\ (n - 1) + 1 = n
    BY <1>1
  <2> QED
    BY <2>1 DEF Starts
<1>3. Starts(p) \subseteq 1..n
  BY <1>1 DEF Starts
<1>4. Covers(p, t) <=> \A i \in Starts(p) :
                          i \in Starts(t) /\ (i # n => Part(t, i) = Part(p, i))
  BY <1>2 DEF Covers
<1>5. ASSUME Covers(p, t)
      PROVE  n - 1 <= Len(t) /\ \A k \in 1..(n - 1) : t[k] = p[k]
  <2>1. ASSUME NEW k \in 1..(n - 1)
        PROVE  k \in DOMAIN t /\ t[k] = p[k]
    <3>1. k \in DOMAIN p /\ (k + 1 \in Starts(p) => k + 1 \in Starts(t))
      BY <1>1, <1>4, <1>5
    <3>2. \A i \in Starts(p) : i <= k => Part(t, i) = Part(p, i)
      BY <1>1, <1>3, <1>4, <1>5
    <3> QED
      BY <3>1, <3>2, PartsFixCharacters
  <2> QED
    BY <1>1, <2>1
<1>6. ASSUME n - 1 <= Len(t), \A k \in 1..(n - 1) : t[k] = p[k]
      PROVE  Covers(p, t)
  <2>1. ASSUME NEW i \in Starts(p)
        PROVE  i \in Starts(t)
    <3>1. CASE i = 1
      BY <3>1 DEF Starts
    <3>2. CASE i # 1
      <4>1. PICK j \in DOMAIN p : p[j] = "." /\ i = j + 1
        BY <3>2 DEF Starts
      <4>2. j \in 1..(n - 1)
        BY <1>1, <4>1
      <4>3. j \in DOMAIN t /\ t[j] = "."
        BY <1>1, <1>6, <4>1, <4>2
      <4> QED
        BY <4>1, <4>3 DEF Starts
    <3> QED
      BY <3>1, <3>2
  <2>2. ASSUME NEW i \in Starts(p), i # n
        PROVE  Part(t, i) = Part(p, i)
    <3>1. i \in 1..(n - 1)
      BY <1>1, <1>3, <2>2
    <3>2. t[n - 1] = "."
      BY <1>1, <1>6
    <3> DEFINE P == {k \in i..n : \A j \in i..k : p[j] # "."}
               T == {k \in i..Len(t) : \A j \in i..k : t[j] # "."}
    <3>3. P \subseteq i..(n - 2)
      BY <1>1, <3>1
    <3>4. T \subseteq i..(n - 2)
      BY <1>1, <3>1, <3>2
    <3>5. ASSUME NEW k \in i..(n - 2)
          PROVE  k \in P <=> k \in T
      <4>1. k \in i..n /\ k \in i..Len(t) /\ \A j \in i..k : t[j] = p[j]
        BY <1>1, <1>6, <3>1
      <4> QED
        BY <4>1
    <3>6. P = T /\ \A k \in P : t[k] = p[k]
      <4>1. P = T
        <5> HIDE DEF P, T
        <5> QED
          BY <3>3, <3>4, <3>5
      <4>2. i..(n - 2) \subseteq 1..(n - 1)
        BY <1>1, <3>1
      <4> HIDE DEF P, T
      <4> QED
        BY <1>6, <3>3, <4>1, <4>2
    <3>7. Part(p, i) = [k \in P |-> p[k]] /\ Part(t, i) = [k \in T |-> t[k]]
      BY DEF Part
    <3> HIDE DEF P, T
    <3> QED
      BY <3>6, <3>7
  <2> QED
    BY <1>4, <2>1, <2>2
<1> QED
  BY <1>1, <1>5, <1>6, BeginsWithFront

\* What the text comparisons of MatchesPattern decide is what the pattern means,
\* for every pattern and topic.
LEMMA MatchesAsMeant ==
    ASSUME NEW C, NEW p \in Seq(C), NEW t \in Seq(C)
    PROVE  MatchesPattern(p, t) <=> Covers(p, t)
<1> DEFINE n == Len(p)
<1>1. n \in Nat /\ DOMAIN p = 1..n
  OBVIOUS
<1>2. CASE n >= 2 /\ p[n - 1] = "." /\ p[n] = "*"
  <2>1. IsSuffix(Below, p) /\ p # AnyTopic
    BY <1>2, EndsBelow DEF AnyTopic
  <2> QED
    BY <1>2, <2>1, GlobCovers DEF MatchesPattern
<1>3. CASE n = 1 /\ p[1] = "*"
  <2>1. p = AnyTopic
    BY <1>1, <1>3 DEF AnyTopic
  <2>2. Starts(p) = {1}
    BY <1>1, <1>3 DEF Starts
  <2>3. 1 \in Starts(t)
    BY DEF Starts
  <2> QED
    BY <1>3, <2>1, <2>2, <2>3 DEF MatchesPattern, Covers
<1>4. CASE ~(n >= 2 /\ p[n - 1] = "." /\ p[n] = "*") /\ ~(n = 1 /\ p[1] = "*")
  <2>1. ~IsSuffix(Below, p) /\ p # AnyTopic
    BY <1>4, EndsBelow DEF AnyTopic
  <2>2. ~(n \in Starts(p) /\ p[n] = "*")
    <3>1. SUFFICES ASSUME n \in Starts(p), p[n] = "*" PROVE FALSE
      OBVIOUS
    <3>2. n # 1
      BY <1>4, <3>1
    <3>3. PICK j \in DOMAIN p : p[j] = "." /\ n = j + 1
      BY <3>1, <3>2 DEF Starts
    <3>4. j = n - 1 /\ n >= 2
      BY <1>1, <3>3
    <3> QED
      BY <1>4, <3>1, <3>3, <3>4
  <2>3. Covers(p, t) <=> Parts(t) = Parts(p)
    BY <2>2 DEF Covers
  <2> QED
    BY <2>1, <2>3, PartsFixName DEF MatchesPattern
<1> QED
  BY <1>2, <1>3, <1>4

-----------------------------------------------------------------------------
(* Grants *)

\* An added row is a grant of an account that exists; a consume grant is new.
LEMMA InsertKeepsGrants ==
    ASSUME GrantTypeOK, NEW row \in Grant, Insert(row), row.action = "consume" => row \notin Grants
    PROVE  GrantTypeOK'
<1>1. PICK f \in GrantIds : grant[f] = NoGrant /\ grant' = [grant EXCEPT ![f] = row]
  <2>1. (CHOOSE g \in GrantIds : grant[g] = NoGrant) \in {g \in GrantIds : grant[g] = NoGrant}
    BY DEF Insert
  <2> QED
    BY <2>1 DEF Insert
<1>2. grant' \in [GrantIds -> Grant \cup {NoGrant}] /\ account'
  BY <1>1 DEF GrantTypeOK, Insert
<1>3. ASSUME NEW g \in GrantIds, NEW h \in GrantIds,
             grant'[g] # NoGrant, grant'[g] = grant'[h], grant'[g].action = "consume"
      PROVE  g = h
  BY <1>1, <1>3 DEF GrantTypeOK, Grants
<1> QED
  BY <1>2, <1>3 DEF GrantTypeOK

\* Whatever is given and taken back, the table holds grants of an account that
\* exists, and a consume grant once.
LEMMA GrantsTyped == PInit /\ [][PNext]_pvars => []GrantTypeOK
<1>1. PInit => GrantTypeOK
  BY DEF PInit, GrantTypeOK, Grants
<1>2. GrantTypeOK /\ [PNext]_pvars => GrantTypeOK'
  <2> SUFFICES ASSUME GrantTypeOK, [PNext]_pvars PROVE GrantTypeOK'
    OBVIOUS
  <2>1. ASSUME NEW a \in Actions, NEW p \in Patterns, addUserGrant(a, p)
        PROVE  GrantTypeOK'
    <3>1. [action |-> a, pattern |-> p, group |-> NoGroup] \in Grant /\ a # "consume"
      BY PermissionConstants DEF Grant
    <3> QED
      BY <2>1, <3>1, InsertKeepsGrants DEF addUserGrant
  <2>2. ASSUME NEW p \in Patterns, NEW c \in Groups, addConsumerGroupGrant(p, c)
        PROVE  GrantTypeOK'
    <3>1. [action |-> "consume", pattern |-> p, group |-> c] \in Grant
      BY DEF Grant
    <3> QED
      BY <2>2, <3>1, InsertKeepsGrants DEF addConsumerGroupGrant
  <2>3. ASSUME NEW f \in GrantIds, deleteUserGrant(f)
        PROVE  GrantTypeOK'
    <3>1. grant' = [grant EXCEPT ![f] = NoGrant] /\ account' = account
      BY <2>3 DEF deleteUserGrant
    <3>2. Grants' \subseteq Grants
      BY <3>1 DEF Grants, GrantTypeOK
    <3> QED
      BY <3>1, <3>2 DEF GrantTypeOK
  <2>4. CASE DeleteAccount
    BY <2>4 DEF DeleteAccount, GrantTypeOK, Grants
  <2>5. CASE UNCHANGED pvars
    BY <2>5 DEF pvars, GrantTypeOK, Grants
  <2> QED
    BY <2>1, <2>2, <2>3, <2>4, <2>5 DEF PNext
<1> QED
  BY <1>1, <1>2, PTL

\* GrantsDecide, for any sets of topics and patterns of any length: the two
\* servers agree, a pattern is decided by what it means part by part, and a
\* consume grant restricts its user whatever else was granted.
THEOREM GrantsDecideHolds == PInit /\ [][PNext]_pvars => []GrantsDecide
<1>1. GrantTypeOK => GrantsDecide
  <2> SUFFICES ASSUME GrantTypeOK, NEW t \in Topics
      PROVE  LET held == {g \in Grants : Covers(g.pattern, t)}
                 granted == {g.group : g \in {h \in held : h.action = "consume"}}
                 writes == \E g \in held : g.action = "write"
                 reads == \E g \in held : g.action = "read"
                 Consumes(c) == IF c = NoGroup THEN writes \/ granted # {}
                                ELSE IF granted = {} THEN writes ELSE c \in granted
             IN  /\ requireGrant("user", "read", t) <=> reads
                 /\ requireGrant("user", "write", t) <=> writes
                 /\ checkGrant("user", "write", t) <=> writes
                 /\ \A c \in Groups \cup {NoGroup} :
                       /\ checkDequeueGrant("user", t, c) <=> Consumes(c)
                       /\ requireDequeueGrant("user", t, c) <=> Consumes(c)
    BY DEF GrantsDecide
  <2> DEFINE held == {g \in Grants : Covers(g.pattern, t)}
             consume == {g \in held : g.action = "consume"}
             granted == {g.group : g \in consume}
             writes == \E g \in held : g.action = "write"
             reads == \E g \in held : g.action = "read"
             Consumes(c) == IF c = NoGroup THEN writes \/ granted # {}
                            ELSE IF granted = {} THEN writes ELSE c \in granted
  <2>1. ASSUME NEW g \in Grants
        PROVE  MatchesPattern(g.pattern, t) <=> Covers(g.pattern, t)
    <3>1. g.pattern \in Seq(STRING) /\ t \in Seq(STRING)
      BY PermissionConstants DEF GrantTypeOK, Grants, Grant
    <3> QED
      BY <3>1, MatchesAsMeant
  <2>2. ASSUME NEW a
        PROVE  HasGrant(Grants, a, t) <=> \E g \in held : g.action = a
    BY <2>1 DEF HasGrant
  <2>3. consume = {g \in Grants : g.action = "consume" /\ MatchesPattern(g.pattern, t)}
    BY <2>1
  <2>4. HasDequeueAccess(Grants, t) <=> writes \/ consume # {}
    BY <2>2 DEF HasDequeueAccess
  <2>5. ASSUME NEW c
        PROVE  HasConsumerGroupAccess(Grants, t, c) <=> consume = {} \/ \E g \in consume : g.group = c
    BY <2>3 DEF HasConsumerGroupAccess
  <2>6. granted = {} <=> consume = {}
    OBVIOUS
  <2>7. ASSUME NEW c
        PROVE  c \in granted <=> \E g \in consume : g.group = c
    OBVIOUS
  <2>8. ASSUME NEW c
        PROVE  /\ checkDequeueGrant("user", t, c) <=> Consumes(c)
               /\ requireDequeueGrant("user", t, c) <=> Consumes(c)
    <3> HIDE DEF held, consume, granted, writes
    <3>1. checkDequeueGrant("user", t, c) <=> requireDequeueGrant("user", t, c)
      BY DEF checkDequeueGrant, requireDequeueGrant
    <3>2. CASE c = NoGroup
      BY <2>4, <2>6, <3>1, <3>2 DEF checkDequeueGrant
    <3>3. CASE c # NoGroup
      BY <2>4, <2>5, <2>6, <2>7, <3>1, <3>3 DEF checkDequeueGrant
    <3> QED
      BY <3>2, <3>3
  <2>9. /\ requireGrant("user", "read", t) <=> reads
        /\ requireGrant("user", "write", t) <=> writes
        /\ checkGrant("user", "write", t) <=> writes
    <3>1. (HasGrant(Grants, "read", t) <=> reads) /\ (HasGrant(Grants, "write", t) <=> writes)
      BY <2>2
    <3>2. "user" # "admin"
      OBVIOUS
    <3> HIDE DEF reads, writes, held
    <3> QED
      BY <3>1, <3>2, Zenon DEF requireGrant, checkGrant
  <2> QED
    BY <2>8, <2>9
<1> QED
  BY <1>1, GrantsTyped, PTL

===============================================================================
