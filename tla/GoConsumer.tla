----------------------------- MODULE GoConsumer -----------------------------
(***************************************************************************)
(* The consuming side: the server's Subscribe loop, the stream, and the Go *)
(* client's Consume (a receive loop, a semaphore and one goroutine per     *)
(* message) and ConsumeBatch (polling).                                    *)
(*                                                                         *)
(* The topic is reduced to what a consumer sees of it: a message is        *)
(* pending, claimed, or at its end (acked, failed or in the DLQ).  A claim *)
(* that nobody holds any more is `lost`: Dequeue takes pending rows only.  *)
(***************************************************************************)
EXTENDS Naturals, Sequences, FiniteSets, SequencesExt

CONSTANTS
    Messages,    \* the messages of the topic, numbered in the order of created_at
    Streaming,   \* consumers that call Consume
    Polling,     \* consumers that call ConsumeBatch
    Streams,     \* Subscribe streams, reused once both ends are done
    Concurrency, \* WithConcurrency
    Window,      \* messages the transport holds for a stream
    BatchSize,   \* batchSize of ConsumeBatch
    MaxRetries,  \* retry budget of a message
    BackoffStart, BackoffMax, \* in any unit of time
    Null

Consumers == Streaming \cup Polling

ASSUME ConsumerConstants ==
    /\ Concurrency \in Nat \ {0} /\ Window \in Nat \ {0} /\ BatchSize \in Nat \ {0}
    /\ MaxRetries \in Nat /\ Messages \subseteq Nat
    /\ BackoffStart \in Nat \ {0} /\ BackoffMax \in Nat /\ BackoffStart <= BackoffMax
    /\ Streaming \cap Polling = {}
    /\ Null \notin Messages \cup Streams \cup Consumers

VARIABLES
    row,      \* the messages as the database has them
    lost,     \* claims whose holder forgot them (history)
    ctx,      \* the context of each Consume or ConsumeBatch call
    loop,     \* where each call is, and the message in its hand
    backoff,  \* its reconnect or polling backoff
    handlers, \* its handlers, with the message of each
    batch,    \* the messages of a batch that are not settled
    streamOf, \* the stream Consume reads
    serve,    \* the Subscribe call at the server's end of each stream
    pipe      \* the messages on their way in each stream

vars == <<row, lost, ctx, loop, backoff, handlers, batch, streamOf, serve, pipe>>
server == <<serve, pipe>>
client == <<ctx, loop, backoff, handlers, batch, streamOf>>

Pending == {m \in Messages : row[m].status = "pending"}
Claimed == {m \in Messages : row[m].status = "claimed"}

\* Whether a Consume call still reads the stream.
Read(s) == \E c \in Consumers : streamOf[c] = s

At(step) == [step |-> step, msg |-> Null]
Holding(step, m) == [step |-> step, msg |-> m]

Served == [at |-> At("loop"), link |-> "up"]
Unserved == [at |-> At("ended"), link |-> "down"]

Init ==
    /\ row = [m \in Messages |-> [status |-> "pending", retry |-> 0]]
    /\ lost = {}
    /\ ctx = [c \in Consumers |-> "live"]
    /\ loop = [c \in Consumers |-> IF c \in Streaming THEN At("connect") ELSE At("poll")]
    /\ backoff = [c \in Consumers |-> BackoffStart]
    /\ handlers = [c \in Consumers |-> {}]
    /\ batch = [c \in Consumers |-> {}]
    /\ streamOf = [c \in Consumers |-> Null]
    /\ serve = [s \in Streams |-> Unserved]
    /\ pipe = [s \in Streams |-> <<>>]

-----------------------------------------------------------------------------
(* The queue, as far as it is seen from here *)

\* ORDER BY created_at LIMIT n
Oldest(n) == {m \in Pending : Cardinality({k \in Pending : k < m}) < n}

Claim(S) == row' = [m \in Messages |-> IF m \in S THEN [row[m] EXCEPT !.status = "claimed"]
                                                  ELSE row[m]]

Retried(r) ==
    [status |-> IF r.retry + 1 >= MaxRetries THEN "ended" ELSE "pending", retry |-> r.retry + 1]

\* The two calls that settle a message; a row that is not claimed is refused.
Ack(r) == IF r.status = "claimed" THEN [r EXCEPT !.status = "ended"] ELSE r
Nack(r) == IF r.status = "claimed" THEN Retried(r) ELSE r

Settled(r, verb) == IF verb = "ack" THEN Ack(r) ELSE Nack(r)

-----------------------------------------------------------------------------
(* Subscribe, at the server *)

\* The context is checked at the head of the loop; the dequeue that follows
\* commits the claim.  An empty topic makes the loop wait and look again.
Take(s) ==
    /\ serve[s].at = At("loop")
    /\ serve[s].link # "down"
    /\ Pending # {}
    /\ Claim(Oldest(1))
    /\ serve' = [serve EXCEPT ![s].at = Holding("send", CHOOSE m \in Oldest(1) : TRUE)]
    /\ UNCHANGED <<lost, pipe, client>>

\* Any other error than an empty topic ends the call, and with it the stream
\* once what was sent before has been read.  A dequeue that fails late, in its
\* COMMIT, may have claimed a message all the same.
TakeFails(s) ==
    /\ serve[s].at = At("loop")
    /\ serve' = [serve EXCEPT ![s] = Unserved]
    /\ \/ UNCHANGED <<row, lost>>
       \/ Pending # {} /\ Claim(Oldest(1)) /\ lost' = lost \cup Oldest(1)
    /\ UNCHANGED <<pipe, client>>

\* Send waits for room in the flow-control window.  It reports success for
\* what the transport took, though the link may be cut or the client gone.
Send(s) ==
    LET m == serve[s].at.msg
    IN  /\ serve[s].at.step = "send"
        /\ serve[s].link # "down" /\ Len(pipe[s]) < Window
        /\ serve' = [serve EXCEPT ![s].at = At("loop")]
        /\ IF serve[s].link = "up" /\ Read(s)
           THEN pipe' = [pipe EXCEPT ![s] = Append(@, m)] /\ UNCHANGED lost
           ELSE lost' = lost \cup {m} /\ UNCHANGED pipe
        /\ UNCHANGED <<row, client>>

\* Seeded fault: a message that could not be sent, and what was sent before it
\* on this stream, is given back.
GiveBack(s) ==
    /\ serve[s].link = "down"
    /\ serve[s].at.step \in {"loop", "send"}
    /\ serve' = [serve EXCEPT ![s] = Unserved]
    /\ row' = [m \in Messages |->
                  IF m = serve[s].at.msg \/ \E c \in Consumers :
                        streamOf[c] = s /\ \E h \in handlers[c] : h.msg = m
                  THEN [row[m] EXCEPT !.status = "pending"] ELSE row[m]]
    /\ UNCHANGED <<lost, pipe, client>>

\* Seeded fault: Send waits for its window whatever becomes of the stream.
LeaveLoop(s) ==
    /\ serve[s].link = "down"
    /\ serve[s].at.step = "loop"
    /\ serve' = [serve EXCEPT ![s] = Unserved]
    /\ UNCHANGED <<row, lost, pipe, client>>

\* The stream's context is done: the loop returns, and so does Send, whose
\* message stays claimed.
Leave(s) ==
    /\ serve[s].link = "down"
    /\ serve[s].at.step \in {"loop", "send"}
    /\ serve' = [serve EXCEPT ![s] = Unserved]
    /\ lost' = lost \cup ({serve[s].at.msg} \ {Null})
    /\ UNCHANGED <<row, pipe, client>>

-----------------------------------------------------------------------------
(* The network *)

\* The link breaks; what has not arrived is gone.  The server does not know yet.
Cut(s) ==
    /\ serve[s].link = "up" \/ pipe[s] # <<>>
    /\ \E n \in 0..Len(pipe[s]) :
          /\ pipe' = [pipe EXCEPT ![s] = SubSeq(@, 1, n)]
          /\ lost' = lost \cup ToSet(SubSeq(pipe[s], n + 1, Len(pipe[s])))
    /\ serve' = [serve EXCEPT ![s].link = IF @ = "up" THEN "cut" ELSE @]
    /\ UNCHANGED <<row, client>>

\* The server sees that the link is cut or that the client has gone: the
\* context of the stream is done.
Notice(s) ==
    /\ \/ serve[s].link = "cut"
       \/ serve[s].link = "up" /\ ~Read(s)
    /\ serve' = [serve EXCEPT ![s].link = "down"]
    /\ UNCHANGED <<row, lost, pipe, client>>

-----------------------------------------------------------------------------
(* Consume *)

nextBackoff(b) == IF 2 * b > BackoffMax THEN BackoffMax ELSE 2 * b

Goto(c, at) == loop' = [loop EXCEPT ![c] = at]

Free(s) == serve[s] = Unserved /\ ~Read(s)

Subscribe(c) ==
    /\ loop[c] = At("connect") /\ ctx[c] = "live"
    /\ \E s \in Streams : Free(s)
    /\ LET s == CHOOSE s \in Streams : Free(s)
       IN  /\ serve' = [serve EXCEPT ![s] = Served]
           /\ pipe' = [pipe EXCEPT ![s] = <<>>]
           /\ streamOf' = [streamOf EXCEPT ![c] = s]
    /\ Goto(c, At("drain"))
    /\ UNCHANGED <<row, lost, ctx, backoff, handlers, batch>>

\* Both loops wait after a failed call; ConsumeBatch also after an empty one.
CallFails(c) ==
    /\ loop[c] \in {At("connect"), At("poll")} /\ ctx[c] = "live"
    /\ Goto(c, At("wait"))
    /\ UNCHANGED <<row, lost, ctx, backoff, handlers, batch, streamOf, server>>

\* time.After(backoff)
Wake(c) ==
    /\ loop[c] = At("wait") /\ ctx[c] = "live"
    /\ backoff' = [backoff EXCEPT ![c] = nextBackoff(@)]
    /\ Goto(c, IF c \in Streaming THEN At("connect") ELSE At("poll"))
    /\ UNCHANGED <<row, lost, ctx, handlers, batch, streamOf, server>>

\* Every call and every wait outside drainStream ends with the context.
CtxDone(c) ==
    /\ ctx[c] = "cancelled"
    /\ loop[c] \in {At("connect"), At("poll"), At("wait")}
    /\ Goto(c, At("returned"))
    /\ UNCHANGED <<row, lost, ctx, backoff, handlers, batch, streamOf, server>>

\* A message that has arrived may still be read when the context is done.
Recv(c) ==
    LET s == streamOf[c]
    IN  /\ loop[c] = At("drain") /\ pipe[s] # <<>>
        /\ Goto(c, Holding("slot", Head(pipe[s])))
        /\ pipe' = [pipe EXCEPT ![s] = Tail(@)]
        /\ backoff' = [backoff EXCEPT ![c] = BackoffStart]
        /\ UNCHANGED <<row, lost, ctx, handlers, batch, streamOf, serve>>

\* Seeded fault: Recv is called again on the stream that failed.
RecvAgain(c) ==
    LET s == streamOf[c]
    IN  /\ loop[c] = At("drain") /\ ctx[c] = "live"
        /\ pipe[s] = <<>> /\ serve[s].link # "up"
        /\ backoff' = [backoff EXCEPT ![c] = nextBackoff(@)]
        /\ UNCHANGED <<row, lost, ctx, loop, handlers, batch, streamOf, server>>

\* Recv fails when the stream is over and empty, or when the context is done.
\* A clean exit finds the context done and Consume returns: this server ends a
\* stream without an error only once the stream's context is done.
RecvError(c) ==
    LET s == streamOf[c]
    IN  /\ loop[c] = At("drain")
        /\ \/ ctx[c] = "cancelled"
           \/ pipe[s] = <<>> /\ serve[s].link # "up"
        /\ Goto(c, IF ctx[c] = "live" THEN At("wait") ELSE At("returned"))
        /\ lost' = lost \cup ToSet(pipe[s])
        /\ pipe' = [pipe EXCEPT ![s] = <<>>]
        /\ streamOf' = [streamOf EXCEPT ![c] = Null]
        /\ UNCHANGED <<row, ctx, backoff, handlers, batch, serve>>

\* Room in the channel `sem`, which all streams of one Consume share.
SlotFree(c) == Cardinality(handlers[c]) < Concurrency

\* sem <- struct{}{} and go dispatch: the context is not looked at.
Dispatch(c) ==
    /\ loop[c].step = "slot" /\ SlotFree(c)
    /\ handlers' = [handlers EXCEPT ![c] = @ \cup {[msg |-> loop[c].msg, step |-> "run"]}]
    /\ Goto(c, At("drain"))
    /\ UNCHANGED <<row, lost, ctx, backoff, batch, streamOf, server>>

\* The handler returns or panics, and the Ack or the Nack call starts; with a
\* context that is done the call fails at once.
HandlerEnds(c, h) ==
    /\ h.step = "run"
    /\ IF ctx[c] = "live"
       THEN /\ \E verb \in {"ack", "nack"} :
                  handlers' = [handlers EXCEPT ![c] = (@ \ {h}) \cup {[h EXCEPT !.step = verb]}]
            /\ UNCHANGED lost
       ELSE /\ handlers' = [handlers EXCEPT ![c] = @ \ {h}]
            /\ lost' = lost \cup {h.msg}
    /\ UNCHANGED <<row, ctx, loop, backoff, batch, streamOf, server>>

\* The call is carried out or never arrives; either way the slot is given back.
\* An error is logged, and the call is not repeated.
SettleCall(c, h) ==
    /\ h.step \in {"ack", "nack"}
    /\ \/ row' = [row EXCEPT ![h.msg] = Settled(@, h.step)] /\ UNCHANGED lost
       \/ lost' = lost \cup {h.msg} /\ UNCHANGED row
    /\ handlers' = [handlers EXCEPT ![c] = @ \ {h}]
    /\ UNCHANGED <<ctx, loop, backoff, batch, streamOf, server>>

-----------------------------------------------------------------------------
(* ConsumeBatch *)

\* BatchDequeue claims up to BatchSize messages in one transaction.  The answer
\* arrives, or the call fails although the claims are committed.
BatchDequeue(c) ==
    LET S == Oldest(BatchSize)
    IN  /\ loop[c] = At("poll") /\ ctx[c] = "live"
        /\ S # {}
        /\ Claim(S)
        /\ \/ /\ batch' = [batch EXCEPT ![c] = S]
              /\ backoff' = [backoff EXCEPT ![c] = BackoffStart]
              /\ Goto(c, At("batch"))
              /\ UNCHANGED lost
           \/ /\ lost' = lost \cup S
              /\ Goto(c, At("wait"))
              /\ UNCHANGED <<batch, backoff>>
        /\ UNCHANGED <<ctx, handlers, streamOf, server>>

\* The handler calls Ack or Nack for the messages it chooses.
SettleOne(c, m, verb) ==
    /\ loop[c] = At("batch") /\ m \in batch[c]
    /\ \/ ctx[c] = "live" /\ row' = [row EXCEPT ![m] = Settled(@, verb)] /\ UNCHANGED lost
       \/ lost' = lost \cup {m} /\ UNCHANGED row
    /\ batch' = [batch EXCEPT ![c] = @ \ {m}]
    /\ UNCHANGED <<ctx, loop, backoff, handlers, streamOf, server>>

\* The handler returns, with or without an error: what it did not settle is
\* left as it is.
BatchEnds(c) ==
    /\ loop[c] = At("batch")
    /\ lost' = lost \cup batch[c]
    /\ batch' = [batch EXCEPT ![c] = {}]
    /\ Goto(c, IF ctx[c] = "live" THEN At("poll") ELSE At("returned"))
    /\ UNCHANGED <<row, ctx, backoff, handlers, streamOf, server>>

-----------------------------------------------------------------------------
(* The program that uses the client *)

Cancel(c) ==
    /\ ctx[c] = "live"
    /\ ctx' = [ctx EXCEPT ![c] = "cancelled"]
    /\ UNCHANGED <<row, lost, loop, backoff, handlers, batch, streamOf, server>>

\* The process of the consumer dies with everything it holds.
Crash(c) ==
    LET held == {loop[c].msg} \cup {h.msg : h \in handlers[c]} \cup batch[c]
        onTheWay == IF streamOf[c] = Null THEN {} ELSE ToSet(pipe[streamOf[c]])
    IN  /\ loop[c] # At("returned")
        /\ ctx' = [ctx EXCEPT ![c] = "cancelled"]
        /\ Goto(c, At("returned"))
        /\ handlers' = [handlers EXCEPT ![c] = {}]
        /\ batch' = [batch EXCEPT ![c] = {}]
        /\ lost' = lost \cup (held \ {Null}) \cup onTheWay
        /\ streamOf' = [streamOf EXCEPT ![c] = Null]
        /\ pipe' = [s \in Streams |-> IF s = streamOf[c] THEN <<>> ELSE pipe[s]]
        /\ UNCHANGED <<row, backoff, serve>>

-----------------------------------------------------------------------------

Next ==
    \/ \E s \in Streams :
          Take(s) \/ TakeFails(s) \/ Send(s) \/ Leave(s) \/ Cut(s) \/ Notice(s)
    \/ \E c \in Streaming :
          \/ Subscribe(c) \/ Recv(c) \/ RecvError(c) \/ Dispatch(c)
          \/ \E h \in handlers[c] : HandlerEnds(c, h) \/ SettleCall(c, h)
    \/ \E c \in Polling :
          \/ BatchDequeue(c) \/ BatchEnds(c)
          \/ \E m \in Messages, verb \in {"ack", "nack"} : SettleOne(c, m, verb)
    \/ \E c \in Consumers : CallFails(c) \/ Wake(c) \/ CtxDone(c) \/ Cancel(c) \/ Crash(c)

Spec == Init /\ [][Next]_vars

\* The steps of each goroutine that runs Subscribe, Consume or ConsumeBatch.
Serving(s) == Send(s) \/ Leave(s)
Consuming(c) ==
    Subscribe(c) \/ Recv(c) \/ RecvError(c) \/ Dispatch(c) \/ Wake(c) \/ CtxDone(c)

\* Goroutines run on, calls end and a cut link is noticed.  How long a handler
\* takes is the program's own affair: what depends on it says so.
Fairness ==
    /\ \A s \in Streams : WF_vars(Serving(s)) /\ WF_vars(Notice(s))
    /\ \A c \in Streaming :
          /\ WF_vars(Consuming(c))
          /\ \A m \in Messages : WF_vars(\E h \in handlers[c] : h.msg = m /\ SettleCall(c, h))
    /\ \A c \in Polling : WF_vars(Wake(c) \/ CtxDone(c))

FairSpec == Spec /\ Fairness

-----------------------------------------------------------------------------
(* Properties *)

Step == {"connect", "poll", "wait", "drain", "batch", "returned"}
Handler == [msg : Messages, step : {"run", "ack", "nack"}]

\* Where a call is: at a step with nothing in hand, or at one that holds a message.
Position(free, holding) == [step : free, msg : {Null}] \cup [step : holding, msg : Messages]

\* What each part of a consumer and of a stream can be; a backoff never leaves
\* its range and a stream never holds more than the window.
ConsumerTypeOK ==
    /\ row \in [Messages -> [status : {"pending", "claimed", "ended"}, retry : Nat]]
    /\ lost \subseteq Messages
    /\ ctx \in [Consumers -> {"live", "cancelled"}]
    /\ loop \in [Consumers -> Position(Step, {"slot"})]
    /\ backoff \in [Consumers -> BackoffStart..BackoffMax]
    /\ handlers \in [Consumers -> SUBSET Handler]
    /\ batch \in [Consumers -> SUBSET Messages]
    /\ streamOf \in [Consumers -> Streams \cup {Null}]
    /\ serve \in [Streams -> [at : Position({"loop", "ended"}, {"send"}),
                              link : {"up", "cut", "down"}]]
    /\ pipe \in [Streams -> Seq(Messages)]
    /\ \A s \in Streams : Len(pipe[s]) <= Window

Sending(m) == {s \in Streams : serve[s].at.msg = m}
Travelling(m) == {s \in Streams : m \in ToSet(pipe[s])}
InHand(m) == {c \in Consumers : loop[c].msg = m \/ m \in batch[c]}
Handling(m) == {p \in Consumers \X Handler : p[2] \in handlers[p[1]] /\ p[2].msg = m}

\* A claimed message is in exactly one place between the database and a handler,
\* or the failure of a link, a call, a handler or a context has let go of it: no
\* claim is forgotten without one, and no message is handled twice at once.
ClaimHasOneOwner ==
    \A m \in Messages :
        LET owners == Cardinality(Sending(m)) + Cardinality(Travelling(m))
                        + Cardinality(InHand(m)) + Cardinality(Handling(m))
        IN  owners = IF m \in Claimed /\ m \notin lost THEN 1 ELSE 0

Running(c, m) == \/ \E h \in handlers[c] : h.msg = m /\ h.step = "run"
                 \/ loop[c] = At("batch")

HandlersReturn == \A c \in Consumers, m \in Messages : []<>~Running(c, m)

\* If every handler returns, a claim ends: the message is settled or a failure
\* let go of it.  No order of full windows, taken slots and broken streams
\* leaves it waiting in between.
ClaimEnds == HandlersReturn => \A m \in Messages : m \in Claimed \ lost ~> m \notin Claimed \ lost

\* If every handler returns, Consume and ConsumeBatch return once their context
\* is done, although the wait for a slot does not watch it.
CancelReturns ==
    HandlersReturn => \A c \in Consumers : ctx[c] = "cancelled" ~> loop[c] = At("returned")

=============================================================================
