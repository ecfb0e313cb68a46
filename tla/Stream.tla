------------------------------- MODULE Stream -------------------------------
(***************************************************************************)
(* One response of GET /api/sessions/today: the handler goroutine and the  *)
(* heartbeat goroutine write to the same ResponseWriter through sse.Writer *)
(* (internal/sse/sse.go, internal/handler/sessions.go:64-90).              *)
(*                                                                         *)
(* A frame is written in two fragments and then flushed: two goroutines    *)
(* that write at once would mix them.  A fragment is <<event, part>>, where*)
(* event 0 is a keepalive and event n the n-th one the handler sends.      *)
(***************************************************************************)
EXTENDS Integers, Sequences, FiniteSets

CONSTANTS
    Handler, Beat,  \* the two goroutines
    NoOne,          \* the owner of a free mutex
    MaxEvents,      \* bound on the events of a stream
    MaxTicks        \* bound on the ticks: 15 s into a deadline of 60 s

ASSUME StreamAssumption ==
    /\ Cardinality({Handler, Beat, NoOne}) = 3
    /\ MaxEvents \in Nat \ {0}
    /\ MaxTicks \in Nat

VARIABLES
    mu,         \* who holds sw.mu
    pc,         \* what each goroutine does next
    total,      \* the events of this stream: an error, or a plan to a done
    event,      \* the event the handler is at
    done,       \* the context is done
    broken,     \* the client is gone
    ticks,      \* how often the ticker has fired
    tick,       \* a tick waits in ticker.C
    wire,       \* the fragments the response has taken, in order
    flushed,    \* how many of them are on their way to the client
    late        \* history: a response that is over was written to or flushed

vars == <<mu, pc, total, event, done, broken, ticks, tick, wire, flushed, late>>

Goroutines == {Handler, Beat}

Fragments == (0..MaxEvents) \X {1, 2}

TypeOK ==
    /\ mu \in Goroutines \cup {NoOne}
    /\ pc \in [Goroutines -> {"idle", "lock", "first", "rest", "flush", "returned"}]
    /\ total \in 1..MaxEvents
    /\ event \in 0..total
    /\ done \in BOOLEAN
    /\ broken \in BOOLEAN
    /\ ticks \in 0..MaxTicks
    /\ tick \in BOOLEAN
    /\ wire \in Seq(Fragments)
    /\ flushed \in 0..Len(wire)
    /\ late \in BOOLEAN

\* Both goroutines run: the handler builds the session, the heartbeat waits.
Init ==
    /\ mu = NoOne
    /\ pc = [g \in Goroutines |-> "idle"]
    /\ total \in 1..MaxEvents
    /\ event = 0
    /\ done = FALSE
    /\ broken = FALSE
    /\ ticks = 0
    /\ tick = FALSE
    /\ wire = <<>>
    /\ flushed = 0
    /\ late = FALSE

Enter(g, step) == pc' = [pc EXCEPT ![g] = step]

Open == pc[Handler] # "returned"

-----------------------------------------------------------------------------
\* The deadline passes, or net/http learns that the client is gone.
Expire ==
    /\ done' = TRUE
    /\ UNCHANGED <<mu, pc, total, event, broken, ticks, tick, wire, flushed, late>>

\* The client goes away.
Disconnect ==
    /\ broken' = TRUE
    /\ UNCHANGED <<mu, pc, total, event, done, ticks, tick, wire, flushed, late>>

\* ticker.C has room for one tick; another one is dropped.
Tick ==
    /\ pc[Beat] # "returned"
    /\ ticks < MaxTicks
    /\ ticks' = ticks + 1
    /\ tick' = TRUE
    /\ UNCHANGED <<mu, pc, total, event, done, broken, wire, flushed, late>>

-----------------------------------------------------------------------------
\* The next event is there, whatever became of the one before and whether or
\* not the context is done: write errors are dropped.
SendNext ==
    /\ pc[Handler] = "idle"
    /\ event < total
    /\ event' = event + 1
    /\ Enter(Handler, "lock")
    /\ UNCHANGED <<mu, total, done, broken, ticks, tick, wire, flushed, late>>

HandlerReturns_FaultyOnDone ==
    /\ pc[Handler] = "idle"
    /\ event = total \/ done
    /\ done' = TRUE
    /\ flushed' = Len(wire)
    /\ Enter(Handler, "returned")
    /\ UNCHANGED <<mu, total, event, broken, ticks, tick, wire, late>>

\* The deferred cancel, and net/http ends the response: nobody waits for the
\* heartbeat.
HandlerReturns ==
    /\ pc[Handler] = "idle"
    /\ event = total
    /\ done' = TRUE
    /\ flushed' = Len(wire)
    /\ Enter(Handler, "returned")
    /\ UNCHANGED <<mu, total, event, broken, ticks, tick, wire, late>>

\* case <-ctx.Done()
BeatReturns ==
    /\ pc[Beat] = "idle"
    /\ done
    /\ Enter(Beat, "returned")
    /\ UNCHANGED <<mu, total, event, done, broken, ticks, tick, wire, flushed, late>>

\* case <-ticker.C, which may be taken also when the context is done.
BeatWakes ==
    /\ pc[Beat] = "idle"
    /\ tick
    /\ tick' = FALSE
    /\ Enter(Beat, "lock")
    /\ UNCHANGED <<mu, total, event, done, broken, ticks, wire, flushed, late>>

-----------------------------------------------------------------------------
Lock_FaultyBeatUnlocked(g) ==
    /\ pc[g] = "lock"
    /\ mu = NoOne \/ g = Beat
    /\ mu' = g
    /\ Enter(g, "first")
    /\ UNCHANGED <<total, event, done, broken, ticks, tick, wire, flushed, late>>

Lock(g) ==
    /\ pc[g] = "lock"
    /\ mu = NoOne
    /\ mu' = g
    /\ Enter(g, "first")
    /\ UNCHANGED <<total, event, done, broken, ticks, tick, wire, flushed, late>>

Frame(g) == IF g = Handler THEN event ELSE 0

\* What goes to a client that has left is gone.  A response that is over may
\* not be used any more: what net/http does with it then is open, and only
\* that this response takes nothing more is sure.
Put(g, part) ==
    wire' = IF Open /\ ~broken THEN Append(wire, <<Frame(g), part>>) ELSE wire

UsesResponse == late' = (late \/ ~Open)

\* The response may pass on what it has at any time.
Write(g) ==
    /\ pc[g] \in {"first", "rest"}
    /\ IF pc[g] = "first" THEN Put(g, 1) /\ Enter(g, "rest")
                          ELSE Put(g, 2) /\ Enter(g, "flush")
    /\ flushed' \in {flushed, Len(wire)}
    /\ UsesResponse
    /\ UNCHANGED <<mu, total, event, done, broken, ticks, tick>>

\* After a write the heartbeat waits for the next tick, the handler for the
\* next event.
Flush(g) ==
    /\ pc[g] = "flush"
    /\ flushed' = Len(wire)
    /\ mu' = NoOne
    /\ Enter(g, "idle")
    /\ UsesResponse
    /\ UNCHANGED <<total, event, done, broken, ticks, tick, wire>>

WriteFails_FaultyKeepsMutex(g) ==
    /\ pc[g] \in {"first", "rest"}
    /\ broken \/ ~Open
    /\ mu' = IF g = Beat THEN mu ELSE NoOne
    /\ Enter(g, IF g = Beat THEN "returned" ELSE "idle")
    /\ UsesResponse
    /\ UNCHANGED <<total, event, done, broken, ticks, tick, wire, flushed>>

\* The write reports an error: the heartbeat ends, the handler goes on.
WriteFails(g) ==
    /\ pc[g] \in {"first", "rest"}
    /\ broken \/ ~Open
    /\ mu' = NoOne
    /\ Enter(g, IF g = Beat THEN "returned" ELSE "idle")
    /\ UsesResponse
    /\ UNCHANGED <<total, event, done, broken, ticks, tick, wire, flushed>>

\* A response that is over may also panic when it is written to or flushed.
\* Nothing recovers a panic of this goroutine: the process ends.
BeatPanics ==
    /\ pc[Beat] \in {"first", "rest", "flush"}
    /\ ~Open
    /\ mu' = NoOne
    /\ Enter(Beat, "returned")
    /\ UsesResponse
    /\ UNCHANGED <<total, event, done, broken, ticks, tick, wire, flushed>>

Send(g) == Lock(g) \/ Write(g) \/ Flush(g) \/ WriteFails(g)

HandlerSteps == SendNext \/ HandlerReturns \/ Send(Handler)

BeatSteps == BeatReturns \/ BeatWakes \/ Send(Beat) \/ BeatPanics

Next == Expire \/ Disconnect \/ Tick \/ HandlerSteps \/ BeatSteps

Spec == Init /\ [][Next]_vars

\* A goroutine that can move does: every call of the handler ends with the
\* context, and a stream is far smaller than what a socket takes unread.
FairSpec == Spec /\ WF_vars(HandlerSteps) /\ WF_vars(BeatSteps)

-----------------------------------------------------------------------------
\* The events of which both fragments are on the wire.
WholeEvents == {n \in 1..total : \E i \in DOMAIN wire : wire[i] = <<n, 2>>}

Promise == INSTANCE EventStream WITH
    arrived <- Cardinality(WholeEvents), lost <- broken, closed <- ~Open

\* What the client can read, keepalives aside, is the handler's events in
\* order, each once, all of them unless the connection breaks, and none after
\* the end (sse.go:57-69).
ImplementsEventStream == Promise!Spec

\* The frames on the wire are whole and never mixed, keepalives and events
\* alike: only the frame that is being written, at which the connection broke,
\* or at which the response ended, may be half there; and the events are in
\* order (sse.go:62-68, 103).  And "flushes each event immediately"
\* (sse.go:34-35): when nobody is writing, nothing the response has taken waits
\* for a later frame to push it out.
FramesNeverMix ==
    /\ \A i \in DOMAIN wire :
        IF i % 2 = 1 THEN wire[i][2] = 1
                     ELSE wire[i] = <<wire[i - 1][1], 2>>
    /\ Len(wire) % 2 = 1 => broken \/ ~Open \/ \E g \in Goroutines : pc[g] = "rest"
    /\ \A i, j \in DOMAIN wire : i < j /\ wire[j][1] # 0 => wire[i][1] <= wire[j][1]
    /\ mu = NoOne => flushed = Len(wire) \/ broken

\* Every stream ends and leaves no goroutine behind, also when a write fails
\* while the other goroutine waits for the mutex (sse.go:98-110).
BothGoroutinesEnd == <>[](\A g \in Goroutines : pc[g] = "returned")

============================================================================
