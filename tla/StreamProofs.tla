---------------------------- MODULE StreamProofs ----------------------------
(***************************************************************************)
(* The two goroutines of a stream, for every length of a stream and every  *)
(* number of ticks.                                                        *)
(*                                                                         *)
(* The invariant says who holds the mutex (MutexHeld), which frame is half *)
(* on the wire while the connection is there (FrameUnderWay), what has     *)
(* been passed on (Flushed) and which events are whole on the wire         *)
(* (EventsWhole).  The promise to the client follows step by step.         *)
(***************************************************************************)
EXTENDS Stream, FiniteSetTheorems, TLAPS

MutexHeld ==
    \A g \in Goroutines : pc[g] \in {"first", "rest", "flush"} <=> mu = g

Shape ==
    \A i \in DOMAIN wire :
        /\ i % 2 = 1 => wire[i][2] = 1
        /\ i % 2 = 0 => i - 1 \in DOMAIN wire /\ wire[i] = <<wire[i - 1][1], 2>>

FrameUnderWay ==
    Open /\ ~broken =>
        /\ Len(wire) % 2 = 1 => \E g \in Goroutines : pc[g] = "rest"
        /\ \A g \in Goroutines : pc[g] = "rest" =>
             Len(wire) % 2 = 1 /\ wire[Len(wire)] = <<Frame(g), 1>>

EventsInOrder ==
    /\ \A i \in DOMAIN wire : wire[i][1] <= event
    /\ \A i, j \in DOMAIN wire : i < j /\ wire[j][1] # 0 => wire[i][1] <= wire[j][1]

Flushed ==
    /\ mu = NoOne => flushed = Len(wire) \/ broken
    /\ ~Open => flushed = Len(wire) /\ event = total

\* The events that are whole on the wire of an open connection.
LastWhole == IF pc[Handler] \in {"lock", "first", "rest"} THEN event - 1 ELSE event

EventsWhole ==
    /\ pc[Handler] \in {"lock", "first", "rest"} => event >= 1
    /\ Open /\ ~broken => WholeEvents = 1..LastWhole

IInv ==
    /\ TypeOK
    /\ MutexHeld
    /\ Shape
    /\ FrameUnderWay
    /\ EventsInOrder
    /\ Flushed
    /\ EventsWhole

-----------------------------------------------------------------------------
\* Handler, Beat and NoOne are three different values.
LEMMA Distinct == Handler # Beat /\ Handler # NoOne /\ Beat # NoOne
<1>1. \A a, b : Cardinality({a, b}) <= 2
  <2> TAKE a, b
  <2>1. IsFiniteSet({a}) /\ Cardinality({a}) = 1
    BY FS_Singleton
  <2>2. IsFiniteSet({a} \cup {b}) /\ Cardinality({a} \cup {b}) \in {1, 2}
    BY <2>1, FS_AddElement
  <2>3. {a} \cup {b} = {a, b}
    OBVIOUS
  <2> QED
    BY <2>2, <2>3
<1>2. ASSUME NEW a, NEW b, {Handler, Beat, NoOne} = {a, b}
      PROVE  FALSE
  <2>1. Cardinality({a, b}) = 3
    BY <1>2, StreamAssumption DEF StreamAssumption
  <2>2. Cardinality({a, b}) <= 2
    BY <1>1
  <2> QED
    BY <2>1, <2>2
<1>3. ASSUME Handler = Beat \/ Handler = NoOne PROVE FALSE
  <2>1. {Handler, Beat, NoOne} = {Beat, NoOne}
    BY <1>3
  <2> QED
    BY <1>2, <2>1
<1>4. ASSUME Beat = NoOne PROVE FALSE
  <2>1. {Handler, Beat, NoOne} = {Handler, NoOne}
    BY <1>4
  <2> QED
    BY <1>2, <2>1
<1> QED
  BY <1>3, <1>4

Steps == {"idle", "lock", "first", "rest", "flush", "returned"}

\* Only the goroutine that enters a step moves.
LEMMA EnterMoves ==
    ASSUME TypeOK, NEW g \in Goroutines, NEW step \in Steps, Enter(g, step)
    PROVE  /\ pc' \in [Goroutines -> Steps]
           /\ pc'[g] = step
           /\ \A h \in Goroutines \ {g} : pc'[h] = pc[h]
BY DEF TypeOK, Enter, Steps

\* A wire that does not change keeps its frames and events.
LEMMA WireKept ==
    ASSUME IInv, UNCHANGED <<wire, total>>, event' \in Nat, event' >= event
    PROVE  Shape' /\ EventsInOrder' /\ WholeEvents' = WholeEvents
<1>1. Shape'
  BY DEF IInv, Shape
<1>2. EventsInOrder'
  <2>1. \A i \in DOMAIN wire : wire[i][1] \in Int
    BY DEF IInv, TypeOK, Fragments
  <2>2. event \in Int /\ event' \in Int
    BY DEF IInv, TypeOK
  <2> QED
    BY <2>1, <2>2 DEF IInv, EventsInOrder
<1>3. WholeEvents' = WholeEvents
  BY DEF WholeEvents
<1> QED
  BY <1>1, <1>2, <1>3

\* The invariant holds at the start.
LEMMA StreamInit == Init => IInv
<1> SUFFICES ASSUME Init PROVE IInv
  OBVIOUS
<1>1. TypeOK
  <2>1. wire \in Seq(Fragments) /\ flushed \in 0..Len(wire)
    BY DEF Init
  <2>2. pc \in [Goroutines -> Steps]
    BY DEF Init, Steps
  <2>3. /\ total \in 1..MaxEvents /\ event \in 0..total
        /\ ticks \in 0..MaxTicks
    BY StreamAssumption DEF Init, StreamAssumption
  <2> QED
    BY <2>1, <2>2, <2>3 DEF Init, TypeOK, Steps
<1>2. MutexHeld
  BY Distinct DEF Init, MutexHeld, Goroutines
<1>3. Shape /\ EventsInOrder
  BY DEF Init, Shape, EventsInOrder
<1>4. FrameUnderWay
  BY DEF Init, FrameUnderWay, Goroutines
<1>5. Flushed
  BY DEF Init, Flushed, Open, Goroutines
<1>6. EventsWhole
  <2>1. WholeEvents = {}
    BY DEF Init, WholeEvents
  <2>2. pc[Handler] = "idle" /\ event = 0
    BY DEF Init, Goroutines
  <2> QED
    BY <2>1, <2>2 DEF EventsWhole, LastWhole
<1> QED
  BY <1>1, <1>2, <1>3, <1>4, <1>5, <1>6 DEF IInv

-----------------------------------------------------------------------------
\* What happens around the writers: the deadline, the client, the ticker.
LEMMA OutsideKeeps ==
    ASSUME IInv, Expire \/ Disconnect \/ Tick
    PROVE  IInv'
<1>1. /\ UNCHANGED <<mu, pc, total, event, wire, flushed>>
      /\ broken => broken'
  BY DEF Expire, Disconnect, Tick
<1>2. TypeOK'
  <2>1. CASE Expire \/ Disconnect
    BY <2>1 DEF IInv, TypeOK, Expire, Disconnect
  <2>2. CASE Tick
    <3>1. ticks' \in 0..MaxTicks
      BY <2>2, StreamAssumption DEF IInv, TypeOK, Tick, StreamAssumption
    <3> QED
      BY <2>2, <3>1 DEF IInv, TypeOK, Tick
  <2> QED
    BY <2>1, <2>2
<1>3. MutexHeld'
  BY <1>1 DEF IInv, MutexHeld
<1>4. Shape' /\ EventsInOrder' /\ WholeEvents' = WholeEvents
  BY <1>1, WireKept DEF IInv, TypeOK
<1>5. FrameUnderWay'
  BY <1>1 DEF IInv, FrameUnderWay, Open, Frame
<1>6. Flushed'
  BY <1>1 DEF IInv, Flushed, Open
<1>7. EventsWhole'
  BY <1>1, <1>4 DEF IInv, EventsWhole, LastWhole, Open
<1> QED
  BY <1>2, <1>3, <1>4, <1>5, <1>6, <1>7 DEF IInv

\* The handler begins its next event.
LEMMA SendNextKeeps ==
    ASSUME IInv, SendNext
    PROVE  IInv'
<1>1. /\ pc[Handler] = "idle" /\ pc'[Handler] = "lock"
      /\ \A h \in Goroutines \ {Handler} : pc'[h] = pc[h]
      /\ pc' \in [Goroutines -> Steps]
  BY EnterMoves DEF IInv, SendNext, Steps, Goroutines
<1>2. event' = event + 1 /\ event \in Nat /\ event' \in 0..total /\ total \in Nat
  BY StreamAssumption DEF IInv, TypeOK, SendNext, StreamAssumption
<1>3. UNCHANGED <<mu, total, done, broken, ticks, tick, wire, flushed, late>>
  BY DEF SendNext
<1>4. TypeOK'
  BY <1>1, <1>2, <1>3 DEF IInv, TypeOK, Steps
<1>5. MutexHeld'
  BY <1>1, <1>3 DEF IInv, MutexHeld, Goroutines
<1>6. Shape' /\ EventsInOrder' /\ WholeEvents' = WholeEvents
  BY <1>2, <1>3, WireKept
<1>7. FrameUnderWay'
  BY <1>1, <1>3 DEF IInv, FrameUnderWay, Open, Frame
<1>8. Flushed'
  BY <1>1, <1>3 DEF IInv, Flushed, Open
<1>9. EventsWhole'
  BY <1>1, <1>2, <1>3, <1>6 DEF IInv, EventsWhole, LastWhole, Open
<1> QED
  BY <1>4, <1>5, <1>6, <1>7, <1>8, <1>9 DEF IInv

\* The handler returns with its events sent or its connection broken.
LEMMA HandlerReturnsKeeps ==
    ASSUME IInv, HandlerReturns
    PROVE  IInv'
<1>1. /\ pc[Handler] = "idle" /\ pc'[Handler] = "returned"
      /\ \A h \in Goroutines \ {Handler} : pc'[h] = pc[h]
      /\ pc' \in [Goroutines -> Steps]
  BY EnterMoves DEF IInv, HandlerReturns, Steps, Goroutines
<1>2. /\ UNCHANGED <<mu, total, event, broken, ticks, tick, wire, late>>
      /\ done' = TRUE /\ flushed' = Len(wire) /\ event = total
  BY DEF HandlerReturns
<1>3. Len(wire) \in Nat /\ event \in Nat
  BY DEF IInv, TypeOK
<1>4. TypeOK'
  BY <1>1, <1>2, <1>3 DEF IInv, TypeOK, Steps
<1>5. MutexHeld'
  BY <1>1, <1>2 DEF IInv, MutexHeld, Goroutines
<1>6. Shape' /\ EventsInOrder' /\ WholeEvents' = WholeEvents
  BY <1>2, <1>3, WireKept
<1>7. FrameUnderWay' /\ Flushed' /\ EventsWhole'
  BY <1>1, <1>2 DEF FrameUnderWay, Flushed, EventsWhole, Open
<1> QED
  BY <1>4, <1>5, <1>6, <1>7 DEF IInv

\* The heartbeat wakes or returns.
LEMMA BeatMovesKeeps ==
    ASSUME IInv, BeatReturns \/ BeatWakes
    PROVE  IInv'
<1>1. /\ pc[Beat] = "idle" /\ pc'[Beat] \in {"returned", "lock"}
      /\ \A h \in Goroutines \ {Beat} : pc'[h] = pc[h]
      /\ pc' \in [Goroutines -> Steps]
  BY EnterMoves DEF IInv, BeatReturns, BeatWakes, Steps, Goroutines
<1>2. UNCHANGED <<mu, total, event, done, broken, ticks, wire, flushed, late>>
  BY DEF BeatReturns, BeatWakes
<1>3. pc'[Handler] = pc[Handler]
  BY <1>1, Distinct DEF Goroutines
<1>4. TypeOK'
  BY <1>1, <1>2 DEF IInv, TypeOK, Steps, BeatReturns, BeatWakes
<1>5. MutexHeld'
  BY <1>1, <1>2 DEF IInv, MutexHeld, Goroutines
<1>6. Shape' /\ EventsInOrder' /\ WholeEvents' = WholeEvents
  BY <1>2, WireKept DEF IInv, TypeOK
<1>7. FrameUnderWay'
  BY <1>1, <1>2, <1>3 DEF IInv, FrameUnderWay, Open, Frame
<1>8. Flushed' /\ EventsWhole'
  BY <1>2, <1>3, <1>6 DEF IInv, Flushed, EventsWhole, LastWhole, Open
<1> QED
  BY <1>4, <1>5, <1>6, <1>7, <1>8 DEF IInv

\* Whoever takes the mutex finds whole frames.
LEMMA LockKeeps ==
    ASSUME IInv, NEW g \in Goroutines, Lock(g)
    PROVE  IInv'
<1>1. /\ pc[g] = "lock" /\ pc'[g] = "first"
      /\ \A h \in Goroutines \ {g} : pc'[h] = pc[h]
      /\ pc' \in [Goroutines -> Steps]
  BY EnterMoves DEF IInv, Lock, Steps
<1>2. /\ UNCHANGED <<total, event, done, broken, ticks, tick, wire, flushed, late>>
      /\ mu = NoOne /\ mu' = g /\ g # NoOne
  BY Distinct DEF Lock, Goroutines
<1>3. TypeOK'
  BY <1>1, <1>2 DEF IInv, TypeOK, Steps
<1>4. MutexHeld'
  BY <1>1, <1>2, Distinct DEF IInv, MutexHeld, Goroutines
<1>5. Shape' /\ EventsInOrder' /\ WholeEvents' = WholeEvents
  BY <1>2, WireKept DEF IInv, TypeOK
<1>6. Open' <=> Open
  BY <1>1 DEF Open, Goroutines
<1>7. FrameUnderWay'
  BY <1>1, <1>2, <1>6 DEF IInv, FrameUnderWay, Frame
<1>8. Flushed' /\ EventsWhole'
  <2>1. \/ g = Handler /\ pc[Handler] = "lock" /\ pc'[Handler] = "first"
        \/ pc'[Handler] = pc[Handler]
    BY <1>1 DEF Goroutines
  <2> QED
    BY <2>1, <1>2, <1>5, <1>6 DEF IInv, Flushed, EventsWhole, LastWhole
<1> QED
  BY <1>3, <1>4, <1>5, <1>7, <1>8 DEF IInv

\* A write that fails releases the mutex; a panic ends the heartbeat.
LEMMA WriteFailsKeeps ==
    ASSUME IInv, NEW g \in Goroutines, WriteFails(g) \/ (g = Beat /\ BeatPanics)
    PROVE  IInv'
<1>1. /\ pc[g] \in {"first", "rest", "flush"}
      /\ pc'[g] = IF g = Beat THEN "returned" ELSE "idle"
      /\ \A h \in Goroutines \ {g} : pc'[h] = pc[h]
      /\ pc' \in [Goroutines -> Steps]
  BY EnterMoves DEF IInv, WriteFails, BeatPanics, Steps
<1>2. /\ UNCHANGED <<total, event, done, broken, ticks, tick, wire, flushed>>
      /\ broken \/ ~Open
      /\ mu' = NoOne /\ mu = g /\ late' \in BOOLEAN
  BY <1>1 DEF WriteFails, BeatPanics, UsesResponse, IInv, MutexHeld
<1>3. TypeOK'
  BY <1>1, <1>2 DEF IInv, TypeOK, Steps
<1>4. MutexHeld'
  BY <1>1, <1>2, Distinct DEF IInv, MutexHeld, Goroutines
<1>5. Shape' /\ EventsInOrder' /\ WholeEvents' = WholeEvents
  BY <1>2, WireKept DEF IInv, TypeOK
<1>6. Open' <=> Open
  BY <1>1, Distinct DEF Open, Goroutines
<1>7. FrameUnderWay'
  BY <1>2, <1>6 DEF FrameUnderWay
<1>8. Flushed'
  BY <1>2, <1>6 DEF IInv, Flushed
<1>9. EventsWhole'
  <2>1. pc'[Handler] \in {"lock", "first", "rest"} => pc'[Handler] = pc[Handler]
    BY <1>1, Distinct DEF Goroutines
  <2> QED
    BY <2>1, <1>2, <1>6 DEF IInv, EventsWhole
<1> QED
  BY <1>3, <1>4, <1>5, <1>7, <1>8, <1>9 DEF IInv

\* A flush ends a frame.
LEMMA FlushKeeps ==
    ASSUME IInv, NEW g \in Goroutines, Flush(g)
    PROVE  IInv'
<1>1. /\ pc[g] = "flush" /\ pc'[g] = "idle"
      /\ \A h \in Goroutines \ {g} : pc'[h] = pc[h]
      /\ pc' \in [Goroutines -> Steps]
  BY EnterMoves DEF IInv, Flush, Steps
<1>2. /\ UNCHANGED <<total, event, done, broken, ticks, tick, wire>>
      /\ flushed' = Len(wire)
      /\ mu' = NoOne /\ mu = g /\ late' \in BOOLEAN
  BY <1>1 DEF Flush, UsesResponse, IInv, MutexHeld
<1>3. TypeOK'
  BY <1>1, <1>2 DEF IInv, TypeOK, Steps
<1>4. MutexHeld'
  BY <1>1, <1>2, Distinct DEF IInv, MutexHeld, Goroutines
<1>5. Shape' /\ EventsInOrder' /\ WholeEvents' = WholeEvents
  BY <1>2, WireKept DEF IInv, TypeOK
<1>6. Open' <=> Open
  BY <1>1 DEF Open, Goroutines
<1>7. FrameUnderWay'
  BY <1>1, <1>2, <1>6 DEF IInv, FrameUnderWay, Frame
<1>8. Flushed'
  BY <1>2, <1>6 DEF IInv, Flushed
<1>9. EventsWhole'
  <2>1. \/ pc[Handler] = "flush" /\ pc'[Handler] = "idle"
        \/ pc'[Handler] = pc[Handler]
    BY <1>1 DEF Goroutines
  <2> QED
    BY <2>1, <1>2, <1>5, <1>6 DEF IInv, EventsWhole, LastWhole
<1> QED
  BY <1>3, <1>4, <1>5, <1>7, <1>8, <1>9 DEF IInv

-----------------------------------------------------------------------------
\* What the wire is after a fragment.
LEMMA Appended ==
    ASSUME NEW S, NEW s \in Seq(S), NEW x \in S
    PROVE  /\ Append(s, x) \in Seq(S)
           /\ Len(Append(s, x)) = Len(s) + 1
           /\ DOMAIN s = 1..Len(s) /\ DOMAIN Append(s, x) = 1..(Len(s) + 1)
           /\ \A i \in 1..Len(s) : Append(s, x)[i] = s[i]
           /\ Append(s, x)[Len(s) + 1] = x
OBVIOUS

\* A write to a response that is over, or whose client is gone, puts nothing
\* on the wire.
LEMMA LostWriteKeeps ==
    ASSUME IInv, NEW g \in Goroutines, Write(g), broken \/ ~Open
    PROVE  IInv'
<1>1. /\ \/ pc[g] = "first" /\ pc'[g] = "rest"
         \/ pc[g] = "rest" /\ pc'[g] = "flush"
      /\ \A h \in Goroutines \ {g} : pc'[h] = pc[h]
      /\ pc' \in [Goroutines -> Steps]
  BY EnterMoves DEF IInv, Write, Steps
<1>2. /\ UNCHANGED <<mu, total, event, done, broken, ticks, tick, wire>>
      /\ flushed' \in {flushed, Len(wire)} /\ mu = g /\ late' \in BOOLEAN
  BY <1>1 DEF Write, Put, UsesResponse, IInv, MutexHeld
<1>3. TypeOK'
  BY <1>1, <1>2 DEF IInv, TypeOK, Steps
<1>4. MutexHeld'
  BY <1>1, <1>2 DEF IInv, MutexHeld, Goroutines
<1>5. Shape' /\ EventsInOrder' /\ WholeEvents' = WholeEvents
  BY <1>2, WireKept DEF IInv, TypeOK
<1>6. Open' <=> Open
  BY <1>1 DEF Open, Goroutines
<1>7. FrameUnderWay'
  BY <1>2, <1>6 DEF FrameUnderWay
<1>8. Flushed'
  BY <1>2, <1>6, Distinct DEF IInv, Flushed, Goroutines
<1>9. EventsWhole'
  <2>1. pc'[Handler] \in {"lock", "first", "rest"} => pc[Handler] \in {"lock", "first", "rest"}
    BY <1>1 DEF Goroutines
  <2> QED
    BY <2>1, <1>2, <1>6 DEF IInv, EventsWhole
<1> QED
  BY <1>3, <1>4, <1>5, <1>7, <1>8, <1>9 DEF IInv

\* The first fragment of a frame opens it; the wire was at a frame's end.
LEMMA FirstFragmentKeeps ==
    ASSUME IInv, NEW g \in Goroutines, Write(g), ~broken, Open, pc[g] = "first"
    PROVE  IInv'
<1>1. /\ pc'[g] = "rest"
      /\ \A h \in Goroutines \ {g} : pc'[h] = pc[h]
      /\ pc' \in [Goroutines -> Steps]
  BY EnterMoves DEF IInv, Write, Steps
<1>2. /\ UNCHANGED <<mu, total, event, done, broken, ticks, tick>>
      /\ flushed' \in {flushed, Len(wire)} /\ mu = g /\ late' \in BOOLEAN
      /\ wire' = Append(wire, <<Frame(g), 1>>)
  BY DEF Write, Put, UsesResponse, IInv, MutexHeld
<1>3. /\ wire \in Seq(Fragments) /\ Len(wire) \in Nat /\ event \in 0..total
      /\ total \in 1..MaxEvents /\ MaxEvents \in Nat
  BY StreamAssumption DEF IInv, TypeOK, StreamAssumption
<1>4. <<Frame(g), 1>> \in Fragments
  BY <1>3 DEF Fragments, Frame
<1>5. /\ wire' \in Seq(Fragments)
      /\ Len(wire') = Len(wire) + 1
      /\ DOMAIN wire = 1..Len(wire) /\ DOMAIN wire' = 1..(Len(wire) + 1)
      /\ \A i \in 1..Len(wire) : wire'[i] = wire[i]
      /\ wire'[Len(wire) + 1] = <<Frame(g), 1>>
  BY <1>2, <1>3, <1>4, Appended
<1>6. \A h \in Goroutines : pc[h] # "rest"
  BY <1>2 DEF IInv, MutexHeld
<1>7. Len(wire) % 2 = 0 /\ Len(wire') % 2 = 1
  BY <1>3, <1>5, <1>6 DEF IInv, FrameUnderWay
<1>8. TypeOK'
  BY <1>1, <1>2, <1>3, <1>5 DEF IInv, TypeOK, Steps, Fragments
<1>9. MutexHeld'
  BY <1>1, <1>2 DEF IInv, MutexHeld, Goroutines
<1>10. Shape'
  <2> SUFFICES ASSUME NEW i \in 1..(Len(wire) + 1)
               PROVE  /\ i % 2 = 1 => wire'[i][2] = 1
                      /\ i % 2 = 0 => /\ i - 1 \in DOMAIN wire'
                                      /\ wire'[i] = <<wire'[i - 1][1], 2>>
    BY <1>5 DEF Shape
  <2>1. CASE i = Len(wire) + 1
    BY <2>1, <1>3, <1>5, <1>7
  <2>2. CASE i \in 1..Len(wire)
    BY <2>2, <1>3, <1>5 DEF IInv, Shape
  <2> QED
    BY <2>1, <2>2, <1>3
<1>11. Open' <=> Open
  BY <1>1 DEF Open, Goroutines
<1>12. FrameUnderWay'
  <2>1. \A h \in Goroutines : pc'[h] = "rest" => h = g
    BY <1>1, <1>6
  <2> QED
    BY <1>1, <1>2, <1>5, <1>7, <2>1 DEF FrameUnderWay, Frame
<1>13. EventsInOrder'
  <2>1. Frame(g) <= event /\ Frame(g) \in {0, event} /\ event \in Nat
    BY <1>3 DEF Frame
  <2>2. \A i \in DOMAIN wire : wire[i][1] <= event
    BY DEF IInv, EventsInOrder
  <2>3. \A i \in DOMAIN wire' : wire'[i][1] <= event'
    BY <1>2, <1>3, <1>5, <2>1, <2>2
  <2>4. ASSUME NEW i \in DOMAIN wire', NEW j \in DOMAIN wire', i < j, wire'[j][1] # 0
        PROVE  wire'[i][1] <= wire'[j][1]
    <3>1. i \in 1..Len(wire)
      BY <1>3, <1>5, <2>4
    <3>2. CASE j = Len(wire) + 1
      BY <1>5, <2>1, <2>2, <2>4, <3>1, <3>2
    <3>3. CASE j \in 1..Len(wire)
      BY <1>5, <2>4, <3>1, <3>3 DEF IInv, EventsInOrder
    <3> QED
      BY <1>3, <1>5, <3>2, <3>3
  <2> QED
    BY <2>3, <2>4 DEF EventsInOrder
<1>14. Flushed'
  BY <1>2, <1>11, Distinct DEF Flushed, Goroutines
<1>15. EventsWhole'
  <2>1. WholeEvents' = WholeEvents
    <3>1. \A n : (\E i \in DOMAIN wire' : wire'[i] = <<n, 2>>) <=>
                 \E i \in DOMAIN wire : wire[i] = <<n, 2>>
      BY <1>3, <1>5
    <3> QED
      BY <1>2, <3>1 DEF WholeEvents
  <2>2. pc'[Handler] \in {"lock", "first", "rest"} <=> pc[Handler] \in {"lock", "first", "rest"}
    BY <1>1 DEF Goroutines
  <2> QED
    BY <1>2, <1>11, <2>1, <2>2 DEF IInv, EventsWhole, LastWhole
<1> QED
  BY <1>8, <1>9, <1>10, <1>12, <1>13, <1>14, <1>15 DEF IInv

\* The second fragment ends the frame of the goroutine that began it.
LEMMA SecondFragmentKeeps ==
    ASSUME IInv, NEW g \in Goroutines, Write(g), ~broken, Open, pc[g] = "rest"
    PROVE  /\ IInv'
           /\ WholeEvents' = IF g = Handler THEN 1..event ELSE WholeEvents
<1>1. /\ pc'[g] = "flush"
      /\ \A h \in Goroutines \ {g} : pc'[h] = pc[h]
      /\ pc' \in [Goroutines -> Steps]
  BY EnterMoves DEF IInv, Write, Steps
<1>2. /\ UNCHANGED <<mu, total, event, done, broken, ticks, tick>>
      /\ flushed' \in {flushed, Len(wire)} /\ mu = g /\ late' \in BOOLEAN
      /\ wire' = Append(wire, <<Frame(g), 2>>)
  BY DEF Write, Put, UsesResponse, IInv, MutexHeld
<1>3. /\ wire \in Seq(Fragments) /\ Len(wire) \in Nat /\ event \in 0..total
      /\ total \in 1..MaxEvents /\ MaxEvents \in Nat
  BY StreamAssumption DEF IInv, TypeOK, StreamAssumption
<1>4. <<Frame(g), 2>> \in Fragments
  BY <1>3 DEF Fragments, Frame
<1>5. /\ wire' \in Seq(Fragments)
      /\ Len(wire') = Len(wire) + 1
      /\ DOMAIN wire = 1..Len(wire) /\ DOMAIN wire' = 1..(Len(wire) + 1)
      /\ \A i \in 1..Len(wire) : wire'[i] = wire[i]
      /\ wire'[Len(wire) + 1] = <<Frame(g), 2>>
  BY <1>2, <1>3, <1>4, Appended
<1>6. \A h \in Goroutines \ {g} : pc[h] # "rest"
  BY <1>2 DEF IInv, MutexHeld
<1>7. /\ Len(wire) % 2 = 1 /\ Len(wire') % 2 = 0
      /\ Len(wire) \in DOMAIN wire /\ wire[Len(wire)] = <<Frame(g), 1>>
  BY <1>3, <1>5 DEF IInv, FrameUnderWay
<1>8. TypeOK'
  BY <1>1, <1>2, <1>3, <1>5 DEF IInv, TypeOK, Steps, Fragments
<1>9. MutexHeld'
  BY <1>1, <1>2 DEF IInv, MutexHeld, Goroutines
<1>10. Shape'
  <2> SUFFICES ASSUME NEW i \in 1..(Len(wire) + 1)
               PROVE  /\ i % 2 = 1 => wire'[i][2] = 1
                      /\ i % 2 = 0 => /\ i - 1 \in DOMAIN wire'
                                      /\ wire'[i] = <<wire'[i - 1][1], 2>>
    BY <1>5 DEF Shape
  <2>1. CASE i = Len(wire) + 1
    <3>1. i - 1 = Len(wire) /\ wire'[i - 1] = <<Frame(g), 1>> /\ i % 2 = 0
      BY <2>1, <1>3, <1>5, <1>7
    <3> QED
      BY <2>1, <3>1, <1>3, <1>5, <1>7
  <2>2. CASE i \in 1..Len(wire)
    BY <2>2, <1>3, <1>5 DEF IInv, Shape
  <2> QED
    BY <2>1, <2>2, <1>3
<1>11. Open' <=> Open
  BY <1>1 DEF Open, Goroutines
<1>12. FrameUnderWay'
  <2>1. \A h \in Goroutines : pc'[h] # "rest"
    BY <1>1, <1>6
  <2> QED
    BY <1>7, <2>1 DEF FrameUnderWay
<1>13. EventsInOrder'
  <2>1. Frame(g) <= event /\ Frame(g) \in {0, event} /\ event \in Nat
    BY <1>3 DEF Frame
  <2>2. \A i \in DOMAIN wire : wire[i][1] <= event
    BY DEF IInv, EventsInOrder
  <2>3. \A i \in DOMAIN wire' : wire'[i][1] <= event'
    BY <1>2, <1>3, <1>5, <2>1, <2>2
  <2>4. ASSUME NEW i \in DOMAIN wire', NEW j \in DOMAIN wire', i < j, wire'[j][1] # 0
        PROVE  wire'[i][1] <= wire'[j][1]
    <3>1. i \in 1..Len(wire)
      BY <1>3, <1>5, <2>4
    <3>2. CASE j = Len(wire) + 1
      BY <1>5, <2>1, <2>2, <2>4, <3>1, <3>2
    <3>3. CASE j \in 1..Len(wire)
      BY <1>5, <2>4, <3>1, <3>3 DEF IInv, EventsInOrder
    <3> QED
      BY <1>3, <1>5, <3>2, <3>3
  <2> QED
    BY <2>3, <2>4 DEF EventsInOrder
<1>14. Flushed'
  BY <1>2, <1>11, Distinct DEF Flushed, Goroutines
<1>15. WholeEvents' = WholeEvents \cup ({Frame(g)} \cap (1..total))
  <2>1. \A n : (\E i \in DOMAIN wire' : wire'[i] = <<n, 2>>) <=>
               n = Frame(g) \/ \E i \in DOMAIN wire : wire[i] = <<n, 2>>
    BY <1>3, <1>5
  <2> QED
    BY <1>2, <2>1 DEF WholeEvents
<1>16. WholeEvents' = IF g = Handler THEN 1..event ELSE WholeEvents
  <2>1. CASE g = Handler
    <3>1. event >= 1 /\ WholeEvents = 1..(event - 1) /\ Frame(g) = event
      BY <2>1 DEF IInv, EventsWhole, LastWhole, Frame
    <3> QED
      BY <1>3, <1>15, <2>1, <3>1
  <2>2. CASE g # Handler
    BY <1>3, <1>15, <2>2 DEF Frame
  <2> QED
    BY <2>1, <2>2
<1>17. EventsWhole'
  <2>1. CASE g = Handler
    <3>1. pc'[Handler] = "flush"
      BY <1>1, <2>1
    <3> QED
      BY <1>2, <1>16, <2>1, <3>1 DEF EventsWhole, LastWhole
  <2>2. CASE g # Handler
    <3>1. pc'[Handler] = pc[Handler]
      BY <1>1, <2>2 DEF Goroutines
    <3> QED
      BY <1>2, <1>11, <1>16, <2>2, <3>1 DEF IInv, EventsWhole, LastWhole
  <2> QED
    BY <2>1, <2>2
<1> QED
  BY <1>8, <1>9, <1>10, <1>12, <1>13, <1>14, <1>16, <1>17 DEF IInv

-----------------------------------------------------------------------------
\* Every step keeps the invariant.
LEMMA StreamStep == IInv /\ [Next]_vars => IInv'
<1> SUFFICES ASSUME IInv, [Next]_vars PROVE IInv'
  OBVIOUS
<1>1. CASE Expire \/ Disconnect \/ Tick
  BY <1>1, OutsideKeeps
<1>2. CASE SendNext
  BY <1>2, SendNextKeeps
<1>3. CASE HandlerReturns
  BY <1>3, HandlerReturnsKeeps
<1>4. CASE BeatReturns \/ BeatWakes
  BY <1>4, BeatMovesKeeps
<1>5. ASSUME NEW g \in Goroutines, Send(g)
      PROVE  IInv'
  <2>1. CASE Lock(g)
    BY <2>1, LockKeeps
  <2>2. CASE Write(g)
    <3>1. pc[g] \in {"first", "rest"}
      BY <2>2 DEF Write
    <3> QED
      BY <2>2, <3>1, LostWriteKeeps, FirstFragmentKeeps, SecondFragmentKeeps
  <2>3. CASE Flush(g)
    BY <2>3, FlushKeeps
  <2>4. CASE WriteFails(g)
    BY <2>4, WriteFailsKeeps
  <2> QED
    BY <1>5, <2>1, <2>2, <2>3, <2>4 DEF Send
<1>6. CASE BeatPanics
  BY <1>6, WriteFailsKeeps DEF Goroutines
<1>7. CASE UNCHANGED vars
  <2>1. TypeOK' /\ MutexHeld' /\ Shape'
    BY <1>7 DEF vars, IInv, TypeOK, MutexHeld, Shape
  <2>2. FrameUnderWay' /\ EventsInOrder'
    BY <1>7 DEF vars, IInv, FrameUnderWay, EventsInOrder, Open, Frame
  <2>3. Flushed' /\ EventsWhole'
    BY <1>7 DEF vars, IInv, Flushed, EventsWhole, LastWhole, WholeEvents, Open
  <2> QED
    BY <2>1, <2>2, <2>3 DEF IInv
<1> QED
  BY <1>1, <1>2, <1>3, <1>4, <1>5, <1>6, <1>7
  DEF Next, HandlerSteps, BeatSteps, Goroutines

\* The invariant holds in every reachable state.
LEMMA StreamSafe == Spec => []IInv
<1> QED
  BY StreamInit, StreamStep, PTL DEF Spec

-----------------------------------------------------------------------------
(***************************************************************************)
(* FramesNeverMix for every stream: whatever the two goroutines and the    *)
(* client do, the frames are whole, the events are in order and what       *)
(* nobody is writing any more has been flushed (sse.go:57-69, 103).        *)
(***************************************************************************)
THEOREM FramesStayWhole == Spec => []FramesNeverMix
<1>1. IInv => FramesNeverMix
  <2> SUFFICES ASSUME IInv PROVE FramesNeverMix
    OBVIOUS
  <2>1. ASSUME NEW i \in DOMAIN wire
        PROVE  IF i % 2 = 1 THEN wire[i][2] = 1
                            ELSE wire[i] = <<wire[i - 1][1], 2>>
    BY <2>1 DEF IInv, Shape, TypeOK
  <2>2. Len(wire) % 2 = 1 => broken \/ ~Open \/ \E g \in Goroutines : pc[g] = "rest"
    BY DEF IInv, FrameUnderWay
  <2> QED
    BY <2>1, <2>2 DEF IInv, FramesNeverMix, EventsInOrder, Flushed
<1> QED
  BY <1>1, StreamSafe, PTL

\* How many events have arrived while the connection is there.
LEMMA ArrivedCount ==
    ASSUME IInv, Open, ~broken
    PROVE  Cardinality(WholeEvents) = LastWhole /\ LastWhole \in 0..total
<1>1. WholeEvents = 1..LastWhole
  BY DEF IInv, EventsWhole
<1>2. LastWhole \in 0..total /\ total \in Nat
  BY DEF IInv, TypeOK, EventsWhole, LastWhole
<1>3. Cardinality(1..LastWhole) = LastWhole
  BY <1>2, FS_Interval
<1> QED
  BY <1>1, <1>2, <1>3

\* The response starts as an empty event stream.
LEMMA PromiseInit == Init => Promise!Init
<1> SUFFICES ASSUME Init PROVE Promise!Init
  OBVIOUS
<1>1. WholeEvents = {}
  BY DEF Init, WholeEvents
<1>2. Cardinality(WholeEvents) = 0
  BY <1>1, FS_EmptySet
<1> QED
  BY <1>2 DEF Init, Promise!Init, Open, Goroutines

\* Every step is one of the event stream or none.
LEMMA PromiseStep == IInv /\ [Next]_vars => [Promise!Next]_(Promise!streamVars)
<1> DEFINE arrived == Cardinality(WholeEvents)
<1> SUFFICES ASSUME IInv, [Next]_vars
             PROVE  \/ Promise!Next
                    \/ UNCHANGED <<total, arrived, broken, Open>>
  BY DEF Promise!streamVars
<1>1. CASE Expire \/ Tick \/ BeatReturns \/ BeatWakes \/ SendNext
  <2>1. UNCHANGED <<total, wire, broken>>
    BY <1>1 DEF Expire, Tick, BeatReturns, BeatWakes, SendNext
  <2>2. Open' <=> Open
    BY <1>1, EnterMoves, Distinct
    DEF Expire, Tick, BeatReturns, BeatWakes, SendNext, Open, IInv, Goroutines, Steps
  <2> QED
    BY <2>1, <2>2 DEF WholeEvents
<1>2. CASE Disconnect
  BY <1>2 DEF Disconnect, Promise!Next, Promise!Lose, WholeEvents, Open
<1>3. CASE HandlerReturns
  <2>1. /\ UNCHANGED <<total, wire, broken>> /\ Open /\ ~Open' /\ event = total
        /\ pc[Handler] = "idle"
    BY <1>3, EnterMoves DEF HandlerReturns, Open, IInv, Goroutines, Steps
  <2>2. broken \/ arrived = total
    BY <2>1, ArrivedCount DEF LastWhole
  <2> QED
    BY <2>1, <2>2 DEF Promise!Next, Promise!Close, WholeEvents
<1>4. ASSUME NEW g \in Goroutines,
             Lock(g) \/ Flush(g) \/ WriteFails(g) \/ (g = Beat /\ BeatPanics)
      PROVE  UNCHANGED <<total, arrived, broken, Open>>
  <2>1. UNCHANGED <<total, wire, broken>>
    BY <1>4 DEF Lock, Flush, WriteFails, BeatPanics
  <2>2. Open' <=> Open
    BY <1>4, EnterMoves, Distinct
    DEF Lock, Flush, WriteFails, BeatPanics, Open, IInv, Goroutines, Steps
  <2> QED
    BY <2>1, <2>2 DEF WholeEvents
<1>5. ASSUME NEW g \in Goroutines, Write(g)
      PROVE  Promise!Next \/ UNCHANGED <<total, arrived, broken, Open>>
  <2>1. UNCHANGED <<total, broken>> /\ pc[g] \in {"first", "rest"}
    BY <1>5 DEF Write
  <2>2. Open' <=> Open
    BY <1>5, EnterMoves DEF Write, Open, IInv, Goroutines, Steps
  <2>3. CASE broken \/ ~Open
    <3>1. UNCHANGED wire
      BY <1>5, <2>3 DEF Write, Put
    <3> QED
      BY <2>1, <2>2, <3>1 DEF WholeEvents
  <2>4. CASE ~broken /\ Open /\ pc[g] = "first"
    <3>1. IInv' /\ pc'[g] = "rest" /\ \A h \in Goroutines \ {g} : pc'[h] = pc[h]
      BY <1>5, <2>4, FirstFragmentKeeps, EnterMoves DEF Write, IInv, Steps
    <3>2. LastWhole' = LastWhole
      BY <1>5, <2>4, <3>1 DEF LastWhole, Goroutines, Write
    <3>3. arrived = LastWhole
      BY <2>4, ArrivedCount
    <3>4. arrived' = LastWhole'
      <4>1. WholeEvents' = WholeEvents
        BY <2>1, <2>2, <2>4, <3>1, <3>2 DEF IInv, EventsWhole
      <4> QED
        BY <3>2, <3>3, <4>1
    <3> QED
      BY <2>1, <2>2, <3>2, <3>3, <3>4
  <2>5. CASE ~broken /\ Open /\ pc[g] = "rest" /\ g # Handler
    <3>1. WholeEvents' = WholeEvents
      BY <1>5, <2>5, SecondFragmentKeeps
    <3> QED
      BY <2>1, <2>2, <3>1
  <2>6. CASE ~broken /\ Open /\ pc[g] = "rest" /\ g = Handler
    <3>1. WholeEvents' = 1..event
      BY <1>5, <2>6, SecondFragmentKeeps
    <3>2. event \in 1..total /\ total \in Nat
      BY <2>6 DEF IInv, TypeOK, EventsWhole
    <3>3. arrived' = event
      BY <3>1, <3>2, FS_Interval
    <3>4. arrived = event - 1
      BY <2>6, ArrivedCount DEF LastWhole
    <3> QED
      BY <2>1, <2>2, <2>6, <3>2, <3>3, <3>4 DEF Promise!Next, Promise!Deliver
  <2> QED
    BY <2>1, <2>3, <2>4, <2>5, <2>6
<1>6. CASE UNCHANGED vars
  BY <1>6 DEF vars, WholeEvents, Open
<1> QED
  BY <1>1, <1>2, <1>3, <1>4, <1>5, <1>6
  DEF Next, HandlerSteps, BeatSteps, Send, Goroutines

(***************************************************************************)
(* A stream keeps the promise of EventStream: the events arrive in order,  *)
(* each once, all of them unless the connection breaks, and none after the *)
(* end, although a heartbeat shares the response (sse.go:57-69, 98-110).   *)
(***************************************************************************)
THEOREM StreamRefinement == Spec => ImplementsEventStream
<1> QED
  BY PromiseInit, PromiseStep, StreamSafe, PTL
  DEF Spec, ImplementsEventStream, Promise!Spec
=============================================================================
