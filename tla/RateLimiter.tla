---------------------------- MODULE RateLimiter ----------------------------
(***************************************************************************)
(* llm.RateLimiter (internal/llm/ratelimit.go): a list of the times at     *)
(* which the provider answered 429 or 5xx, cleaned lazily.                 *)
(*                                                                         *)
(* A time is kept as its age in ticks, up to Window: t.After(cutoff) only  *)
(* asks whether the age is below Window, and an expired time that has not  *)
(* been collected yet stays in the list.  Every method holds the mutex     *)
(* from its first read to its last write, so each one is a single action.  *)
(***************************************************************************)
EXTENDS Integers, Sequences, SeqFilter

CONSTANTS
    Window,         \* r.window, in ticks
    Threshold,      \* r.threshold
    MaxEvents       \* bound on the length of the list

ASSUME RateLimiterAssumption ==
    /\ Window \in Nat \ {0}
    /\ Threshold \in Nat \ {0}
    /\ MaxEvents \in Nat

VARIABLE events     \* r.events, as ages

Ages == 0..Window

LimiterTypeOK == events \in Seq(Ages)

-----------------------------------------------------------------------------
Fresh_FaultyInclusive == Ages

\* The ages with t.After(cutoff).
Fresh == 0..(Window - 1)

Collected_FaultyKeepsAll(list) == list

\* gcLocked
Collected(list) == Filter(list, Fresh)

Count(list) == Len(Collected(list))

LimiterInit == events = <<>>

\* Observe of a status that is a rate signal ("429 and 5xx"), with the bound on
\* the list; Observe of any other status changes nothing.
Record ==
    /\ Len(events) < MaxEvents
    /\ events' = Collected(Append(events, 0))

\* Tripped and Snapshot collect before they count.
Collect == events' = Collected(events)

Older(age) == IF age < Window THEN age + 1 ELSE Window

\* The clock advances by one tick.
Tick == events' = [i \in DOMAIN events |-> Older(events[i])]

-----------------------------------------------------------------------------
\* The live part of the list is the ideal sliding window.
Ideal == INSTANCE SlidingWindow WITH
    MaxSignals <- MaxEvents, ages <- Collected(events)

\* Lazy collection is invisible: counting after a collection always gives the
\* signals of the last Window ticks in order, whenever the clock moved and
\* whatever was collected before (Observe, Tripped and Snapshot,
\* ratelimit.go:49-91).
ImplementsWindow == Ideal!Spec
============================================================================
