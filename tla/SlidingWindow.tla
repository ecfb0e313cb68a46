--------------------------- MODULE SlidingWindow ---------------------------
(***************************************************************************)
(* What a rate limiter promises (ratelimit.go:8-10): at any moment it      *)
(* knows exactly the rate signals of the last Window time units, oldest    *)
(* first.  A signal is kept as its age, so that time need not be bounded.  *)
(***************************************************************************)
EXTENDS Integers, Sequences, SeqFilter

CONSTANTS
    Window,         \* length of the window, in ticks
    MaxSignals      \* bound on the signals of one window

VARIABLE ages       \* the ages of the live signals, oldest first

Live == 0..(Window - 1)

Init == ages = <<>>

Signal ==
    /\ Len(ages) < MaxSignals
    /\ ages' = Append(ages, 0)

\* Time passes, and what leaves the window is forgotten at once.
Tick == ages' = Filter([i \in DOMAIN ages |-> ages[i] + 1], Live)

Next == Signal \/ Tick

Spec == Init /\ [][Next]_ages
============================================================================
