------------------------------ MODULE Degrade ------------------------------
(***************************************************************************)
(* degrade.Decider (internal/degrade/degrade.go) over the rate limiter:    *)
(* the share of the trip threshold that is used up decides how much work   *)
(* the pipeline may do, from level 1 (everything) to level 4.              *)
(***************************************************************************)
EXTENDS RateLimiter

Levels == 1..4

\* DefaultThresholds, in percent of the trip threshold.
DefaultThresholds == <<0, 50, 80, 100>>

Reached(l, list) == 100 * Count(list) >= DefaultThresholds[l] * Threshold

IsLastReached(l, list) ==
    /\ l = 1 \/ Reached(l, list)
    /\ \A m \in Levels : m > l => ~Reached(m, list)

\* The loop of Current keeps the last level whose threshold is reached.
LevelOf(list) == CHOOSE l \in Levels : IsLastReached(l, list)

\* What a call of Current returns now: it takes a snapshot, which collects.
LevelNow == LevelOf(events)

AllowGenerator == LevelNow <= 2

AllowReviewer == LevelNow <= 1

============================================================================
