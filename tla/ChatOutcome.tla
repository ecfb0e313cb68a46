---------------------------- MODULE ChatOutcome ----------------------------
(***************************************************************************)
(* What a call of the language model can come to (internal/llm/llm.go),    *)
(* and which outcomes the generator tries again after.                     *)
(***************************************************************************)
EXTENDS Naturals

CONSTANT maxRetries     \* generator.go:50

ASSUME ChatOutcomeAssumption == maxRetries \in Nat

\* "throttled" is a 429 or a 5xx.
Outcomes == {"ok", "truncated", "refused", "throttled", "failed"}

Retryable_FaultyThrottled(outcome) == outcome \in {"truncated", "refused", "throttled"}

Retryable(outcome) == outcome \in {"truncated", "refused"}
============================================================================
