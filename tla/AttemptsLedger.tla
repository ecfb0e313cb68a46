--------------------------- MODULE AttemptsLedger ---------------------------
(***************************************************************************)
(* The attempts table read as a review ledger: what the three-step handler *)
(* promises when the requests of a (user, word) pair do not overlap.       *)
(***************************************************************************)
EXTENDS Attempts, SeqFilter

Pairs == Users \X Words

\* The card of a pair is the one its newest row holds.
LedgerCards == [k \in Pairs |-> LoadedCard(attempts, k[1], k[2])]

\* The rows of a pair, in the order of their ids.
History(rows, k) == Filter(rows, {row \in Row : <<row.user, row.word>> = k})

\* The grades a pair has received are those of its rows.
Grades(rows, k) ==
    [n \in DOMAIN History(rows, k) |-> History(rows, k)[n].quality]

LedgerLog == [k \in Pairs |-> Grades(attempts, k)]

Ledger == INSTANCE ReviewLedger WITH
    Keys <- Pairs, MaxReviews <- MaxAttempts,
    cards <- LedgerCards, log <- LedgerLog

\* When no two requests of a pair overlap, the three-step handler implements
\* the ledger: every answer is one SM-2 step on the pair's only card
\* (attempts.go:55-93, sm2.go:100-137).
ImplementsLedger == Ledger!Spec

\* Card.Reps is the "number of consecutive successful reviews" and Card.Lapses
\* the "total number of lapses" (sm2.go:21-22): the newest row of a pair counts
\* the successes since the last lapse and the lapses of all its rows.
CountersTellHistory == Ledger!CountersTellHistory

\* A correct answer never brings the next review closer, whatever the rounding
\* of srs.Next does, and a wrong one brings it back to tomorrow.
IntervalGrowth == Ledger!IntervalGrowth
=============================================================================
