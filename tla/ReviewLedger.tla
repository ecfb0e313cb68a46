--------------------------- MODULE ReviewLedger ---------------------------
(***************************************************************************)
(* What the review scheduler promises for a (user, word) pair: every       *)
(* grading event applies one SM-2 step to the pair's card, at once.  The   *)
(* comments on srs.Card (sm2.go:16-24) say what the numbers mean, and the  *)
(* log of grades lets them be checked.  Attempts.tla is the code that      *)
(* keeps, or breaks, this promise.                                         *)
(***************************************************************************)
EXTENDS SRS, SeqFilter

CONSTANTS
    Keys,           \* the (user, word) pairs
    MaxReviews      \* bound on the grading events of one pair

VARIABLES
    cards,          \* cards[k]: the SRS state of pair k
    log             \* log[k]: the grades pair k has received, oldest first

vars == <<cards, log>>

TypeOK ==
    /\ cards \in [Keys -> Card]
    /\ log \in [Keys -> Seq(Qualities)]

Init ==
    /\ cards = [k \in Keys |-> FreshCard]
    /\ log = [k \in Keys |-> <<>>]

\* One grading event, of any quality.
Grade(k, q) ==
    /\ Len(log[k]) < MaxReviews
    /\ cards' = [cards EXCEPT ![k] = NextCard(@, q)]
    /\ log' = [log EXCEPT ![k] = Append(@, q)]

Next == \E k \in Keys, q \in Qualities : Grade(k, q)

Spec == Init /\ [][Next]_vars

-----------------------------------------------------------------------------
\* The n last grades, and no more of them, are successes in a row.
IsStreak(grades, n) ==
    /\ n \in 0..Len(grades)
    /\ \A i \in (Len(grades) - n + 1)..Len(grades) : ~IsLapse(grades[i])
    /\ n < Len(grades) => IsLapse(grades[Len(grades) - n])

LapseGrades == {q \in Qualities : IsLapse(q)}

\* Card.Reps is the "number of consecutive successful reviews" and Card.Lapses
\* the "total number of lapses (quality < 3)" (sm2.go:21-22).
CountersTellHistory ==
    \A k \in Keys :
        /\ IsStreak(log[k], cards[k].reps)
        /\ cards[k].lapses = Len(Filter(log[k], LapseGrades))

\* A correct answer never brings the next review closer, and a wrong one
\* always brings it back to tomorrow: the rounding of srs.Next never undoes
\* the growth of the interval inside a streak.
IntervalGrowsInStreak ==
    \A k \in Keys : log'[k] # log[k] =>
        IF cards'[k].reps > 0
        THEN cards'[k].interval >= cards[k].interval \/ cards[k].reps = 0
        ELSE cards'[k].interval = 1

IntervalGrowth == [][IntervalGrowsInStreak]_vars
============================================================================
