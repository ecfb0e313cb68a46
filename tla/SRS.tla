-------------------------------- MODULE SRS --------------------------------
(***************************************************************************)
(* The SM-2 scheduler of internal/srs/sm2.go as pure operators.            *)
(*                                                                         *)
(* Ease factors are kept in hundredths (2.5 is 250), so the 0.02, 0.08 and *)
(* 0.1 of the update are exact.  A time is a day number; LastReview travels *)
(* beside the card instead of inside it, because the handler never stores  *)
(* nor reloads it.                                                         *)
(*                                                                         *)
(* A definition whose name ends in _Faulty... is a plausible bug, used only *)
(* to show that a property can fail.                                       *)
(***************************************************************************)
EXTENDS Integers

EaseFloor == 130
DefaultEase == 250

Qualities == 0..5

\* The four numbers of a Card that an attempts row persists.
Card == [ease : Nat, interval : Nat, reps : Nat, lapses : Nat]

\* The zero value srs.Card{} that the handler starts from for an unseen word.
FreshCard == [ease |-> 0, interval |-> 0, reps |-> 0, lapses |-> 0]

clampQuality(q) == IF q < 0 THEN 0 ELSE IF q > 5 THEN 5 ELSE q

IsLapse(q) == clampQuality(q) < 3

\* "Initialise ease for brand-new cards that have not been seeded."
Seeded(ease) == IF ease = 0 THEN DefaultEase ELSE ease

AtLeastFloor(ease) == IF ease < EaseFloor THEN EaseFloor ELSE ease

AtLeastOneDay(days) == IF days < 1 THEN 1 ELSE days

\* math.Round(days * ease) of a non-negative product: half rounds up.
RoundedInterval(days, ease) == (days * ease + 50) \div 100

SuccessDelta(q) == 10 - (5 - q) * (8 + (5 - q) * 2)

SuccessInterval_FaultySwapped(c) ==
    CASE c.reps = 0 -> 6
      [] c.reps = 1 -> 1
      [] OTHER -> AtLeastOneDay(RoundedInterval(c.interval, Seeded(c.ease)))

SuccessInterval(c) ==
    CASE c.reps = 0 -> 1
      [] c.reps = 1 -> 6
      [] OTHER -> AtLeastOneDay(RoundedInterval(c.interval, Seeded(c.ease)))

Lapsed_FaultySameDay(c) ==
    [ease |-> AtLeastFloor(Seeded(c.ease) - 20), interval |-> 0,
     reps |-> 0, lapses |-> c.lapses + 1]

Lapsed(c) ==
    [ease |-> AtLeastFloor(Seeded(c.ease) - 20),
     interval |-> 1,
     reps |-> 0,
     lapses |-> c.lapses + 1]

Recalled(c, q) ==
    [ease |-> AtLeastFloor(Seeded(c.ease) + SuccessDelta(q)),
     interval |-> SuccessInterval(c),
     reps |-> c.reps + 1,
     lapses |-> c.lapses]

\* srs.Next: one SM-2 step.
NextCard(c, quality) ==
    IF IsLapse(quality) THEN Lapsed(c) ELSE Recalled(c, clampQuality(quality))

\* srs.NextReviewAt for a card reviewed on the given day.
NextReviewAt(c, reviewedAt) == reviewedAt + c.interval

FastLatencyMs == 2000
SlowLatencyMs == 5000

QualityFromLatency_FaultyOneBased(correct, latencyMs) ==
    IF correct THEN IF latencyMs <= FastLatencyMs THEN 6 ELSE 5 ELSE 1

\* srs.QualityFromLatency: a grade from correctness and answer time.
QualityFromLatency(correct, latencyMs) ==
    LET ms == IF latencyMs < 0 THEN 0 ELSE latencyMs
    IN  CASE correct /\ ms <= FastLatencyMs -> 5
          [] correct /\ ms > FastLatencyMs /\ ms <= SlowLatencyMs -> 4
          [] correct /\ ms > SlowLatencyMs -> 3
          [] ~correct /\ ms > SlowLatencyMs -> 0
          [] ~correct /\ ms > FastLatencyMs /\ ms <= SlowLatencyMs -> 1
          [] OTHER -> 2
=============================================================================
