------------------------------ MODULE Attempts ------------------------------
(***************************************************************************)
(* POST /api/attempts (internal/handler/attempts.go) over the append-only  *)
(* attempts table (internal/repo/attempts.go).                             *)
(*                                                                         *)
(* A request is served by a goroutine of its own.  It reads the newest row *)
(* of its (user, word), computes the SM-2 step in memory and inserts a new *)
(* row: three steps with no transaction around them, so requests for the   *)
(* same word interleave.  Time is a day number; rows of one day are ordered *)
(* by their id, which is their position in the table.                      *)
(***************************************************************************)
EXTENDS SRS, Sequences, FiniteSets

CONSTANTS
    Requests,       \* the goroutines that can be serving a request at once
    Users,          \* user ids a request body can name
    Words,          \* word ids a request body can name
    Latencies,      \* latency_ms values a body can carry
    MaxAttempts,    \* bound on the rows of the table
    MaxDay          \* bound on the calendar

ASSUME AttemptsAssumption ==
    /\ Users \subseteq Nat \ {0}
    /\ Words \subseteq Nat \ {0}
    /\ Latencies \subseteq Int
    /\ MaxAttempts \in Nat
    /\ MaxDay \in Nat

VARIABLES
    attempts,       \* the table: a sequence of rows, ids are positions
    today,          \* the clock, in days
    pc,             \* what each goroutine does next
    body,           \* the request body it accepted last
    card,           \* the card in the goroutine's memory
    reviewedAt,     \* the day srs.Next was called with
    reply           \* the last response: status and, for 201, the row id

vars == <<attempts, today, pc, body, card, reviewedAt, reply>>

\* attemptReq: a field the JSON leaves out has its zero value.
Body == [user : Users \cup {0}, word : Words \cup {0}, correct : BOOLEAN,
         latency : Latencies \cup {0}]

NoBody == [user |-> 0, word |-> 0, correct |-> FALSE, latency |-> 0]

Quality(b) == QualityFromLatency(b.correct, b.latency)

Row == [user : Users, word : Words, quality : Qualities, card : Card,
        nextReviewAt : Nat, createdAt : Nat]

Reply == [status : {0, 201, 400, 500}, id : Nat]

NoReply == [status |-> 0, id |-> 0]

TypeOK ==
    /\ attempts \in Seq(Row)
    /\ today \in Nat
    /\ pc \in [Requests -> {"idle", "load", "grade", "insert"}]
    /\ body \in [Requests -> Body]
    /\ card \in [Requests -> Card]
    /\ reviewedAt \in [Requests -> Nat]
    /\ reply \in [Requests -> Reply]

-----------------------------------------------------------------------------
\* Queries of the repository.

RowsOf(rows, u, w) == {i \in DOMAIN rows : rows[i].user = u /\ rows[i].word = w}

NewerThan_FaultyIdAscending(rows, i, j) ==
    \/ rows[i].createdAt > rows[j].createdAt
    \/ rows[i].createdAt = rows[j].createdAt /\ i <= j

\* ORDER BY created_at DESC, id DESC: is row i before row j?
NewerThan(rows, i, j) ==
    \/ rows[i].createdAt > rows[j].createdAt
    \/ rows[i].createdAt = rows[j].createdAt /\ i >= j

IsLatest(rows, u, w, i) ==
    /\ i \in RowsOf(rows, u, w)
    /\ \A j \in RowsOf(rows, u, w) : NewerThan(rows, i, j)

LatestForWord_FaultyAnyWord(rows, u, w) == Len(rows)

\* The newest row of the pair, or 0 for "nil, nil".
LatestForWord(rows, u, w) ==
    IF RowsOf(rows, u, w) = {} THEN 0
    ELSE CHOOSE i \in RowsOf(rows, u, w) : IsLatest(rows, u, w, i)

LoadedCard_FaultyDropsLapses(rows, u, w) ==
    IF LatestForWord(rows, u, w) = 0 THEN FreshCard
    ELSE [rows[LatestForWord(rows, u, w)].card EXCEPT !.lapses = 0]

\* The card the handler starts from.
LoadedCard(rows, u, w) ==
    IF LatestForWord(rows, u, w) = 0 THEN FreshCard
    ELSE rows[LatestForWord(rows, u, w)].card

\* ListDue, which a session passes on to the curriculum: every row of the
\* learner counts, also one that a later answer to its word has superseded.
DueRows(rows, u, day) ==
    {i \in DOMAIN rows : rows[i].user = u /\ rows[i].nextReviewAt <= day}

-----------------------------------------------------------------------------
Init ==
    /\ attempts = <<>>
    /\ today = 0
    /\ pc = [r \in Requests |-> "idle"]
    /\ body = [r \in Requests |-> NoBody]
    /\ card = [r \in Requests |-> FreshCard]
    /\ reviewedAt = [r \in Requests |-> 0]
    /\ reply = [r \in Requests |-> NoReply]

InFlight == {r \in Requests : pc[r] # "idle"}

WellFormed(b) == b.user # 0 /\ b.word # 0

\* A body that does not decode, or has no user or no word: 400 and nothing else.
Reject(r) ==
    /\ pc[r] = "idle"
    /\ reply' = [reply EXCEPT ![r] = [status |-> 400, id |-> 0]]
    /\ UNCHANGED <<attempts, today, pc, body, card, reviewedAt>>

\* A well-formed request arrives.
Accept(r, b) ==
    /\ pc[r] = "idle"
    /\ WellFormed(b)
    /\ Len(attempts) + Cardinality(InFlight) < MaxAttempts
    /\ pc' = [pc EXCEPT ![r] = "load"]
    /\ body' = [body EXCEPT ![r] = b]
    /\ reply' = [reply EXCEPT ![r] = NoReply]
    /\ UNCHANGED <<attempts, today, card, reviewedAt>>

\* LatestForWord answers.
LoadState(r) ==
    /\ pc[r] = "load"
    /\ card' = [card EXCEPT ![r] =
                    LoadedCard(attempts, body[r].user, body[r].word)]
    /\ pc' = [pc EXCEPT ![r] = "grade"]
    /\ UNCHANGED <<attempts, today, body, reviewedAt, reply>>

GradeCard_FaultyTwice(r) ==
    /\ pc[r] = "grade"
    /\ card' = [card EXCEPT ![r] = NextCard(NextCard(card[r], Quality(body[r])),
                                           Quality(body[r]))]
    /\ reviewedAt' = [reviewedAt EXCEPT ![r] = today]
    /\ pc' = [pc EXCEPT ![r] = "insert"]
    /\ UNCHANGED <<attempts, today, body, reply>>

\* srs.Next in memory, at the time the clock shows now.
GradeCard(r) ==
    /\ pc[r] = "grade"
    /\ card' = [card EXCEPT ![r] = NextCard(card[r], Quality(body[r]))]
    /\ reviewedAt' = [reviewedAt EXCEPT ![r] = today]
    /\ pc' = [pc EXCEPT ![r] = "insert"]
    /\ UNCHANGED <<attempts, today, body, reply>>

\* The response is written and the handler's locals are gone.
Respond(r, response) ==
    /\ reply' = [reply EXCEPT ![r] = response]
    /\ pc' = [pc EXCEPT ![r] = "idle"]
    /\ card' = [card EXCEPT ![r] = FreshCard]
    /\ reviewedAt' = [reviewedAt EXCEPT ![r] = 0]
    /\ UNCHANGED <<today, body>>

NewRow(r) ==
    [user |-> body[r].user,
     word |-> body[r].word,
     quality |-> Quality(body[r]),
     card |-> card[r],
     nextReviewAt |-> NextReviewAt(card[r], reviewedAt[r]),
     createdAt |-> today]

\* The INSERT runs, and the handler answers.
Inserts(r, response) ==
    /\ pc[r] = "insert"
    /\ attempts' = Append(attempts, NewRow(r))
    /\ Respond(r, response)

\* Insert returns the row's id, and the reply carries it.
InsertRow(r) == Inserts(r, [status |-> 201, id |-> Len(attempts) + 1])

Failed == [status |-> 500, id |-> 0]

\* The row is in, but Insert returns an error: LastInsertId failed, or the
\* request's context ended once the statement had run.
InsertReportsFailure(r) == Inserts(r, Failed)

\* A query fails before it changed anything (canceled request, busy database,
\* foreign key): 500.
QueryFails(r) ==
    /\ pc[r] \in {"load", "insert"}
    /\ UNCHANGED attempts
    /\ Respond(r, Failed)

NextDay ==
    /\ today < MaxDay
    /\ today' = today + 1
    /\ UNCHANGED <<attempts, pc, body, card, reviewedAt, reply>>

Handler(r) ==
    \/ Reject(r)
    \/ \E b \in Body : Accept(r, b)
    \/ LoadState(r)
    \/ GradeCard(r)
    \/ InsertRow(r)
    \/ InsertReportsFailure(r)
    \/ QueryFails(r)

Next == NextDay \/ \E r \in Requests : Handler(r)

Spec == Init /\ [][Next]_vars

\* A learner who waits for the reply before answering the same word again.
OneAtATime ==
    \A r, s \in InFlight :
        r # s => body[r].user # body[s].user \/ body[r].word # body[s].word

SerialSpec == Init /\ [][Next /\ OneAtATime']_vars

-----------------------------------------------------------------------------
LapseRows(rows, u, w) == {i \in RowsOf(rows, u, w) : IsLapse(rows[i].quality)}

SuccessRows(rows, u, w) == RowsOf(rows, u, w) \ LapseRows(rows, u, w)

UpTo(S, n) == {i \in S : i <= n}

\* The cards a step on pair (u, w) may start from once n rows are stored.
Bases(rows, u, w, n) ==
    {FreshCard} \cup {rows[j].card : j \in UpTo(RowsOf(rows, u, w), n)}

\* Every row is one SM-2 step, with the row's own quality, from the fresh card
\* or from the card of an earlier row of the same user and word: however
\* requests interleave, no row mixes the state of two words, of two users, or
\* half of one step with half of another (attempts.go:55-93).
RowsFollowSM2 ==
    \A i \in DOMAIN attempts :
        \E base \in Bases(attempts, attempts[i].user, attempts[i].word, i - 1) :
            attempts[i].card = NextCard(base, attempts[i].quality)

\* Interleaved requests may lose a lapse or a success but never invent one:
\* the counters of a row never exceed the answers recorded up to that row.
CountersNeverInvented ==
    \A i \in DOMAIN attempts :
        LET u == attempts[i].user
            w == attempts[i].word
        IN  /\ attempts[i].card.lapses
                 <= Cardinality(UpTo(LapseRows(attempts, u, w), i))
            /\ attempts[i].card.reps
                 <= Cardinality(UpTo(SuccessRows(attempts, u, w), i))

\* No stored card is below the ease floor, none is scheduled for the day of
\* its review or earlier, and an id order of two rows of a pair is never
\* contradicted by their created_at, so "ORDER BY created_at DESC, id DESC"
\* is the insertion order.
StoredCardsInRange ==
    \A i \in DOMAIN attempts :
        /\ attempts[i].card.ease >= EaseFloor
        /\ attempts[i].card.interval >= 1
        /\ \A j \in 1..i : attempts[j].createdAt <= attempts[i].createdAt

\* The row a request loads is the last one inserted for its pair.
LatestIsLastInserted ==
    \A u \in Users, w \in Words :
        RowsOf(attempts, u, w) # {} =>
            \A j \in RowsOf(attempts, u, w) : j <= LatestForWord(attempts, u, w)

\* "DueWord describes either an SRS-due word or a new-word candidate."
\* (curriculum.go:29): a word that is offered as due is due by the newest of
\* its rows, which is the one the next answer starts from.
OfferedWordsAreDue ==
    \A u \in Users : \A i \in DueRows(attempts, u, today) :
        LatestForWord(attempts, u, attempts[i].word) \in DueRows(attempts, u, today)
=============================================================================
