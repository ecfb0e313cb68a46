--------------------------- MODULE AttemptsProofs ---------------------------
(***************************************************************************)
(* The attempts table and its handlers, for every number of concurrent     *)
(* requests, every set of users and words, and every bound.                *)
(*                                                                         *)
(* LatestForWord is a CHOOSE, so even the type of the card a handler loads *)
(* needs to know that a newest row exists: the invariant carries the order *)
(* of the created_at column (Ordered) and the last row of each pair        *)
(* (HasLast) beside the facts about the cards in the handlers' memory.     *)
(***************************************************************************)
EXTENDS AttemptsLedger, OperatorProofs, FiniteSetTheorems

\* created_at never decreases along the ids and is never in the future.
Ordered ==
    \A i \in DOMAIN attempts :
        /\ attempts[i].createdAt <= today
        /\ \A j \in 1..i : attempts[j].createdAt <= attempts[i].createdAt

IsLast(rows, u, w, i) ==
    /\ i \in RowsOf(rows, u, w)
    /\ \A j \in RowsOf(rows, u, w) : j <= i

HasLast ==
    \A u \in Users \cup {0}, w \in Words \cup {0} :
        RowsOf(attempts, u, w) # {} => \E i \in DOMAIN attempts : IsLast(attempts, u, w, i)

\* What a handler holds between its steps.
HandlersSound ==
    \A r \in Requests :
        /\ pc[r] = "grade" =>
             card[r] \in Bases(attempts, body[r].user, body[r].word, Len(attempts))
        /\ pc[r] = "insert" =>
             \E base \in Bases(attempts, body[r].user, body[r].word, Len(attempts)) :
                card[r] = NextCard(base, Quality(body[r]))

RowsInRange ==
    \A i \in DOMAIN attempts :
        attempts[i].card.ease >= EaseFloor /\ attempts[i].card.interval >= 1

CardsInRange ==
    \A r \in Requests : pc[r] = "insert" =>
        card[r].ease >= EaseFloor /\ card[r].interval >= 1

IInv ==
    /\ TypeOK
    /\ Ordered
    /\ HasLast
    /\ HandlersSound
    /\ RowsFollowSM2
    /\ RowsInRange
    /\ CardsInRange

-----------------------------------------------------------------------------
\* The grade of a request body is a grade.
LEMMA QualityType ==
    ASSUME NEW b \in Body
    PROVE  Quality(b) \in Qualities /\ Quality(b) \in Int
<1>1. b.correct \in BOOLEAN /\ b.latency \in Latencies \cup {0}
  BY DEF Body
<1>2. \A x \in Latencies : x \in Int
  BY AttemptsAssumption DEF AttemptsAssumption
<1>3. b.latency \in Int
  <2>1. CASE b.latency \in Latencies
    BY <1>2, <2>1
  <2>2. CASE b.latency = 0
    BY <2>2
  <2> QED
    BY <1>1, <2>1, <2>2
<1> QED
  BY <1>1, <1>3, GradeTellsCorrectness DEF Quality, Qualities

\* What the table's type says of each row.
LEMMA RowType ==
    ASSUME NEW rows \in Seq(Row), NEW j \in DOMAIN rows
    PROVE  /\ rows[j].card \in Card
           /\ rows[j].createdAt \in Nat
           /\ rows[j].quality \in Qualities
           /\ rows[j].user \in Users /\ rows[j].word \in Words
<1>1. rows[j] \in Row
  OBVIOUS
<1> QED
  BY <1>1 DEF Row

\* Appending a row keeps the earlier ones.
LEMMA AppendedRows ==
    ASSUME NEW rows \in Seq(Row), NEW row \in Row
    PROVE  /\ Append(rows, row) \in Seq(Row)
           /\ Len(Append(rows, row)) = Len(rows) + 1
           /\ DOMAIN Append(rows, row) = 1..(Len(rows) + 1)
           /\ DOMAIN rows = 1..Len(rows)
           /\ Len(rows) \in Nat
           /\ \A i \in 1..Len(rows) : Append(rows, row)[i] = rows[i]
           /\ Append(rows, row)[Len(rows) + 1] = row
OBVIOUS

\* The rows of a pair after an insert: the earlier ones, and the new one when
\* it is the pair's.
LEMMA RowsOfAppend ==
    ASSUME NEW rows \in Seq(Row), NEW row \in Row, NEW u, NEW w
    PROVE  RowsOf(Append(rows, row), u, w) =
             IF row.user = u /\ row.word = w
             THEN RowsOf(rows, u, w) \cup {Len(rows) + 1}
             ELSE RowsOf(rows, u, w)
<1>1. \A i \in 1..Len(rows) : Append(rows, row)[i] = rows[i]
  BY AppendedRows
<1>2. /\ DOMAIN Append(rows, row) = 1..(Len(rows) + 1)
      /\ DOMAIN rows = 1..Len(rows) /\ Len(rows) \in Nat
      /\ Append(rows, row)[Len(rows) + 1] = row
  BY AppendedRows
<1> QED
  BY <1>1, <1>2 DEF RowsOf

\* Cards a step may start from stay available after an insert.
LEMMA BasesAppend ==
    ASSUME NEW rows \in Seq(Row), NEW row \in Row, NEW u, NEW w,
           NEW n \in Nat, NEW m \in Nat, n <= Len(rows), n <= m
    PROVE  Bases(rows, u, w, n) \subseteq Bases(Append(rows, row), u, w, m)
<1>1. /\ \A i \in 1..Len(rows) : Append(rows, row)[i] = rows[i]
      /\ DOMAIN rows = 1..Len(rows)
  BY AppendedRows
<1>2. RowsOf(rows, u, w) \subseteq RowsOf(Append(rows, row), u, w)
  BY RowsOfAppend
<1>3. RowsOf(rows, u, w) \subseteq 1..Len(rows)
  BY <1>1 DEF RowsOf
<1>4. ASSUME NEW c \in Bases(rows, u, w, n)
      PROVE  c \in Bases(Append(rows, row), u, w, m)
  <2>1. CASE c = FreshCard
    BY <2>1 DEF Bases
  <2>2. CASE c # FreshCard
    <3>1. PICK j \in UpTo(RowsOf(rows, u, w), n) : c = rows[j].card
      BY <1>4, <2>2 DEF Bases
    <3>2. j \in RowsOf(rows, u, w) /\ j <= n /\ j \in 1..Len(rows)
      BY <3>1, <1>3 DEF UpTo
    <3>3. j \in UpTo(RowsOf(Append(rows, row), u, w), m)
      BY <3>2, <1>2 DEF UpTo
    <3>4. c = Append(rows, row)[j].card
      BY <3>1, <3>2, <1>1
    <3> QED
      BY <3>3, <3>4 DEF Bases
  <2> QED
    BY <2>1, <2>2
<1> QED
  BY <1>4

\* Every base is a card.
LEMMA BasesType ==
    ASSUME NEW rows \in Seq(Row), NEW u, NEW w, NEW n
    PROVE  Bases(rows, u, w, n) \subseteq Card
<1>1. FreshCard \in Card
  BY DEF FreshCard, Card
<1>2. \A j \in DOMAIN rows : rows[j].card \in Card
  BY RowType
<1> QED
  BY <1>1, <1>2 DEF Bases, UpTo, RowsOf

\* Under the order of created_at, the newest row of a pair by (created_at, id)
\* is the last inserted one.
LEMMA LatestIsLast ==
    ASSUME TypeOK, Ordered, HasLast,
           NEW u \in Users \cup {0}, NEW w \in Words \cup {0},
           RowsOf(attempts, u, w) # {}
    PROVE  IsLast(attempts, u, w, LatestForWord(attempts, u, w))
<1> DEFINE R == RowsOf(attempts, u, w)
<1>1. PICK i \in DOMAIN attempts : IsLast(attempts, u, w, i)
  BY DEF HasLast
<1>2. /\ R \subseteq DOMAIN attempts
      /\ DOMAIN attempts = 1..Len(attempts) /\ Len(attempts) \in Nat
      /\ \A j \in DOMAIN attempts : attempts[j].createdAt \in Nat
  BY RowType DEF RowsOf, TypeOK
<1>3. i \in R /\ \A j \in R : j <= i
  BY <1>1 DEF IsLast
<1>4. IsLatest(attempts, u, w, i)
  <2>1. ASSUME NEW j \in R PROVE NewerThan(attempts, i, j)
    <3>1. j \in 1..i /\ i \in DOMAIN attempts /\ j \in DOMAIN attempts
      BY <1>2, <1>3, <2>1
    <3>2. attempts[j].createdAt <= attempts[i].createdAt
      BY <3>1 DEF Ordered
    <3> QED
      BY <3>1, <3>2, <1>2, <1>3 DEF NewerThan
  <2> QED
    BY <1>3, <2>1 DEF IsLatest
<1> DEFINE k == LatestForWord(attempts, u, w)
<1>5. k \in R /\ IsLatest(attempts, u, w, k)
  <2>1. k = CHOOSE x \in R : IsLatest(attempts, u, w, x)
    BY DEF LatestForWord
  <2> QED
    BY <2>1, <1>3, <1>4
<1>6. NewerThan(attempts, k, i)
  BY <1>3, <1>5 DEF IsLatest
<1> HIDE DEF k
<1>7. k \in 1..i /\ k \in DOMAIN attempts
  BY <1>2, <1>3, <1>5
<1>8. attempts[k].createdAt <= attempts[i].createdAt
  BY <1>2, <1>3, <1>7 DEF Ordered
<1>9. k = i
  BY <1>2, <1>3, <1>6, <1>7, <1>8 DEF NewerThan
<1> QED
  BY <1>1, <1>9 DEF k

\* What LatestForWord gives a handler is a base of its pair.
LEMMA LoadedCardIsBase ==
    ASSUME TypeOK, Ordered, HasLast,
           NEW u \in Users \cup {0}, NEW w \in Words \cup {0}
    PROVE  LoadedCard(attempts, u, w) \in Bases(attempts, u, w, Len(attempts))
<1>1. CASE RowsOf(attempts, u, w) = {}
  BY <1>1 DEF LoadedCard, LatestForWord, Bases
<1>2. CASE RowsOf(attempts, u, w) # {}
  <2> DEFINE k == LatestForWord(attempts, u, w)
  <2>1. k \in RowsOf(attempts, u, w)
    BY <1>2, LatestIsLast DEF IsLast
  <2>2. k \in 1..Len(attempts) /\ Len(attempts) \in Nat
    BY <2>1 DEF RowsOf, TypeOK
  <2> HIDE DEF k
  <2>3. k # 0 /\ k \in UpTo(RowsOf(attempts, u, w), Len(attempts))
    BY <2>1, <2>2 DEF UpTo
  <2>4. LoadedCard(attempts, u, w) = attempts[k].card
    BY <2>3 DEF LoadedCard, k
  <2> QED
    BY <2>3, <2>4 DEF Bases
<1> QED
  BY <1>1, <1>2

-----------------------------------------------------------------------------
\* The row a handler inserts is a row of the table's type.
LEMMA NewRowType ==
    ASSUME TypeOK, NEW r \in Requests,
           WellFormed(body[r])
    PROVE  NewRow(r) \in Row
<1>1. body[r] \in Body /\ card[r] \in Card /\ reviewedAt[r] \in Nat /\ today \in Nat
  BY DEF TypeOK
<1>2. body[r].user \in Users /\ body[r].word \in Words
  BY <1>1 DEF Body, WellFormed
<1>3. Quality(body[r]) \in Qualities
  BY <1>1, QualityType
<1>4. NextReviewAt(card[r], reviewedAt[r]) \in Nat
  BY <1>1 DEF NextReviewAt, Card
<1> QED
  BY <1>1, <1>2, <1>3, <1>4 DEF NewRow, Row

\* A request that got past the validation keeps its well-formed body.
BodiesSound == \A r \in Requests : pc[r] # "idle" => WellFormed(body[r])

FullInv == IInv /\ BodiesSound

\* A handler's INSERT runs, whatever it answers.
RowEnters(r) == \E response \in Reply : Inserts(r, response)

\* A row enters with the reply that carries its id, or with a failure.
LEMMA AnswersToAnInsert ==
    ASSUME TypeOK, NEW r \in Requests
    PROVE  InsertRow(r) \/ InsertReportsFailure(r) => RowEnters(r)
<1>1. Len(attempts) + 1 \in Nat
  BY DEF TypeOK
<1>2. [status |-> 201, id |-> Len(attempts) + 1] \in Reply /\ Failed \in Reply
  BY <1>1 DEF Reply, Failed
<1> QED
  BY <1>2 DEF InsertRow, InsertReportsFailure, RowEnters

\* Every action keeps the type invariant.
LEMMA TypeStep ==
    ASSUME FullInv, [Next]_vars
    PROVE  TypeOK'
<1> USE DEF FullInv, IInv
<1>1. FreshCard \in Card /\ 0 \in Nat /\ NoReply \in Reply
  BY DEF FreshCard, Card, NoReply, Reply
<1>2. CASE UNCHANGED vars
  BY <1>2 DEF vars, TypeOK
<1>3. CASE NextDay
  BY <1>3 DEF NextDay, TypeOK
<1>4. ASSUME NEW r \in Requests, Reject(r)
      PROVE  TypeOK'
  <2>1. [status |-> 400, id |-> 0] \in Reply
    BY DEF Reply
  <2> QED
    BY <1>4, <2>1 DEF Reject, TypeOK
<1>5. ASSUME NEW r \in Requests, NEW b \in Body, Accept(r, b)
      PROVE  TypeOK'
  BY <1>1, <1>5 DEF Accept, TypeOK
<1>6. ASSUME NEW r \in Requests, LoadState(r)
      PROVE  TypeOK'
  <2>1. body[r].user \in Users \cup {0} /\ body[r].word \in Words \cup {0}
    <3>1. body[r] \in Body
      BY DEF TypeOK
    <3> QED BY <3>1 DEF Body
  <2>2. LoadedCard(attempts, body[r].user, body[r].word) \in Card
    BY <2>1, LoadedCardIsBase, BasesType DEF TypeOK
  <2> QED
    BY <1>6, <2>2 DEF LoadState, TypeOK
<1>7. ASSUME NEW r \in Requests, GradeCard(r)
      PROVE  TypeOK'
  <2>1. Quality(body[r]) \in Int /\ card[r] \in Card
    BY QualityType DEF TypeOK
  <2>2. NextCard(card[r], Quality(body[r])) \in Card
    BY <2>1, NextCardStep
  <2> QED
    BY <1>7, <2>2 DEF GradeCard, TypeOK
<1>8. ASSUME NEW r \in Requests, RowEnters(r)
      PROVE  TypeOK'
  <2>1. NewRow(r) \in Row
    BY <1>8, NewRowType DEF RowEnters, Inserts, BodiesSound
  <2>2. attempts' \in Seq(Row)
    BY <1>8, <2>1, AppendedRows DEF RowEnters, Inserts, TypeOK
  <2> QED
    BY <1>1, <1>8, <2>2 DEF RowEnters, Inserts, Respond, TypeOK
<1>9. ASSUME NEW r \in Requests, QueryFails(r)
      PROVE  TypeOK'
  <2>1. Failed \in Reply
    BY DEF Reply, Failed
  <2> QED
    BY <1>1, <1>9, <2>1 DEF QueryFails, Respond, TypeOK
<1> QED
  BY <1>2, <1>3, <1>4, <1>5, <1>6, <1>7, <1>8, <1>9, AnswersToAnInsert DEF Next, Handler

\* An insert keeps the order, extends the last row of its pair, and adds a
\* row that is one SM-2 step from a base.
LEMMA InsertStep ==
    ASSUME FullInv, NEW r \in Requests, RowEnters(r)
    PROVE  Ordered' /\ HasLast' /\ RowsFollowSM2' /\ RowsInRange'
<1> USE DEF FullInv, IInv
<1> DEFINE n == Len(attempts)
           row == NewRow(r)
<1>1. row \in Row /\ attempts \in Seq(Row) /\ n \in Nat
  BY NewRowType DEF RowEnters, Inserts, BodiesSound, TypeOK
<1>2. attempts' = Append(attempts, row) /\ today' = today
  BY DEF RowEnters, Inserts, Respond
<1>3. /\ DOMAIN attempts = 1..n /\ DOMAIN attempts' = 1..(n + 1)
      /\ \A i \in 1..n : attempts'[i] = attempts[i]
      /\ attempts'[n + 1] = row
  BY <1>1, <1>2, AppendedRows
<1>4. row.createdAt = today /\ today \in Nat /\ row.card = card[r]
      /\ row.user = body[r].user /\ row.word = body[r].word
      /\ row.quality = Quality(body[r])
  BY DEF NewRow, TypeOK
<1>5. \A i \in 1..n : attempts[i].createdAt \in Nat /\ attempts[i].createdAt <= today
  BY <1>1, <1>3, RowType DEF Ordered
<1> HIDE DEF row, n
<1>6. Ordered'
  <2>1. ASSUME NEW i \in 1..(n + 1), NEW j \in 1..i
        PROVE  /\ attempts'[i].createdAt <= today
               /\ attempts'[j].createdAt <= attempts'[i].createdAt
    <3>1. CASE i = n + 1
      BY <1>1, <1>3, <1>4, <1>5, <3>1
    <3>2. CASE i \in 1..n
      <4>1. j \in 1..n
        BY <1>1, <3>2
      <4> QED
        BY <1>1, <1>3, <1>5, <3>2, <4>1 DEF Ordered
    <3> QED
      BY <1>1, <3>1, <3>2
  <2>2. \A i \in 1..(n + 1) : i \in 1..i
    BY <1>1
  <2> QED
    BY <1>2, <1>3, <2>1, <2>2 DEF Ordered
<1>7. HasLast'
  <2>1. ASSUME NEW u \in Users \cup {0}, NEW w \in Words \cup {0},
               RowsOf(attempts', u, w) # {}
        PROVE  \E i \in DOMAIN attempts' : IsLast(attempts', u, w, i)
    <3>0. RowsOf(attempts, u, w) \subseteq 1..n
      BY <1>3 DEF RowsOf
    <3>1. CASE row.user = u /\ row.word = w
      <4>1. RowsOf(attempts', u, w) = RowsOf(attempts, u, w) \cup {n + 1}
        BY <1>1, <1>2, <3>1, RowsOfAppend DEF n
      <4>2. IsLast(attempts', u, w, n + 1)
        BY <1>1, <3>0, <4>1 DEF IsLast
      <4> QED
        BY <1>1, <1>3, <4>2
    <3>2. CASE ~(row.user = u /\ row.word = w)
      <4>1. RowsOf(attempts', u, w) = RowsOf(attempts, u, w)
        BY <1>1, <1>2, <3>2, RowsOfAppend
      <4>2. PICK i \in DOMAIN attempts : IsLast(attempts, u, w, i)
        BY <2>1, <4>1 DEF HasLast
      <4>3. IsLast(attempts', u, w, i)
        BY <4>1, <4>2 DEF IsLast
      <4>4. i \in DOMAIN attempts'
        BY <1>1, <1>3, <4>2
      <4> QED
        BY <4>3, <4>4
    <3> QED
      BY <3>1, <3>2
  <2> QED
    BY <2>1 DEF HasLast
<1>8. RowsFollowSM2'
  <2>1. ASSUME NEW i \in 1..(n + 1)
        PROVE  \E base \in Bases(attempts', attempts'[i].user, attempts'[i].word, i - 1) :
                 attempts'[i].card = NextCard(base, attempts'[i].quality)
    <3>1. CASE i = n + 1
      <4>1. PICK base \in Bases(attempts, body[r].user, body[r].word, n) :
              card[r] = NextCard(base, Quality(body[r]))
        BY DEF HandlersSound, RowEnters, Inserts, n
      <4>2. base \in Bases(attempts', body[r].user, body[r].word, n)
        BY <1>1, <1>2, <4>1, BasesAppend DEF n
      <4>3. i - 1 = n
        BY <1>1, <3>1
      <4> QED
        BY <1>3, <1>4, <3>1, <4>1, <4>2, <4>3
    <3>2. CASE i \in 1..n
      <4>1. PICK base \in Bases(attempts, attempts[i].user, attempts[i].word, i - 1) :
              attempts[i].card = NextCard(base, attempts[i].quality)
        BY <1>3, <3>2 DEF RowsFollowSM2
      <4>2. base \in Bases(attempts', attempts[i].user, attempts[i].word, i - 1)
        <5>1. i - 1 \in Nat /\ i - 1 <= Len(attempts)
          BY <1>1, <3>2 DEF n
        <5> QED
          BY <1>1, <1>2, <4>1, <5>1, BasesAppend
      <4>3. attempts'[i] = attempts[i]
        BY <1>3, <3>2
      <4> QED
        BY <4>1, <4>2, <4>3
    <3> QED
      BY <1>1, <3>1, <3>2
  <2> QED
    BY <1>3, <2>1 DEF RowsFollowSM2
<1>9. RowsInRange'
  <2>1. card[r].ease >= EaseFloor /\ card[r].interval >= 1
    BY DEF RowEnters, Inserts, CardsInRange
  <2>2. ASSUME NEW i \in 1..(n + 1)
        PROVE  attempts'[i].card.ease >= EaseFloor /\ attempts'[i].card.interval >= 1
    <3>1. CASE i = n + 1
      BY <1>3, <1>4, <2>1, <3>1
    <3>2. CASE i \in 1..n
      BY <1>3, <3>2 DEF RowsInRange
    <3> QED
      BY <1>1, <3>1, <3>2
  <2> QED
    BY <1>3, <2>2 DEF RowsInRange
<1> QED
  BY <1>6, <1>7, <1>8, <1>9

\* What handlers hold in memory stays sound: a handler's own step establishes
\* it, and an insert by another handler only adds bases.
LEMMA HandlersStep ==
    ASSUME FullInv, [Next]_vars
    PROVE  HandlersSound' /\ CardsInRange' /\ BodiesSound'
<1> USE DEF FullInv, IInv
<1>1. CASE UNCHANGED vars
  BY <1>1 DEF vars, HandlersSound, CardsInRange, BodiesSound
<1>2. CASE NextDay
  BY <1>2 DEF NextDay, HandlersSound, CardsInRange, BodiesSound
<1>3. ASSUME NEW r \in Requests, Reject(r)
      PROVE  HandlersSound' /\ CardsInRange' /\ BodiesSound'
  BY <1>3 DEF Reject, HandlersSound, CardsInRange, BodiesSound
<1>4. ASSUME NEW r \in Requests, NEW b \in Body, Accept(r, b)
      PROVE  HandlersSound' /\ CardsInRange' /\ BodiesSound'
  BY <1>4 DEF Accept, HandlersSound, CardsInRange, BodiesSound, TypeOK
<1>5. ASSUME NEW r \in Requests, LoadState(r)
      PROVE  HandlersSound' /\ CardsInRange' /\ BodiesSound'
  <2>1. body[r].user \in Users \cup {0} /\ body[r].word \in Words \cup {0}
    <3>1. body[r] \in Body
      BY DEF TypeOK
    <3> QED BY <3>1 DEF Body
  <2>2. LoadedCard(attempts, body[r].user, body[r].word)
          \in Bases(attempts, body[r].user, body[r].word, Len(attempts))
    BY <2>1, LoadedCardIsBase
  <2> QED
    BY <1>5, <2>2 DEF LoadState, HandlersSound, CardsInRange, BodiesSound, TypeOK
<1>6. ASSUME NEW r \in Requests, GradeCard(r)
      PROVE  HandlersSound' /\ CardsInRange' /\ BodiesSound'
  <2>1. Quality(body[r]) \in Int /\ card[r] \in Card
    BY QualityType DEF TypeOK
  <2>2. /\ NextCard(card[r], Quality(body[r])).ease >= EaseFloor
        /\ NextCard(card[r], Quality(body[r])).interval >= 1
    BY <2>1, NextCardStep
  <2>3. card[r] \in Bases(attempts, body[r].user, body[r].word, Len(attempts))
    BY <1>6 DEF GradeCard, HandlersSound
  <2> QED
    BY <1>6, <2>2, <2>3 DEF GradeCard, HandlersSound, CardsInRange, BodiesSound, TypeOK
<1>7. ASSUME NEW r \in Requests, RowEnters(r)
      PROVE  HandlersSound' /\ CardsInRange' /\ BodiesSound'
  <2>1. NewRow(r) \in Row /\ attempts \in Seq(Row)
    BY <1>7, NewRowType DEF RowEnters, Inserts, BodiesSound, TypeOK
  <2>2. attempts' = Append(attempts, NewRow(r)) /\ body' = body
    BY <1>7 DEF RowEnters, Inserts, Respond
  <2>3. Len(attempts) \in Nat /\ Len(attempts') \in Nat /\ Len(attempts) <= Len(attempts')
    BY <2>1, <2>2, AppendedRows
  <2>4. ASSUME NEW u, NEW w
        PROVE  Bases(attempts, u, w, Len(attempts))
                 \subseteq Bases(attempts', u, w, Len(attempts'))
    BY <2>1, <2>2, <2>3, BasesAppend
  <2>5. \A s \in Requests \ {r} : pc'[s] = pc[s] /\ card'[s] = card[s]
    BY <1>7 DEF RowEnters, Inserts, Respond, TypeOK
  <2>6. pc'[r] = "idle"
    BY <1>7 DEF RowEnters, Inserts, Respond, TypeOK
  <2>7. HandlersSound'
    <3>1. ASSUME NEW s \in Requests
          PROVE  /\ pc'[s] = "grade" =>
                      card'[s] \in Bases(attempts', body'[s].user, body'[s].word, Len(attempts'))
                 /\ pc'[s] = "insert" =>
                      \E base \in Bases(attempts', body'[s].user, body'[s].word, Len(attempts')) :
                         card'[s] = NextCard(base, Quality(body'[s]))
      <4>1. CASE s = r
        BY <2>6, <4>1
      <4>2. CASE s # r
        <5>1. pc'[s] = pc[s] /\ card'[s] = card[s] /\ body'[s] = body[s]
          BY <2>2, <2>5, <4>2
        <5>2. Bases(attempts, body[s].user, body[s].word, Len(attempts))
                \subseteq Bases(attempts', body[s].user, body[s].word, Len(attempts'))
          BY <2>4
        <5> QED
          BY <5>1, <5>2 DEF HandlersSound
      <4> QED
        BY <4>1, <4>2
    <3> QED
      BY <3>1 DEF HandlersSound
  <2> QED
    BY <2>2, <2>5, <2>6, <2>7 DEF CardsInRange, BodiesSound
<1>8. ASSUME NEW r \in Requests, QueryFails(r)
      PROVE  HandlersSound' /\ CardsInRange' /\ BodiesSound'
  BY <1>8 DEF QueryFails, Respond, HandlersSound, CardsInRange, BodiesSound, TypeOK
<1> QED
  BY <1>1, <1>2, <1>3, <1>4, <1>5, <1>6, <1>7, <1>8, AnswersToAnInsert DEF Next, Handler

\* The facts about the table survive every action.
LEMMA TableStep ==
    ASSUME FullInv, [Next]_vars
    PROVE  Ordered' /\ HasLast' /\ RowsFollowSM2' /\ RowsInRange'
<1> USE DEF FullInv, IInv
<1>1. CASE UNCHANGED attempts /\ today' >= today
  <2>1. today \in Nat /\ \A i \in DOMAIN attempts : attempts[i].createdAt \in Nat
    BY RowType DEF TypeOK
  <2>2. today' \in Nat
    BY TypeStep DEF TypeOK
  <2> QED
    BY <1>1, <2>1, <2>2 DEF Ordered, HasLast, RowsFollowSM2, RowsInRange
<1>2. ASSUME NEW r \in Requests, RowEnters(r)
      PROVE  Ordered' /\ HasLast' /\ RowsFollowSM2' /\ RowsInRange'
  BY <1>2, InsertStep
<1>3. today \in Nat
  BY DEF TypeOK
<1>4. CASE UNCHANGED vars
  BY <1>1, <1>3, <1>4 DEF vars
<1>5. CASE NextDay
  BY <1>1, <1>3, <1>5 DEF NextDay
<1>6. ASSUME NEW r \in Requests, Reject(r) \/ (\E b \in Body : Accept(r, b))
      PROVE  UNCHANGED attempts /\ today' >= today
  BY <1>3, <1>6 DEF Reject, Accept
<1>7. ASSUME NEW r \in Requests, LoadState(r) \/ GradeCard(r) \/ QueryFails(r)
      PROVE  UNCHANGED attempts /\ today' >= today
  BY <1>3, <1>7 DEF LoadState, GradeCard, QueryFails, Respond
<1> QED
  BY <1>1, <1>2, <1>4, <1>5, <1>6, <1>7, AnswersToAnInsert DEF Next, Handler

\* The empty table satisfies the invariant.
LEMMA InitFullInv == Init => FullInv
<1> SUFFICES ASSUME Init PROVE FullInv
  OBVIOUS
<1>1. TypeOK
  BY DEF Init, TypeOK, Body, NoBody, Card, FreshCard, Reply, NoReply
<1> QED
  BY <1>1 DEF Init, FullInv, IInv, Ordered, HasLast, HandlersSound,
      RowsFollowSM2, RowsInRange, CardsInRange, BodiesSound, RowsOf

\* The inductive invariant holds of every reachable state.
THEOREM Invariance == Spec => []FullInv
<1>1. FullInv /\ [Next]_vars => FullInv'
  BY TypeStep, HandlersStep, TableStep DEF FullInv, IInv
<1> QED
  BY <1>1, InitFullInv, PTL DEF Spec

\* Every reachable state is well typed.
THEOREM TypeCorrect == Spec => []TypeOK
<1>1. FullInv => TypeOK
  BY DEF FullInv, IInv
<1> QED
  BY <1>1, Invariance, PTL

\* For any number of interleaved requests, every stored row is one SM-2 step
\* from the fresh card or from an earlier row of its own pair.
THEOREM RowsAreSM2Steps == Spec => []RowsFollowSM2
<1>1. FullInv => RowsFollowSM2
  BY DEF FullInv, IInv
<1> QED
  BY <1>1, Invariance, PTL

\* Every stored card is in range and the table is ordered by created_at.
THEOREM StoredCardsCorrect == Spec => []StoredCardsInRange
<1>1. FullInv => StoredCardsInRange
  BY DEF FullInv, IInv, Ordered, RowsInRange, StoredCardsInRange
<1> QED
  BY <1>1, Invariance, PTL

\* LatestForWord always returns the row inserted last for the pair.
THEOREM LatestCorrect == Spec => []LatestIsLastInserted
<1>1. FullInv => LatestIsLastInserted
  BY LatestIsLast DEF FullInv, IInv, LatestIsLastInserted, IsLast
<1> QED
  BY <1>1, Invariance, PTL

-----------------------------------------------------------------------------
\* The lapse rows and success rows of a pair after an insert.
LEMMA CountedAppend ==
    ASSUME NEW rows \in Seq(Row), NEW row \in Row, NEW u, NEW w
    PROVE  /\ LapseRows(Append(rows, row), u, w) =
                IF row.user = u /\ row.word = w /\ IsLapse(row.quality)
                THEN LapseRows(rows, u, w) \cup {Len(rows) + 1}
                ELSE LapseRows(rows, u, w)
           /\ SuccessRows(Append(rows, row), u, w) =
                IF row.user = u /\ row.word = w /\ ~IsLapse(row.quality)
                THEN SuccessRows(rows, u, w) \cup {Len(rows) + 1}
                ELSE SuccessRows(rows, u, w)
<1>1. /\ \A i \in 1..Len(rows) : Append(rows, row)[i] = rows[i]
      /\ Append(rows, row)[Len(rows) + 1] = row
      /\ DOMAIN rows = 1..Len(rows) /\ Len(rows) \in Nat
  BY AppendedRows
<1>2. RowsOf(rows, u, w) \subseteq 1..Len(rows) /\ Len(rows) + 1 \notin 1..Len(rows)
  BY <1>1 DEF RowsOf
<1>3. CASE row.user = u /\ row.word = w
  <2>1. RowsOf(Append(rows, row), u, w) = RowsOf(rows, u, w) \cup {Len(rows) + 1}
    BY <1>3, RowsOfAppend
  <2> QED
    BY <1>1, <1>2, <1>3, <2>1 DEF LapseRows, SuccessRows
<1>4. CASE ~(row.user = u /\ row.word = w)
  <2>1. RowsOf(Append(rows, row), u, w) = RowsOf(rows, u, w)
    BY <1>4, RowsOfAppend
  <2> QED
    BY <1>1, <1>2, <1>4, <2>1 DEF LapseRows, SuccessRows
<1> QED
  BY <1>3, <1>4

\* The counted sets are finite sets of ids.
LEMMA CountedFinite ==
    ASSUME NEW rows \in Seq(Row), NEW u, NEW w, NEW n
    PROVE  /\ LapseRows(rows, u, w) \subseteq 1..Len(rows)
           /\ SuccessRows(rows, u, w) \subseteq 1..Len(rows)
           /\ IsFiniteSet(LapseRows(rows, u, w))
           /\ IsFiniteSet(SuccessRows(rows, u, w))
           /\ Cardinality(LapseRows(rows, u, w)) \in Nat
           /\ Cardinality(SuccessRows(rows, u, w)) \in Nat
           /\ Cardinality(UpTo(LapseRows(rows, u, w), n)) \in Nat
           /\ Cardinality(UpTo(SuccessRows(rows, u, w), n)) \in Nat
           /\ Cardinality(UpTo(LapseRows(rows, u, w), n))
                <= Cardinality(LapseRows(rows, u, w))
           /\ Cardinality(UpTo(SuccessRows(rows, u, w), n))
                <= Cardinality(SuccessRows(rows, u, w))
<1>1. RowsOf(rows, u, w) \subseteq 1..Len(rows) /\ Len(rows) \in Nat
  BY DEF RowsOf
<1>2. /\ LapseRows(rows, u, w) \subseteq 1..Len(rows)
      /\ SuccessRows(rows, u, w) \subseteq 1..Len(rows)
  BY <1>1 DEF LapseRows, SuccessRows
<1>3. IsFiniteSet(1..Len(rows))
  BY <1>1, FS_Interval
<1>4. /\ IsFiniteSet(LapseRows(rows, u, w))
      /\ IsFiniteSet(SuccessRows(rows, u, w))
  BY <1>2, <1>3, FS_Subset
<1>5. \A S : UpTo(S, n) \subseteq S
  BY DEF UpTo
<1> QED
  BY <1>2, <1>4, <1>5, FS_Subset, FS_CardinalityType

\* A card a step may start from never counts more than the table does.
LEMMA BasesCounted ==
    ASSUME TypeOK, CountersNeverInvented, NEW u, NEW w,
           NEW base \in Bases(attempts, u, w, Len(attempts))
    PROVE  /\ base.lapses <= Cardinality(LapseRows(attempts, u, w))
           /\ base.reps <= Cardinality(SuccessRows(attempts, u, w))
<1>1. attempts \in Seq(Row)
  BY DEF TypeOK
<1>2. CASE base = FreshCard
  <2>1. base.lapses = 0 /\ base.reps = 0
    BY <1>2 DEF FreshCard
  <2>2. /\ Cardinality(LapseRows(attempts, u, w)) \in Nat
        /\ Cardinality(SuccessRows(attempts, u, w)) \in Nat
    BY <1>1, CountedFinite
  <2> QED
    BY <2>1, <2>2
<1>3. CASE base # FreshCard
  <2>1. PICK j \in RowsOf(attempts, u, w) : base = attempts[j].card
    BY <1>3 DEF Bases, UpTo
  <2>2. /\ j \in DOMAIN attempts /\ attempts[j].user = u /\ attempts[j].word = w
        /\ base.lapses \in Nat /\ base.reps \in Nat
    BY <1>1, <2>1, RowType DEF RowsOf, Card
  <2>3. /\ base.lapses <= Cardinality(UpTo(LapseRows(attempts, u, w), j))
        /\ base.reps <= Cardinality(UpTo(SuccessRows(attempts, u, w), j))
    BY <2>1, <2>2 DEF CountersNeverInvented
  <2>4. /\ Cardinality(UpTo(LapseRows(attempts, u, w), j)) \in Nat
        /\ Cardinality(UpTo(SuccessRows(attempts, u, w), j)) \in Nat
        /\ Cardinality(LapseRows(attempts, u, w)) \in Nat
        /\ Cardinality(SuccessRows(attempts, u, w)) \in Nat
        /\ Cardinality(UpTo(LapseRows(attempts, u, w), j))
             <= Cardinality(LapseRows(attempts, u, w))
        /\ Cardinality(UpTo(SuccessRows(attempts, u, w), j))
             <= Cardinality(SuccessRows(attempts, u, w))
    BY <1>1, CountedFinite
  <2> QED
    BY <2>2, <2>3, <2>4
<1> QED
  BY <1>2, <1>3

\* Ids up to the new one: all the earlier ones, and the new one if it is there.
LEMMA UpToNew ==
    ASSUME NEW n \in Nat, NEW S \in SUBSET (1..n)
    PROVE  /\ UpTo(S, n + 1) = S
           /\ UpTo(S \cup {n + 1}, n + 1) = S \cup {n + 1}
           /\ IsFiniteSet(S) /\ Cardinality(S) \in Nat
           /\ Cardinality(S \cup {n + 1}) = Cardinality(S) + 1
<1>1. n + 1 \notin S /\ \A x \in S \cup {n + 1} : x <= n + 1
  OBVIOUS
<1>2. UpTo(S, n + 1) = S /\ UpTo(S \cup {n + 1}, n + 1) = S \cup {n + 1}
  BY <1>1, Zenon DEF UpTo
<1>3. IsFiniteSet(1..n)
  BY FS_Interval
<1>4. IsFiniteSet(S)
  BY <1>3, FS_Subset
<1> QED
  BY <1>1, <1>2, <1>4, FS_AddElement, FS_CardinalityType

\* A row that is one step from a counted base is itself counted.
LEMMA NewRowCounted ==
    ASSUME NEW rows \in Seq(Row), NEW row \in Row, NEW base \in Card,
           row.card = NextCard(base, row.quality),
           base.lapses <= Cardinality(LapseRows(rows, row.user, row.word)),
           base.reps <= Cardinality(SuccessRows(rows, row.user, row.word))
    PROVE  /\ row.card.lapses
                <= Cardinality(UpTo(LapseRows(Append(rows, row), row.user, row.word),
                                    Len(rows) + 1))
           /\ row.card.reps
                <= Cardinality(UpTo(SuccessRows(Append(rows, row), row.user, row.word),
                                    Len(rows) + 1))
<1> DEFINE L == LapseRows(rows, row.user, row.word)
           S == SuccessRows(rows, row.user, row.word)
           LL == LapseRows(Append(rows, row), row.user, row.word)
           SS == SuccessRows(Append(rows, row), row.user, row.word)
           n == Len(rows)
<1>1. n \in Nat /\ L \in SUBSET (1..n) /\ S \in SUBSET (1..n)
  <2>1. n \in Nat
    OBVIOUS
  <2>2. L \subseteq 1..n /\ S \subseteq 1..n
    BY CountedFinite
  <2> QED
    BY <2>1, <2>2
<1>2. row.quality \in Int /\ base.lapses \in Nat /\ base.reps \in Nat
  BY DEF Row, Qualities, Card
<1>3. CASE IsLapse(row.quality)
  <2>1. row.card.lapses = base.lapses + 1 /\ row.card.reps = 0
    BY <1>2, <1>3, NextCardStep
  <2>2. LL = L \cup {n + 1} /\ SS = S
    BY <1>3, CountedAppend
  <2> HIDE DEF L, S, LL, SS, n
  <2>3. /\ Cardinality(UpTo(LL, n + 1)) = Cardinality(L) + 1
        /\ Cardinality(UpTo(SS, n + 1)) = Cardinality(S)
        /\ Cardinality(L) \in Nat /\ Cardinality(S) \in Nat
    BY <1>1, <2>2, UpToNew
  <2> QED
    BY <1>2, <2>1, <2>3 DEF L, S, LL, SS, n
<1>4. CASE ~IsLapse(row.quality)
  <2>1. row.card.lapses = base.lapses /\ row.card.reps = base.reps + 1
    BY <1>2, <1>4, NextCardStep
  <2>2. LL = L /\ SS = S \cup {n + 1}
    BY <1>4, CountedAppend
  <2> HIDE DEF L, S, LL, SS, n
  <2>3. /\ Cardinality(UpTo(LL, n + 1)) = Cardinality(L)
        /\ Cardinality(UpTo(SS, n + 1)) = Cardinality(S) + 1
        /\ Cardinality(L) \in Nat /\ Cardinality(S) \in Nat
    BY <1>1, <2>2, UpToNew
  <2> QED
    BY <1>2, <2>1, <2>3 DEF L, S, LL, SS, n
<1> QED
  BY <1>3, <1>4

\* The counters of the inserted row.
LEMMA InsertedRowCounted ==
    ASSUME FullInv, CountersNeverInvented, NEW r \in Requests, RowEnters(r)
    PROVE  /\ card[r].lapses <= Cardinality(UpTo(
                LapseRows(attempts', body[r].user, body[r].word), Len(attempts) + 1))
           /\ card[r].reps <= Cardinality(UpTo(
                SuccessRows(attempts', body[r].user, body[r].word), Len(attempts) + 1))
<1> USE DEF FullInv, IInv
<1>1. NewRow(r) \in Row /\ attempts \in Seq(Row)
  BY NewRowType DEF RowEnters, Inserts, BodiesSound, TypeOK
<1>2. attempts' = Append(attempts, NewRow(r))
  BY DEF RowEnters, Inserts
<1>3. /\ NewRow(r).user = body[r].user /\ NewRow(r).word = body[r].word
      /\ NewRow(r).quality = Quality(body[r]) /\ NewRow(r).card = card[r]
  BY DEF NewRow
<1>4. PICK base \in Bases(attempts, body[r].user, body[r].word, Len(attempts)) :
        card[r] = NextCard(base, Quality(body[r]))
  BY DEF HandlersSound, RowEnters, Inserts
<1>5. base \in Card
  BY <1>1, <1>4, BasesType
<1>6. /\ base.lapses <= Cardinality(LapseRows(attempts, body[r].user, body[r].word))
      /\ base.reps <= Cardinality(SuccessRows(attempts, body[r].user, body[r].word))
  BY <1>4, BasesCounted
<1> QED
  BY <1>1, <1>2, <1>3, <1>4, <1>5, <1>6, NewRowCounted

\* An insert keeps the counters of every row within the recorded answers.
LEMMA CountersStep ==
    ASSUME FullInv, CountersNeverInvented, [Next]_vars
    PROVE  CountersNeverInvented'
<1> USE DEF FullInv, IInv
<1>1. CASE UNCHANGED attempts
  BY <1>1 DEF CountersNeverInvented
<1>2. ASSUME NEW r \in Requests, RowEnters(r)
      PROVE  CountersNeverInvented'
  <2> DEFINE n == Len(attempts)
  <2>1. NewRow(r) \in Row /\ attempts \in Seq(Row) /\ n \in Nat
    BY <1>2, NewRowType DEF RowEnters, Inserts, BodiesSound, TypeOK
  <2>2. attempts' = Append(attempts, NewRow(r))
    BY <1>2 DEF RowEnters, Inserts
  <2>3. /\ DOMAIN attempts = 1..n /\ DOMAIN attempts' = 1..(n + 1)
        /\ \A i \in 1..n : attempts'[i] = attempts[i]
        /\ attempts'[n + 1] = NewRow(r)
    BY <2>1, <2>2, AppendedRows
  <2>4. /\ NewRow(r).user = body[r].user /\ NewRow(r).word = body[r].word
        /\ NewRow(r).card = card[r]
    BY DEF NewRow
  <2>5. ASSUME NEW i \in 1..n, NEW u, NEW w
        PROVE  /\ UpTo(LapseRows(attempts', u, w), i) = UpTo(LapseRows(attempts, u, w), i)
               /\ UpTo(SuccessRows(attempts', u, w), i) = UpTo(SuccessRows(attempts, u, w), i)
    <3>1. /\ LapseRows(attempts', u, w) = LapseRows(attempts, u, w)
             \/ LapseRows(attempts', u, w) = LapseRows(attempts, u, w) \cup {n + 1}
          /\ SuccessRows(attempts', u, w) = SuccessRows(attempts, u, w)
             \/ SuccessRows(attempts', u, w) = SuccessRows(attempts, u, w) \cup {n + 1}
      BY <2>1, <2>2, CountedAppend
    <3>2. ~(n + 1 <= i)
      BY <2>1
    <3> QED
      BY <3>1, <3>2 DEF UpTo
  <2>6. ASSUME NEW i \in 1..(n + 1)
        PROVE  LET u == attempts'[i].user
                   w == attempts'[i].word
               IN  /\ attempts'[i].card.lapses <= Cardinality(UpTo(LapseRows(attempts', u, w), i))
                   /\ attempts'[i].card.reps <= Cardinality(UpTo(SuccessRows(attempts', u, w), i))
    <3>1. CASE i = n + 1
      BY <1>2, <2>3, <2>4, <3>1, InsertedRowCounted
    <3>2. CASE i \in 1..n
      BY <2>3, <2>5, <3>2 DEF CountersNeverInvented
    <3> QED
      BY <2>1, <3>1, <3>2
  <2> QED
    BY <2>3, <2>6 DEF CountersNeverInvented
<1>3. ASSUME NEW r \in Requests, Reject(r) \/ (\E b \in Body : Accept(r, b))
      PROVE  UNCHANGED attempts
  BY <1>3 DEF Reject, Accept
<1>4. ASSUME NEW r \in Requests, LoadState(r) \/ GradeCard(r) \/ QueryFails(r)
      PROVE  UNCHANGED attempts
  BY <1>4 DEF LoadState, GradeCard, QueryFails
<1>5. CASE UNCHANGED vars \/ NextDay
  BY <1>1, <1>5 DEF vars, NextDay
<1> QED
  BY <1>1, <1>2, <1>3, <1>4, <1>5, AnswersToAnInsert DEF Next, Handler

\* However many requests interleave, the lapses and the streak stored in a row
\* never exceed the wrong and right answers recorded up to it: the races the
\* handler allows can lose an answer but never invent one.
THEOREM CountersCorrect == Spec => []CountersNeverInvented
<1>1. Init => CountersNeverInvented
  BY DEF Init, CountersNeverInvented
<1>2. FullInv /\ CountersNeverInvented /\ [Next]_vars => CountersNeverInvented'
  BY CountersStep
<1> QED
  BY <1>1, <1>2, Invariance, PTL DEF Spec

-----------------------------------------------------------------------------
\* The table implements the review ledger as long as the requests of a pair do
\* not overlap.  The three steps of a handler are one grading event because
\* nobody else inserts a row of its pair between its load and its insert: what
\* it holds in memory is the pair's card of now (CardIsCurrent).
CurrentCard(r) == LoadedCard(attempts, body[r].user, body[r].word)

CardIsCurrent ==
    \A r \in Requests :
        /\ pc[r] = "grade" => card[r] = CurrentCard(r)
        /\ pc[r] = "insert" => card[r] = NextCard(CurrentCard(r), Quality(body[r]))

\* Every request under way has a row left for its answer.
RoomIsLeft ==
    /\ IsFiniteSet(InFlight)
    /\ Len(attempts) + Cardinality(InFlight) <= MaxAttempts

SerialInv ==
    /\ FullInv
    /\ OneAtATime
    /\ CardIsCurrent
    /\ RoomIsLeft

SerialNext == Next /\ OneAtATime'

-----------------------------------------------------------------------------
\* The last row of a pair is its only last row.
LEMMA LastIsUnique ==
    ASSUME NEW rows \in Seq(Row), NEW u, NEW w, NEW i, NEW j,
           IsLast(rows, u, w, i), IsLast(rows, u, w, j)
    PROVE  i = j
<1>1. i \in DOMAIN rows /\ j \in DOMAIN rows /\ i <= j /\ j <= i
  BY DEF IsLast, RowsOf
<1>2. DOMAIN rows \subseteq Int
  OBVIOUS
<1> QED
  BY <1>1, <1>2

\* LatestIsLast in the state after a step.
LEMMA LatestIsLastState ==
    FullInv => \A u \in Users, w \in Words :
        RowsOf(attempts, u, w) # {} => IsLast(attempts, u, w, LatestForWord(attempts, u, w))
BY LatestIsLast DEF FullInv, IInv

\* After a step, too, LatestForWord is the last row of the pair.
LEMMA LatestIsLastNext ==
    (FullInv => \A u \in Users, w \in Words :
        RowsOf(attempts, u, w) # {} => IsLast(attempts, u, w, LatestForWord(attempts, u, w)))'
BY LatestIsLastState, PTL

\* An insert makes the row's card the card of its pair and leaves the cards
\* of the other pairs alone.
LEMMA CurrentAfterInsert ==
    ASSUME FullInv, FullInv', NEW row \in Row, attempts' = Append(attempts, row),
           NEW u \in Users, NEW w \in Words
    PROVE  LoadedCard(attempts', u, w) =
             IF row.user = u /\ row.word = w THEN row.card
             ELSE LoadedCard(attempts, u, w)
<1> DEFINE n == Len(attempts)
<1>1. /\ attempts \in Seq(Row) /\ attempts' \in Seq(Row)
      /\ DOMAIN attempts = 1..n /\ DOMAIN attempts' = 1..(n + 1) /\ n \in Nat
      /\ \A i \in 1..n : attempts'[i] = attempts[i]
      /\ attempts'[n + 1] = row
  BY AppendedRows DEF FullInv, IInv, TypeOK
<1> HIDE DEF n
<1>2. RowsOf(attempts, u, w) \subseteq 1..n
  BY <1>1 DEF RowsOf
<1>3. RowsOf(attempts', u, w) # {} =>
        IsLast(attempts', u, w, LatestForWord(attempts', u, w))
  BY LatestIsLastNext
<1>4. CASE row.user = u /\ row.word = w
  <2>1. RowsOf(attempts', u, w) = RowsOf(attempts, u, w) \cup {n + 1}
    BY <1>1, <1>4, RowsOfAppend DEF n
  <2>2. IsLast(attempts', u, w, n + 1)
    BY <1>1, <1>2, <2>1 DEF IsLast
  <2>3. LatestForWord(attempts', u, w) = n + 1
    BY <1>1, <1>3, <2>1, <2>2, LastIsUnique
  <2> QED
    BY <1>1, <1>4, <2>3 DEF LoadedCard
<1>5. CASE ~(row.user = u /\ row.word = w)
  <2>1. RowsOf(attempts', u, w) = RowsOf(attempts, u, w)
    BY <1>1, <1>5, RowsOfAppend
  <2>2. CASE RowsOf(attempts, u, w) = {}
    BY <1>5, <2>1, <2>2 DEF LoadedCard, LatestForWord
  <2>3. CASE RowsOf(attempts, u, w) # {}
    <3>1. IsLast(attempts, u, w, LatestForWord(attempts, u, w))
      BY <2>3, LatestIsLast DEF FullInv, IInv
    <3>2. IsLast(attempts', u, w, LatestForWord(attempts, u, w))
      BY <2>1, <3>1 DEF IsLast
    <3>3. LatestForWord(attempts', u, w) = LatestForWord(attempts, u, w)
      BY <1>1, <1>3, <2>1, <2>3, <3>2, LastIsUnique
    <3>4. LatestForWord(attempts, u, w) \in 1..n
      BY <1>2, <3>1 DEF IsLast
    <3> QED
      BY <1>1, <1>5, <3>3, <3>4 DEF LoadedCard
  <2> QED
    BY <2>2, <2>3
<1> QED
  BY <1>4, <1>5

\* A well-formed body names a pair of the ledger.
LEMMA BodyPair ==
    ASSUME FullInv, NEW r \in Requests, pc[r] # "idle"
    PROVE  body[r].user \in Users /\ body[r].word \in Words /\ body[r] \in Body
<1>1. body[r] \in Body /\ body[r].user # 0 /\ body[r].word # 0
  BY DEF FullInv, IInv, TypeOK, BodiesSound, WellFormed
<1> QED
  BY <1>1 DEF Body

\* Nobody else moves the card a handler holds.
LEMMA CardIsCurrentStep ==
    ASSUME SerialInv, FullInv', SerialNext
    PROVE  CardIsCurrent'
<1>1. CASE NextDay
  BY <1>1 DEF NextDay, SerialInv, CardIsCurrent, CurrentCard
<1>2. ASSUME NEW r \in Requests, Reject(r)
      PROVE  CardIsCurrent'
  BY <1>2 DEF Reject, SerialInv, CardIsCurrent, CurrentCard
<1>3. ASSUME NEW r \in Requests, NEW b \in Body, Accept(r, b)
      PROVE  CardIsCurrent'
  BY <1>3 DEF Accept, SerialInv, FullInv, IInv, TypeOK, CardIsCurrent, CurrentCard
<1>4. ASSUME NEW r \in Requests, LoadState(r)
      PROVE  CardIsCurrent'
  BY <1>4 DEF LoadState, SerialInv, FullInv, IInv, TypeOK, CardIsCurrent, CurrentCard
<1>5. ASSUME NEW r \in Requests, GradeCard(r)
      PROVE  CardIsCurrent'
  BY <1>5 DEF GradeCard, SerialInv, FullInv, IInv, TypeOK, CardIsCurrent, CurrentCard
<1>6. ASSUME NEW r \in Requests, QueryFails(r)
      PROVE  CardIsCurrent'
  BY <1>6 DEF QueryFails, Respond, SerialInv, FullInv, IInv, TypeOK, CardIsCurrent, CurrentCard
<1>7. ASSUME NEW r \in Requests, RowEnters(r)
      PROVE  CardIsCurrent'
  <2>1. /\ pc[r] = "insert" /\ pc'[r] = "idle" /\ body' = body
        /\ \A s \in Requests \ {r} : pc'[s] = pc[s] /\ card'[s] = card[s]
        /\ attempts' = Append(attempts, NewRow(r))
    BY <1>7 DEF RowEnters, Inserts, Respond, SerialInv, FullInv, IInv, TypeOK
  <2>2. NewRow(r) \in Row
    BY <2>1, NewRowType DEF SerialInv, FullInv, IInv, BodiesSound
  <2>3. ASSUME NEW s \in Requests, pc'[s] # "idle"
        PROVE  CurrentCard(s)' = CurrentCard(s)
    <3>1. s # r /\ pc[s] # "idle"
      BY <2>1, <2>3
    <3>2. body[s].user # body[r].user \/ body[s].word # body[r].word
      BY <2>1, <3>1 DEF SerialInv, OneAtATime, InFlight
    <3>3. body[s].user \in Users /\ body[s].word \in Words
      BY <3>1, BodyPair DEF SerialInv
    <3>4. LoadedCard(attempts', body[s].user, body[s].word)
            = LoadedCard(attempts, body[s].user, body[s].word)
      BY <2>1, <2>2, <3>2, <3>3, CurrentAfterInsert DEF SerialInv, NewRow
    <3> QED
      BY <2>1, <3>4 DEF CurrentCard
  <2> QED
    BY <2>1, <2>3 DEF SerialInv, CardIsCurrent
<1> QED
  BY <1>1, <1>2, <1>3, <1>4, <1>5, <1>6, <1>7, AnswersToAnInsert DEF SerialNext, Next, Handler, SerialInv, FullInv, IInv

\* Every request under way keeps room for its row.
LEMMA RoomIsLeftStep ==
    ASSUME SerialInv, FullInv', SerialNext
    PROVE  RoomIsLeft'
<1>1. /\ IsFiniteSet(InFlight) /\ Cardinality(InFlight) \in Nat
      /\ Len(attempts) + Cardinality(InFlight) <= MaxAttempts
      /\ Len(attempts) \in Nat /\ MaxAttempts \in Nat
      /\ pc \in [Requests -> {"idle", "load", "grade", "insert"}]
      /\ attempts \in Seq(Row)
  BY FS_CardinalityType, AttemptsAssumption
  DEF SerialInv, RoomIsLeft, FullInv, IInv, TypeOK, AttemptsAssumption
<1>2. ASSUME UNCHANGED <<attempts, InFlight>>
      PROVE  RoomIsLeft'
  BY <1>1, <1>2 DEF RoomIsLeft
<1>3. CASE NextDay
  BY <1>2, <1>3 DEF NextDay, InFlight
<1>4. ASSUME NEW r \in Requests, Reject(r) \/ LoadState(r) \/ GradeCard(r)
      PROVE  RoomIsLeft'
  BY <1>1, <1>2, <1>4 DEF Reject, LoadState, GradeCard, InFlight
<1>5. ASSUME NEW r \in Requests, NEW b \in Body, Accept(r, b)
      PROVE  RoomIsLeft'
  <2>1. InFlight' = InFlight \cup {r} /\ r \notin InFlight
    BY <1>1, <1>5 DEF Accept, InFlight
  <2>2. IsFiniteSet(InFlight') /\ Cardinality(InFlight') = Cardinality(InFlight) + 1
    BY <1>1, <2>1, FS_AddElement
  <2> QED
    BY <1>1, <1>5, <2>2 DEF Accept, RoomIsLeft
<1>6. ASSUME NEW r \in Requests, RowEnters(r) \/ QueryFails(r)
      PROVE  RoomIsLeft'
  <2>1. InFlight' = InFlight \ {r} /\ r \in InFlight
    BY <1>1, <1>6 DEF RowEnters, Inserts, QueryFails, Respond, InFlight
  <2>2. IsFiniteSet(InFlight') /\ Cardinality(InFlight') = Cardinality(InFlight) - 1
    BY <1>1, <2>1, FS_RemoveElement
  <2>3. Len(attempts') <= Len(attempts) + 1 /\ Len(attempts') \in Nat
    BY <1>1, <1>6 DEF RowEnters, Inserts, QueryFails, FullInv, IInv, TypeOK
  <2> QED
    BY <1>1, <2>2, <2>3 DEF RoomIsLeft
<1> QED
  BY <1>3, <1>4, <1>5, <1>6, AnswersToAnInsert DEF SerialNext, Next, Handler, SerialInv, FullInv, IInv

\* Every step of requests that do not overlap keeps SerialInv.
LEMMA SerialStep == SerialInv /\ [SerialNext]_vars => SerialInv'
<1> SUFFICES ASSUME SerialInv, [SerialNext]_vars PROVE SerialInv'
  OBVIOUS
<1>1. FullInv'
  BY TypeStep, HandlersStep, TableStep DEF SerialInv, SerialNext, FullInv, IInv
<1>2. CASE SerialNext
  BY <1>1, <1>2, CardIsCurrentStep, RoomIsLeftStep DEF SerialInv, SerialNext
<1>3. CASE UNCHANGED vars
  BY <1>1, <1>3
  DEF vars, SerialInv, OneAtATime, CardIsCurrent, CurrentCard, RoomIsLeft, InFlight
<1> QED
  BY <1>2, <1>3

\* SerialInv holds in every reachable state.
LEMMA SerialInvariance == SerialSpec => []SerialInv
<1>1. Init => SerialInv
  <2> SUFFICES ASSUME Init PROVE SerialInv
    OBVIOUS
  <2>1. FullInv
    BY InitFullInv
  <2>2. InFlight = {}
    BY DEF Init, InFlight
  <2>3. IsFiniteSet({}) /\ Cardinality({}) = 0
    BY FS_EmptySet
  <2>4. RoomIsLeft
    BY <2>2, <2>3, AttemptsAssumption DEF Init, RoomIsLeft, AttemptsAssumption
  <2> QED
    BY <2>1, <2>2, <2>4 DEF Init, SerialInv, OneAtATime, CardIsCurrent
<1> QED
  BY <1>1, SerialStep, PTL DEF SerialSpec, SerialNext

-----------------------------------------------------------------------------
\* The ledger's operators are those of SRS and SeqFilter.
LEMMA LedgerOperators ==
    /\ Ledger!FreshCard = FreshCard /\ Ledger!Qualities = Qualities /\ Ledger!Card = Card
    /\ \A c, q : Ledger!NextCard(c, q) = NextCard(c, q)
    /\ \A q : Ledger!IsLapse(q) <=> IsLapse(q)
    /\ \A list, keep : Ledger!Filter(list, keep) = Filter(list, keep)
<1>1. /\ Ledger!FreshCard = FreshCard /\ Ledger!Qualities = Qualities /\ Ledger!Card = Card
      /\ \A q : Ledger!IsLapse(q) <=> IsLapse(q)
  BY DEF Ledger!FreshCard, FreshCard, Ledger!Qualities, Qualities, Ledger!Card, Card,
    Ledger!IsLapse, IsLapse, Ledger!clampQuality, clampQuality
<1>2. \A list, keep : Ledger!Filter(list, keep) = Filter(list, keep)
  BY DEF Ledger!Filter, Filter
<1>3. \A c, q : Ledger!NextCard(c, q) = NextCard(c, q)
  BY DEF Ledger!NextCard, NextCard, Ledger!Lapsed, Lapsed, Ledger!Recalled, Recalled,
    Ledger!IsLapse, IsLapse, Ledger!clampQuality, clampQuality,
    Ledger!AtLeastFloor, AtLeastFloor, Ledger!Seeded, Seeded,
    Ledger!EaseFloor, EaseFloor, Ledger!DefaultEase, DefaultEase,
    Ledger!SuccessDelta, SuccessDelta, Ledger!SuccessInterval, SuccessInterval,
    Ledger!AtLeastOneDay, AtLeastOneDay, Ledger!RoundedInterval, RoundedInterval
<1> QED
  BY <1>1, <1>2, <1>3

\* The grades of a pair are a sequence of grades, no longer than the table.
LEMMA GradesType ==
    ASSUME NEW rows \in Seq(Row), NEW k
    PROVE  /\ Grades(rows, k) \in Seq(Qualities)
           /\ Len(Grades(rows, k)) <= Len(rows)
           /\ History(rows, k) \in Seq(Row)
           /\ Len(Grades(rows, k)) = Len(History(rows, k))
<1> DEFINE keep == {row \in Row : <<row.user, row.word>> = k}
           mine == History(rows, k)
<1>1. mine \in Seq(Row \cap keep) /\ Len(mine) <= Len(rows)
  BY FilterType DEF History
<1>2. mine \in Seq(Row)
  BY <1>1
<1>3. Grades(rows, k) = [n \in 1..Len(mine) |-> mine[n].quality]
  BY <1>2 DEF Grades
<1> HIDE DEF mine
<1>4. \A n \in 1..Len(mine) : mine[n].quality \in Qualities
  BY <1>2, RowType
<1>5. Len(mine) \in Nat
  BY <1>2
<1>6. Grades(rows, k) \in Seq(Qualities) /\ Len(Grades(rows, k)) = Len(mine)
  BY <1>3, <1>4, <1>5
<1> QED
  BY <1>1, <1>2, <1>6 DEF mine

\* An insert adds its grade to the log of its pair.
LEMMA GradesAppend ==
    ASSUME NEW rows \in Seq(Row), NEW row \in Row, NEW k
    PROVE  Grades(Append(rows, row), k) =
             IF <<row.user, row.word>> = k THEN Append(Grades(rows, k), row.quality)
             ELSE Grades(rows, k)
<1> DEFINE keep == {x \in Row : <<x.user, x.word>> = k}
           mine == History(rows, k)
           longer == History(Append(rows, row), k)
<1>1. longer = IF row \in keep THEN Append(mine, row) ELSE mine
  BY FilterAppend DEF History
<1>2. row \in keep <=> <<row.user, row.word>> = k
  OBVIOUS
<1>3. /\ mine \in Seq(Row) /\ Len(Grades(rows, k)) = Len(mine)
      /\ Grades(rows, k) \in Seq(Qualities)
  BY GradesType
<1>4. CASE <<row.user, row.word>> = k
  <2>1. longer = Append(mine, row)
    BY <1>1, <1>2, <1>4
  <2>2. Grades(Append(rows, row), k) = [n \in DOMAIN longer |-> longer[n].quality]
    BY DEF Grades
  <2>3. Grades(rows, k) = [n \in DOMAIN mine |-> mine[n].quality]
    BY DEF Grades
  <2> HIDE DEF mine, longer
  <2>4. /\ DOMAIN longer = 1..(Len(mine) + 1) /\ DOMAIN mine = 1..Len(mine)
        /\ Len(mine) \in Nat
        /\ \A n \in 1..Len(mine) : longer[n] = mine[n]
        /\ longer[Len(mine) + 1] = row
    BY <1>3, <2>1
  <2>5. row.quality \in Qualities
    BY DEF Row
  <2> DEFINE new == [n \in 1..(Len(mine) + 1) |-> longer[n].quality]
             old == [n \in 1..Len(mine) |-> mine[n].quality]
  <2>6. new = Append(old, row.quality)
    <3>1. old \in Seq(Qualities) /\ Len(old) = Len(mine)
      BY <1>3, <2>3, <2>4
    <3>2. /\ Append(old, row.quality) \in Seq(Qualities)
          /\ Len(Append(old, row.quality)) = Len(mine) + 1
          /\ \A n \in 1..Len(mine) : Append(old, row.quality)[n] = old[n]
          /\ Append(old, row.quality)[Len(mine) + 1] = row.quality
      <4> HIDE DEF old
      <4> QED
        BY <2>5, <3>1
    <3>3. Append(old, row.quality) =
            [n \in 1..(Len(mine) + 1) |-> Append(old, row.quality)[n]]
      <4> HIDE DEF old
      <4> QED
        BY <3>2
    <3>4. \A n \in 1..(Len(mine) + 1) : Append(old, row.quality)[n] = longer[n].quality
      BY <2>4, <3>2
    <3> HIDE DEF old
    <3> QED
      BY <3>3, <3>4
  <2> QED
    BY <1>4, <2>2, <2>3, <2>4, <2>6
<1>5. CASE <<row.user, row.word>> # k
  BY <1>1, <1>2, <1>5 DEF Grades
<1> QED
  BY <1>4, <1>5

\* An answer is one grading event of its pair.
LEMMA InsertIsGrade ==
    ASSUME SerialInv, FullInv', NEW r \in Requests, RowEnters(r)
    PROVE  Ledger!Grade(<<body[r].user, body[r].word>>, Quality(body[r]))
<1> DEFINE k == <<body[r].user, body[r].word>>
           q == Quality(body[r])
<1>1. /\ pc[r] = "insert" /\ attempts' = Append(attempts, NewRow(r))
      /\ attempts \in Seq(Row)
  BY DEF RowEnters, Inserts, SerialInv, FullInv, IInv, TypeOK
<1>2. NewRow(r) \in Row
  BY <1>1, NewRowType DEF SerialInv, FullInv, IInv, BodiesSound
<1>3. /\ NewRow(r).user = body[r].user /\ NewRow(r).word = body[r].word
      /\ NewRow(r).quality = q
      /\ NewRow(r).card = NextCard(CurrentCard(r), q)
  BY <1>1 DEF NewRow, SerialInv, CardIsCurrent
<1>4. k \in Pairs
  BY <1>1, BodyPair DEF SerialInv, Pairs
<1>5. LedgerCards' = [LedgerCards EXCEPT ![k] = NextCard(@, q)]
  <2>1. \A p \in Pairs : LoadedCard(attempts', p[1], p[2]) =
             IF p = k THEN NewRow(r).card ELSE LoadedCard(attempts, p[1], p[2])
    <3> SUFFICES ASSUME NEW u \in Users, NEW w \in Words
                 PROVE  LoadedCard(attempts', u, w) =
                          IF <<u, w>> = k THEN NewRow(r).card ELSE LoadedCard(attempts, u, w)
      BY DEF Pairs
    <3> QED
      BY <1>1, <1>2, <1>3, CurrentAfterInsert DEF SerialInv
  <2>2. LedgerCards[k] = CurrentCard(r)
    BY <1>4 DEF LedgerCards, CurrentCard
  <2>3. LedgerCards' = [p \in Pairs |-> LoadedCard(attempts', p[1], p[2])]
    BY DEF LedgerCards
  <2>4. \A p \in Pairs : LedgerCards[p] = LoadedCard(attempts, p[1], p[2])
    BY DEF LedgerCards
  <2>5. DOMAIN LedgerCards = Pairs
    BY DEF LedgerCards
  <2> HIDE DEF k, q
  <2>6. LedgerCards' = [p \in Pairs |-> IF p = k THEN NextCard(LedgerCards[k], q)
                                        ELSE LedgerCards[p]]
    BY <1>3, <2>1, <2>2, <2>3, <2>4
  <2> QED
    BY <2>5, <2>6
<1>6. LedgerLog' = [LedgerLog EXCEPT ![k] = Append(@, q)]
  <2>1. LedgerLog' = [p \in Pairs |-> Grades(attempts', p)]
    BY DEF LedgerLog
  <2>2. \A p \in Pairs : LedgerLog[p] = Grades(attempts, p)
    BY DEF LedgerLog
  <2>3. DOMAIN LedgerLog = Pairs
    BY DEF LedgerLog
  <2>4. \A p \in Pairs : Grades(attempts', p) =
             IF p = k THEN Append(Grades(attempts, k), q) ELSE Grades(attempts, p)
    <3> SUFFICES ASSUME NEW p \in Pairs
                 PROVE  Grades(attempts', p) =
                          IF p = k THEN Append(Grades(attempts, k), q) ELSE Grades(attempts, p)
      OBVIOUS
    <3>1. Grades(Append(attempts, NewRow(r)), p) =
            IF <<NewRow(r).user, NewRow(r).word>> = p
            THEN Append(Grades(attempts, p), NewRow(r).quality) ELSE Grades(attempts, p)
      BY <1>1, <1>2, GradesAppend
    <3>2. <<NewRow(r).user, NewRow(r).word>> = k
      BY <1>3
    <3> HIDE DEF k, q
    <3> QED
      BY <1>1, <1>3, <3>1, <3>2
  <2> HIDE DEF k, q
  <2>5. LedgerLog' = [p \in Pairs |-> IF p = k THEN Append(LedgerLog[k], q)
                                      ELSE LedgerLog[p]]
    BY <1>4, <2>1, <2>2, <2>4
  <2> QED
    BY <2>3, <2>5
<1>7. Len(LedgerLog[k]) < MaxAttempts
  <2>1. LedgerLog[k] = Grades(attempts, k)
    BY <1>4 DEF LedgerLog
  <2>2. Grades(attempts, k) \in Seq(Qualities) /\ Len(Grades(attempts, k)) <= Len(attempts)
    BY <1>1, GradesType
  <2>3. Cardinality(InFlight) \in Nat /\ Cardinality(InFlight) # 0
    BY <1>1, FS_CardinalityType, FS_EmptySet DEF SerialInv, RoomIsLeft, InFlight
  <2> QED
    BY <1>1, <2>1, <2>2, <2>3, AttemptsAssumption
    DEF SerialInv, RoomIsLeft, AttemptsAssumption
<1> QED
  BY <1>5, <1>6, <1>7, LedgerOperators DEF Ledger!Grade

\* The empty table is a ledger of fresh cards.
LEMMA LedgerInit == Init => Ledger!Init
<1> SUFFICES ASSUME Init PROVE Ledger!Init
  OBVIOUS
<1>1. \A u, w : RowsOf(attempts, u, w) = {}
  BY DEF Init, RowsOf
<1>2. LedgerCards = [k \in Pairs |-> FreshCard]
  BY <1>1 DEF LedgerCards, LoadedCard, LatestForWord
<1>3. \A k : Grades(<<>>, k) = <<>>
  BY FilterEmpty DEF Grades, History
<1>4. LedgerLog = [k \in Pairs |-> <<>>]
  BY <1>3 DEF Init, LedgerLog
<1> QED
  BY <1>2, <1>4, LedgerOperators DEF Ledger!Init

\* Every step is a grading event of the ledger or none.
LEMMA LedgerStep == SerialInv /\ [SerialNext]_vars => [Ledger!Next]_(Ledger!vars)
<1> SUFFICES ASSUME SerialInv, [SerialNext]_vars
             PROVE  Ledger!Next \/ UNCHANGED <<LedgerCards, LedgerLog>>
  BY DEF Ledger!vars
<1>1. CASE UNCHANGED attempts
  BY <1>1 DEF LedgerCards, LedgerLog
<1>2. ASSUME NEW r \in Requests, RowEnters(r)
      PROVE  Ledger!Next
  <2>1. FullInv'
    BY SerialStep DEF SerialInv
  <2>2. <<body[r].user, body[r].word>> \in Pairs /\ Quality(body[r]) \in Qualities
    BY <1>2, BodyPair, QualityType DEF SerialInv, RowEnters, Inserts, Pairs
  <2> QED
    BY <1>2, <2>1, <2>2, InsertIsGrade, LedgerOperators DEF Ledger!Next
<1>3. ASSUME NEW r \in Requests, Handler(r), ~RowEnters(r)
      PROVE  UNCHANGED attempts
  BY <1>3, AnswersToAnInsert
  DEF Handler, Reject, Accept, LoadState, GradeCard, QueryFails, SerialInv, FullInv, IInv
<1>4. CASE NextDay \/ UNCHANGED vars
  BY <1>1, <1>4 DEF NextDay, vars
<1> QED
  BY <1>1, <1>2, <1>3, <1>4 DEF SerialNext, Next

(***************************************************************************)
(* For any number of requests that do not overlap on a pair, the handler   *)
(* of POST /api/attempts implements the review ledger: each answer is one  *)
(* SM-2 step on the pair's card (attempts.go:55-93).                       *)
(***************************************************************************)
THEOREM LedgerRefinement == SerialSpec => ImplementsLedger
<1> QED
  BY LedgerInit, LedgerStep, SerialInvariance, PTL
  DEF SerialSpec, SerialNext, ImplementsLedger, Ledger!Spec

-----------------------------------------------------------------------------
\* One grading event keeps the two counters of a card true to the grades: the
\* streak is the run of successes at the end, the lapses are all the lapses.
LEMMA GradeTellsHistory ==
    ASSUME NEW grades \in Seq(Qualities), NEW c \in Card, NEW q \in Qualities,
           Ledger!IsStreak(grades, c.reps),
           c.lapses = Len(Filter(grades, Ledger!LapseGrades))
    PROVE  /\ Ledger!IsStreak(Append(grades, q), NextCard(c, q).reps)
           /\ NextCard(c, q).lapses
                = Len(Filter(Append(grades, q), Ledger!LapseGrades))
<1> DEFINE n == Len(grades)
           longer == Append(grades, q)
<1>1. /\ n \in Nat /\ Len(longer) = n + 1 /\ longer[n + 1] = q
      /\ \A i \in 1..n : longer[i] = grades[i]
  OBVIOUS
<1>2. c.reps \in 0..n /\ c.lapses \in Nat /\ q \in Int
  BY DEF Ledger!IsStreak, Card, Qualities
<1>3. q \in Ledger!LapseGrades <=> IsLapse(q)
  BY LedgerOperators DEF Ledger!LapseGrades
<1>4. Filter(longer, Ledger!LapseGrades) =
        IF IsLapse(q) THEN Append(Filter(grades, Ledger!LapseGrades), q)
        ELSE Filter(grades, Ledger!LapseGrades)
  BY <1>3, FilterAppend
<1>5. Filter(grades, Ledger!LapseGrades) \in Seq(Qualities)
  <2>1. Filter(grades, Ledger!LapseGrades) \in Seq(Qualities \cap Ledger!LapseGrades)
    BY FilterType
  <2> QED
    BY <2>1
<1> HIDE DEF longer, n
<1>6. CASE IsLapse(q)
  <2>1. NextCard(c, q).reps = 0 /\ NextCard(c, q).lapses = c.lapses + 1
    BY <1>2, <1>6, NextCardStep
  <2>2. Ledger!IsStreak(longer, 0)
    BY <1>1, <1>6, LedgerOperators DEF Ledger!IsStreak
  <2> QED
    BY <1>4, <1>5, <1>6, <2>1, <2>2 DEF longer
<1>7. CASE ~IsLapse(q)
  <2>1. NextCard(c, q).reps = c.reps + 1 /\ NextCard(c, q).lapses = c.lapses
    BY <1>2, <1>7, NextCardStep
  <2>2. Ledger!IsStreak(longer, c.reps + 1)
    <3>1. c.reps + 1 \in 0..Len(longer)
      BY <1>1, <1>2
    <3>2. ASSUME NEW i \in (Len(longer) - (c.reps + 1) + 1)..Len(longer)
          PROVE  ~Ledger!IsLapse(longer[i])
      <4>1. CASE i = n + 1
        BY <1>1, <1>7, <4>1, LedgerOperators
      <4>2. CASE i # n + 1
        <5>1. i \in (n - c.reps + 1)..n /\ i \in 1..n
          BY <1>1, <1>2, <3>2, <4>2
        <5> QED
          BY <1>1, <5>1 DEF Ledger!IsStreak, n
      <4> QED
        BY <4>1, <4>2
    <3>3. ASSUME c.reps + 1 < Len(longer)
          PROVE  Ledger!IsLapse(longer[Len(longer) - (c.reps + 1)])
      <4>1. /\ c.reps < n /\ Len(longer) - (c.reps + 1) = n - c.reps
            /\ n - c.reps \in 1..n
        BY <1>1, <1>2, <3>3
      <4> QED
        BY <1>1, <4>1 DEF Ledger!IsStreak, n
    <3> QED
      BY <3>1, <3>2, <3>3 DEF Ledger!IsStreak
  <2> QED
    BY <1>4, <1>7, <2>1, <2>2 DEF longer
<1> QED
  BY <1>6, <1>7

\* The first success of a streak is reviewed the next day.
LEMMA FirstSuccess ==
    ASSUME NEW c \in Card, NEW q \in Qualities, NextCard(c, q).reps = 1
    PROVE  NextCard(c, q).interval = 1
<1>1. ~IsLapse(q) /\ c.reps = 0
  <2>1. q \in Int /\ c.reps \in Nat
    BY DEF Qualities, Card
  <2>2. /\ IsLapse(q) => NextCard(c, q).reps = 0
        /\ ~IsLapse(q) => NextCard(c, q).reps = c.reps + 1
    BY <2>1, NextCardStep
  <2> QED
    BY <2>1, <2>2
<1> QED
  BY <1>1 DEF NextCard, Recalled, SuccessInterval

\* The ledger is well typed, and a card that has been reviewed is in range.
LEMMA LedgerType ==
    ASSUME FullInv, NEW k \in Pairs
    PROVE  /\ LedgerCards[k] \in Card
           /\ LedgerLog[k] \in Seq(Qualities)
           /\ LedgerCards[k].reps # 0 =>
                LedgerCards[k].ease >= EaseFloor /\ LedgerCards[k].interval >= 1
           /\ LedgerCards[k].reps = 1 => LedgerCards[k].interval = 1
<1>1. PICK u \in Users, w \in Words : k = <<u, w>>
  BY DEF Pairs
<1>2. LedgerCards[k] = LoadedCard(attempts, u, w)
  BY <1>1 DEF LedgerCards
<1>3. LoadedCard(attempts, u, w) \in Bases(attempts, u, w, Len(attempts))
  BY LoadedCardIsBase DEF FullInv, IInv
<1>4. attempts \in Seq(Row)
  BY DEF FullInv, IInv, TypeOK
<1>5. LedgerCards[k] \in Card
  BY <1>2, <1>3, <1>4, BasesType
<1>6. LedgerCards[k].reps # 0 =>
        LedgerCards[k].ease >= EaseFloor /\ LedgerCards[k].interval >= 1
  <2>1. FreshCard.reps = 0
    BY DEF FreshCard
  <2>2. \A j \in RowsOf(attempts, u, w) :
          attempts[j].card.ease >= EaseFloor /\ attempts[j].card.interval >= 1
    BY DEF FullInv, IInv, RowsInRange, RowsOf
  <2> QED
    BY <1>2, <1>3, <2>1, <2>2 DEF Bases, UpTo
<1>7. LedgerLog[k] \in Seq(Qualities)
  BY <1>4, GradesType DEF LedgerLog
<1>8. LedgerCards[k].reps = 1 => LedgerCards[k].interval = 1
  <2>1. FreshCard.reps = 0
    BY DEF FreshCard
  <2>2. ASSUME NEW j \in RowsOf(attempts, u, w), attempts[j].card.reps = 1
        PROVE  attempts[j].card.interval = 1
    <3>1. j \in DOMAIN attempts
      BY DEF RowsOf
    <3>2. PICK base \in Bases(attempts, attempts[j].user, attempts[j].word, j - 1) :
            attempts[j].card = NextCard(base, attempts[j].quality)
      BY <3>1 DEF FullInv, IInv, RowsFollowSM2
    <3>3. base \in Card /\ attempts[j].quality \in Qualities
      BY <1>4, <3>1, <3>2, BasesType, RowType
    <3> QED
      BY <2>2, <3>2, <3>3, FirstSuccess
  <2> QED
    BY <1>2, <1>3, <2>1, <2>2 DEF Bases, UpTo
<1> QED
  BY <1>5, <1>6, <1>7, <1>8

\* The history of a pair grows by the row inserted, if it is its own.
LEMMA HistoryStep ==
    SerialInv /\ CountersTellHistory /\ [SerialNext]_vars => CountersTellHistory'
<1> SUFFICES ASSUME SerialInv, CountersTellHistory, [SerialNext]_vars
             PROVE  CountersTellHistory'
  OBVIOUS
<1>1. [Ledger!Next]_(Ledger!vars)
  BY LedgerStep
<1>2. CASE UNCHANGED <<LedgerCards, LedgerLog>>
  BY <1>2 DEF CountersTellHistory, Ledger!CountersTellHistory
<1>3. ASSUME NEW k \in Pairs, NEW q \in Qualities, Ledger!Grade(k, q)
      PROVE  CountersTellHistory'
  <2>1. /\ LedgerCards' = [LedgerCards EXCEPT ![k] = NextCard(LedgerCards[k], q)]
        /\ LedgerLog' = [LedgerLog EXCEPT ![k] = Append(LedgerLog[k], q)]
    BY <1>3, LedgerOperators DEF Ledger!Grade
  <2>2. DOMAIN LedgerCards = Pairs /\ DOMAIN LedgerLog = Pairs
    BY DEF LedgerCards, LedgerLog
  <2> SUFFICES ASSUME NEW p \in Pairs
               PROVE  /\ Ledger!IsStreak(LedgerLog'[p], LedgerCards'[p].reps)
                      /\ LedgerCards'[p].lapses
                           = Len(Filter(LedgerLog'[p], Ledger!LapseGrades))
    BY LedgerOperators DEF CountersTellHistory, Ledger!CountersTellHistory
  <2>3. /\ Ledger!IsStreak(LedgerLog[p], LedgerCards[p].reps)
        /\ LedgerCards[p].lapses = Len(Filter(LedgerLog[p], Ledger!LapseGrades))
    BY LedgerOperators DEF CountersTellHistory, Ledger!CountersTellHistory
  <2>4. LedgerCards[p] \in Card /\ LedgerLog[p] \in Seq(Qualities)
    BY LedgerType DEF SerialInv
  <2>5. CASE p = k
    <3>1. /\ LedgerCards'[p] = NextCard(LedgerCards[p], q)
          /\ LedgerLog'[p] = Append(LedgerLog[p], q)
      BY <2>1, <2>2, <2>5
    <3> QED
      BY <2>3, <2>4, <3>1, GradeTellsHistory
  <2>6. CASE p # k
    <3>1. LedgerCards'[p] = LedgerCards[p] /\ LedgerLog'[p] = LedgerLog[p]
      BY <2>1, <2>2, <2>6
    <3> QED
      BY <2>3, <3>1
  <2> QED
    BY <2>5, <2>6
<1> QED
  BY <1>1, <1>2, <1>3, LedgerOperators DEF Ledger!Next, Ledger!vars

(***************************************************************************)
(* CountersTellHistory for every table: the newest row of a pair counts    *)
(* its successes since the last lapse and all of its lapses (sm2.go:21-22).*)
(***************************************************************************)
THEOREM CountersCountHistory == SerialSpec => []CountersTellHistory
<1>1. Init => CountersTellHistory
  <2> SUFFICES ASSUME Init PROVE CountersTellHistory
    OBVIOUS
  <2>1. LedgerCards = [k \in Pairs |-> FreshCard] /\ LedgerLog = [k \in Pairs |-> <<>>]
    BY LedgerInit, LedgerOperators DEF Ledger!Init
  <2>2. Filter(<<>>, Ledger!LapseGrades) = <<>> /\ Len(<<>>) = 0
    BY FilterEmpty
  <2>3. Ledger!IsStreak(<<>>, 0)
    BY DEF Ledger!IsStreak
  <2>4. FreshCard.reps = 0 /\ FreshCard.lapses = 0
    BY DEF FreshCard
  <2> QED
    BY <2>1, <2>2, <2>3, <2>4, LedgerOperators
    DEF CountersTellHistory, Ledger!CountersTellHistory
<1> QED
  BY <1>1, HistoryStep, SerialInvariance, PTL DEF SerialSpec, SerialNext

\* A right answer never brings the next review closer.
LEMMA SuccessGrows ==
    ASSUME NEW c \in Card, NEW q \in Qualities, ~IsLapse(q),
           c.reps # 0 => c.ease >= EaseFloor /\ c.interval >= 1,
           c.reps = 1 => c.interval = 1
    PROVE  NextCard(c, q).interval >= c.interval \/ c.reps = 0
<1>1. /\ c.reps \in Nat /\ c.interval \in Nat /\ c.ease \in Nat
  BY DEF Card
<1>2. NextCard(c, q).interval = SuccessInterval(c)
  BY DEF NextCard, Recalled
<1>3. CASE c.reps = 1
  BY <1>2, <1>3 DEF SuccessInterval
<1>4. CASE c.reps \notin {0, 1}
  <2>1. /\ Seeded(c.ease) = c.ease /\ c.ease >= 100
        /\ SuccessInterval(c) = AtLeastOneDay(RoundedInterval(c.interval, Seeded(c.ease)))
    BY <1>1, <1>4 DEF Seeded, EaseFloor, SuccessInterval
  <2>2. /\ RoundedInterval(c.interval, c.ease) \in Nat
        /\ RoundedInterval(c.interval, c.ease) >= c.interval
    BY <1>1, <2>1, RoundedType, RoundedGrows
  <2> QED
    BY <1>1, <1>2, <2>1, <2>2 DEF AtLeastOneDay
<1> QED
  BY <1>3, <1>4

\* Every step keeps the promise about intervals.
LEMMA GrowthStep ==
    SerialInv /\ [SerialNext]_vars => [Ledger!IntervalGrowsInStreak]_(Ledger!vars)
<1> SUFFICES ASSUME SerialInv, [SerialNext]_vars,
                    NEW k \in Pairs, LedgerLog'[k] # LedgerLog[k]
             PROVE  IF LedgerCards'[k].reps > 0
                    THEN LedgerCards'[k].interval >= LedgerCards[k].interval
                         \/ LedgerCards[k].reps = 0
                    ELSE LedgerCards'[k].interval = 1
  BY DEF Ledger!IntervalGrowsInStreak
<1>1. PICK p \in Pairs, q \in Qualities : Ledger!Grade(p, q)
  BY LedgerStep, LedgerOperators DEF Ledger!Next, Ledger!vars
<1>2. /\ LedgerCards' = [LedgerCards EXCEPT ![p] = NextCard(LedgerCards[p], q)]
      /\ LedgerLog' = [LedgerLog EXCEPT ![p] = Append(LedgerLog[p], q)]
  BY <1>1, LedgerOperators DEF Ledger!Grade
<1>3. DOMAIN LedgerCards = Pairs /\ DOMAIN LedgerLog = Pairs
  BY DEF LedgerCards, LedgerLog
<1>4. p = k /\ LedgerCards'[k] = NextCard(LedgerCards[k], q)
  BY <1>2, <1>3
<1>5. /\ LedgerCards[k] \in Card
      /\ LedgerCards[k].reps # 0 =>
           LedgerCards[k].ease >= EaseFloor /\ LedgerCards[k].interval >= 1
      /\ LedgerCards[k].reps = 1 => LedgerCards[k].interval = 1
  BY LedgerType DEF SerialInv
<1>6. LedgerCards[k].reps \in Nat /\ q \in Int
  BY <1>5 DEF Card, Qualities
<1>7. CASE IsLapse(q)
  <2>1. NextCard(LedgerCards[k], q).reps = 0 /\ NextCard(LedgerCards[k], q).interval = 1
    BY <1>5, <1>6, <1>7, NextCardStep
  <2> QED
    BY <1>4, <2>1
<1>8. CASE ~IsLapse(q)
  <2>1. NextCard(LedgerCards[k], q).reps = LedgerCards[k].reps + 1
    BY <1>5, <1>6, <1>8, NextCardStep
  <2>2. \/ NextCard(LedgerCards[k], q).interval >= LedgerCards[k].interval
        \/ LedgerCards[k].reps = 0
    BY <1>5, <1>8, SuccessGrows
  <2> QED
    BY <1>4, <1>6, <2>1, <2>2
<1> QED
  BY <1>7, <1>8

(***************************************************************************)
(* IntervalGrowth for every table: rounding included, a right answer never *)
(* brings the next review closer and a wrong one brings it back to         *)
(* tomorrow (sm2.go:60-96).                                                *)
(***************************************************************************)
THEOREM IntervalsGrow == SerialSpec => IntervalGrowth
<1> QED
  BY GrowthStep, SerialInvariance, PTL
  DEF SerialSpec, SerialNext, IntervalGrowth, Ledger!IntervalGrowth
=============================================================================
