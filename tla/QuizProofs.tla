----------------------------- MODULE QuizProofs -----------------------------
(***************************************************************************)
(* The quiz page, for every number of clicks, streams and questions.       *)
(*                                                                         *)
(* What a page can still receive is what its stream has left (ScriptLeft), *)
(* and the queue holds what has arrived before it; what the page shows is  *)
(* the verdict of the only answer being hashed (VerdictsSound).            *)
(***************************************************************************)
EXTENDS Quiz, SequenceTheorems, TLAPS

Kind(n, p) == IF p = 0 THEN "plan" ELSE IF p = n + 1 THEN "done" ELSE "question"

\* The event of a session of n questions at place p.
At(n, p) == [kind |-> Kind(n, p), place |-> p]

\* What a session of n questions still has to send from place k on.
Rest(n, k) == [i \in 1..(n + 2 - k) |-> At(n, k + i - 1)]

\* The questions of the latest session before place k have arrived.
Arrived(n, k) ==
    /\ streams[Latest] \subseteq 1..n
    /\ \A i \in DOMAIN queue : queue[i].stream = Latest => queue[i].place < k
    /\ \A p \in streams[Latest] : p < k => Queued(Latest, p)
    /\ Len(queue) <= (Latest - 1) * MaxQuestions + (IF k = 0 THEN 0 ELSE k - 1)

\* What the server has left to send, together with what has arrived, is a
\* session.
ScriptLeft ==
    /\ script # <<>> => Latest >= 1
    /\ script \notin {<<>>, <<Error>>} =>
         \E n \in 0..MaxQuestions, k \in 0..(MaxQuestions + 1) :
            k <= n + 1 /\ script = Rest(n, k) /\ Arrived(n, k)

QueueFits ==
    /\ \A i \in DOMAIN queue : queue[i].stream \in 1..Latest
    /\ Len(queue) <= Latest * MaxQuestions

\* Once a done has arrived no other session is started.
DoneCloses == streamDone => es = "closed"

VerdictsSound ==
    ~hasty =>
        /\ judged # 0 => judged = Current
        /\ \A c \in Clicks : click[c].at = "hashing" =>
             judged = 0 /\ click[c].question = Current
        /\ \A c, d \in Clicks :
             click[c].at = "hashing" /\ click[d].at = "hashing" => c = d

IInv ==
    /\ TypeOK
    /\ ScriptLeft
    /\ QueueFits
    /\ QueueFollowsStreams
    /\ DoneCloses
    /\ VerdictsSound

Phases == {"loading", "quizzing", "finished", "error", "left"}

Place == [stream : 1..MaxStreams, place : 1..MaxQuestions]

\* Facts about the constants.
LEMMA Bounds == MaxStreams \in Nat /\ MaxQuestions \in Nat
BY QuizAssumption DEF QuizAssumption

-----------------------------------------------------------------------------
\* A function on 1..m is a sequence of that length.
LEMMA SeqOfLen ==
    ASSUME NEW S, NEW m \in Nat, NEW f \in [1..m -> S]
    PROVE  f \in Seq(S) /\ Len(f) = m /\ DOMAIN f = 1..m
OBVIOUS

\* What is left is a sequence of events.
LEMMA RestSeq ==
    ASSUME NEW n \in 0..MaxQuestions, NEW k \in 0..(MaxQuestions + 1), k <= n + 1
    PROVE  /\ Rest(n, k) \in Seq(Event) /\ Len(Rest(n, k)) = n + 2 - k
           /\ \A i \in 1..(n + 2 - k) : Rest(n, k)[i] = At(n, k + i - 1)
<1>1. n \in Nat /\ k \in Nat /\ n + 2 - k \in Nat
  BY Bounds
<1>2. ASSUME NEW i \in 1..(n + 2 - k)
      PROVE  At(n, k + i - 1) \in Event
  <2>1. k + i - 1 \in 0..(MaxQuestions + 1)
    BY <1>1, Bounds
  <2>2. Kind(n, k + i - 1) \in {"plan", "question", "done", "error"}
    BY DEF Kind
  <2> QED
    BY <2>1, <2>2 DEF At, Event
<1>3. Rest(n, k) \in [1..(n + 2 - k) -> Event]
  BY <1>2 DEF Rest
<1>4. Rest(n, k) \in Seq(Event) /\ Len(Rest(n, k)) = n + 2 - k
  BY <1>1, <1>3, SeqOfLen
<1>5. \A i \in 1..(n + 2 - k) : Rest(n, k)[i] = At(n, k + i - 1)
  BY DEF Rest
<1> QED
  BY <1>4, <1>5

\* The first of the events that are left arrives next.
LEMMA RestScript ==
    ASSUME NEW n \in 0..MaxQuestions, NEW k \in 0..(MaxQuestions + 1), k <= n + 1
    PROVE  /\ Rest(n, k) \in Seq(Event) /\ Rest(n, k) # <<>>
           /\ Head(Rest(n, k)) = At(n, k)
           /\ Tail(Rest(n, k)) = IF k = n + 1 THEN <<>> ELSE Rest(n, k + 1)
<1> DEFINE r == Rest(n, k)
           t == Tail(r)
<1>1. n \in Nat /\ k \in Nat /\ n + 2 - k >= 1 /\ k + 1 - 1 = k /\ MaxQuestions \in Nat
  BY Bounds
<1>2. /\ r \in Seq(Event) /\ Len(r) = n + 2 - k
      /\ \A i \in 1..(n + 2 - k) : r[i] = At(n, k + i - 1)
  BY RestSeq
<1> HIDE DEF r
<1>3. r # <<>> /\ Head(r) = r[1] /\ r[1] = At(n, k)
  BY <1>1, <1>2
<1>4. /\ t \in Seq(Event) /\ Len(t) = n + 1 - k
      /\ \A i \in 1..(n + 1 - k) : t[i] = r[i + 1]
  BY <1>1, <1>2, <1>3, HeadTailProperties
<1>5. t = IF k = n + 1 THEN <<>> ELSE Rest(n, k + 1)
  <2> HIDE DEF t
  <2>1. CASE k = n + 1
    BY <1>1, <1>4, <2>1
  <2>2. CASE k # n + 1
    <3>1. k + 1 \in 0..(MaxQuestions + 1) /\ k + 1 <= n + 1 /\ n + 2 - (k + 1) = n + 1 - k
      BY <1>1, <2>2
    <3>2. /\ Rest(n, k + 1) \in Seq(Event) /\ Len(Rest(n, k + 1)) = n + 1 - k
          /\ \A i \in 1..(n + 1 - k) : Rest(n, k + 1)[i] = At(n, (k + 1) + i - 1)
      BY <3>1, RestSeq
    <3>3. ASSUME NEW i \in 1..(n + 1 - k)
          PROVE  t[i] = Rest(n, k + 1)[i]
      <4>1. i + 1 \in 1..(n + 2 - k) /\ k + (i + 1) - 1 = (k + 1) + i - 1
        BY <1>1
      <4> QED
        BY <1>2, <1>4, <3>2, <4>1
    <3>4. t = Rest(n, k + 1)
      BY <1>4, <3>2, <3>3, SeqEqual
    <3> QED
      BY <2>2, <3>4
  <2> QED
    BY <2>1, <2>2
<1> QED
  BY <1>2, <1>3, <1>5 DEF r, t

\* A session has all of its events to send.
LEMMA SessionScript ==
    ASSUME NEW n \in 0..MaxQuestions
    PROVE  Session(n) = Rest(n, 0)
<1>1. n + 2 - 0 = n + 2 /\ \A i \in 1..(n + 2) : 0 + i - 1 = i - 1
  BY Bounds
<1>2. \A i \in 1..(n + 2) : (i - 1 = 0 <=> i = 1) /\ (i - 1 = n + 1 <=> i = n + 2)
  BY Bounds
<1> QED
  BY <1>1, <1>2 DEF Session, Rest, At, Kind

\* The queue never outgrows the questions of its streams.
LEMMA QueueBound ==
    ASSUME IInv
    PROVE  Len(queue) <= MaxStreams * MaxQuestions
<1>1. /\ Latest \in Nat /\ Latest <= MaxStreams /\ Len(queue) \in Nat
      /\ MaxStreams \in Nat /\ MaxQuestions \in Nat
      /\ Len(queue) <= Latest * MaxQuestions
  BY Bounds DEF IInv, TypeOK, QueueFits, Latest
<1>2. \A a, b \in Nat : a <= b => a * MaxQuestions <= b * MaxQuestions
  BY <1>1
<1>3. Latest * MaxQuestions <= MaxStreams * MaxQuestions
  BY <1>1, <1>2
<1>4. Latest * MaxQuestions \in Int /\ MaxStreams * MaxQuestions \in Int
  BY <1>1
<1> QED
  BY <1>1, <1>3, <1>4

-----------------------------------------------------------------------------
\* The invariant holds at the start.
LEMMA QuizInit == Init => IInv
<1> SUFFICES ASSUME Init PROVE IInv
  OBVIOUS
<1>1. TypeOK
  <2>1. /\ \A S : <<>> \in Seq(S)
        /\ 0 \in 0..Len(<<>>) /\ Len(<<>>) <= MaxStreams
    BY Bounds
  <2>2. NoRun \in Run
    BY DEF NoRun, Run
  <2> QED
    BY <2>1, <2>2 DEF Init, TypeOK
<1>2. ScriptLeft
  BY DEF Init, ScriptLeft
<1>3. QueueFits /\ QueueFollowsStreams /\ DoneCloses
  BY Bounds DEF Init, QueueFits, QueueFollowsStreams, DoneCloses, Latest
<1>4. VerdictsSound
  BY DEF Init, VerdictsSound, NoRun
<1> QED
  BY <1>1, <1>2, <1>3, <1>4 DEF IInv

\* What the learner sees does not change when the queue only grows.
LEMMA VerdictsKept ==
    ASSUME VerdictsSound, UNCHANGED <<idx, judged, click, hasty>>
    PROVE  VerdictsSound'
BY DEF VerdictsSound, Current

\* What has arrived stays as it is while queue and streams do.
LEMMA QueueKept ==
    ASSUME QueueFits, QueueFollowsStreams, UNCHANGED <<queue, streams>>,
           streamDone' = streamDone
    PROVE  QueueFits' /\ QueueFollowsStreams'
BY DEF QueueFits, QueueFollowsStreams, Queued, Latest

LEMMA ArrivedKept ==
    ASSUME UNCHANGED <<queue, streams>>
    PROVE  \A n, k : Arrived(n, k)' <=> Arrived(n, k)
BY DEF Arrived, Queued, Latest

\* The questions of the queue have a session and a place.
LEMMA QueueTyped ==
    ASSUME TypeOK
    PROVE  /\ queue \in Seq(Place) /\ Len(queue) \in Nat /\ DOMAIN queue = 1..Len(queue)
           /\ \A i \in DOMAIN queue :
                queue[i] \in Place /\ queue[i].place \in Nat /\ queue[i].stream \in Nat
<1>1. queue \in Seq(Place)
  BY DEF TypeOK, Place
<1>2. Len(queue) \in Nat /\ DOMAIN queue = 1..Len(queue)
  BY <1>1
<1>3. \A i \in DOMAIN queue : queue[i] \in Place
  BY <1>1, <1>2
<1>4. \A q \in Place : q.place \in Nat /\ q.stream \in Nat
  BY Bounds DEF Place
<1> QED
  BY <1>1, <1>2, <1>3, <1>4

\* FinishTest keeps the type of the phase.
LEMMA FinishPhase ==
    ASSUME TypeOK, NEW finished, NEW list, NEW i, FinishTest(finished, list, i, phase)
    PROVE  phase' \in Phases
BY DEF FinishTest, TypeOK, Phases

\* The server starts a session.
LEMMA ConnectKeeps ==
    ASSUME IInv, Connect
    PROVE  IInv'
<1>1. /\ es = "connecting" /\ es' = "open" /\ Latest < MaxStreams
      /\ UNCHANGED <<phase, queue, idx, streamDone, judged, click, hasty>>
  BY DEF Connect, answerVars
<1>2. PICK readable \in SUBSET (1..MaxQuestions) :
        /\ streams' = Append(streams, readable)
        /\ \/ script' = <<Error>>
           \/ \E n \in 0..MaxQuestions : readable \in SUBSET (1..n) /\ script' = Session(n)
  <2>1. \A n \in 0..MaxQuestions : 1..n \subseteq 1..MaxQuestions
    BY Bounds
  <2> QED
    BY <2>1 DEF Connect
<1>3. /\ Latest \in Nat /\ MaxStreams \in Nat /\ MaxQuestions \in Nat
      /\ streams \in Seq(SUBSET (1..MaxQuestions))
      /\ queue \in Seq(Place) /\ Len(queue) \in Nat
  BY Bounds DEF IInv, TypeOK, Place, Latest
<1>4. /\ streams' \in Seq(SUBSET (1..MaxQuestions)) /\ Latest' = Latest + 1
      /\ streams'[Latest + 1] = readable
      /\ \A s \in 1..Latest : streams'[s] = streams[s]
  BY <1>2, <1>3 DEF Latest
<1>5. script' \in Seq(Event)
  <2>1. CASE script' = <<Error>>
    BY <2>1, <1>3 DEF Error, Event
  <2>2. ASSUME NEW n \in 0..MaxQuestions, script' = Session(n)
        PROVE  script' \in Seq(Event)
    <3>1. 0 \in 0..(MaxQuestions + 1) /\ 0 <= n + 1
      BY <1>3
    <3>2. Rest(n, 0) \in Seq(Event)
      BY <3>1, RestSeq
    <3> QED
      BY <2>2, <3>2, SessionScript
  <2> QED
    BY <1>2, <2>1, <2>2
<1>6. TypeOK'
  <2>1. Len(streams') <= MaxStreams
    BY <1>1, <1>3, <1>4 DEF Latest
  <2> QED
    BY <1>1, <1>4, <1>5, <2>1 DEF IInv, TypeOK
<1>7. /\ \A i \in DOMAIN queue : queue[i].stream \in 1..Latest
      /\ Len(queue) <= Latest * MaxQuestions
  BY DEF IInv, QueueFits
<1>8. QueueFits'
  <2>1. Latest * MaxQuestions <= (Latest + 1) * MaxQuestions
    BY <1>3
  <2>2. Latest * MaxQuestions \in Int /\ (Latest + 1) * MaxQuestions \in Int
    BY <1>3
  <2>3. Len(queue) <= (Latest + 1) * MaxQuestions
    BY <1>3, <1>7, <2>1, <2>2
  <2>4. \A i \in DOMAIN queue : queue[i].stream \in 1..(Latest + 1)
    BY <1>3, <1>7
  <2> QED
    BY <1>1, <1>4, <2>3, <2>4 DEF QueueFits
<1>9. ScriptLeft'
  <2>1. ASSUME NEW n \in 0..MaxQuestions, readable \in SUBSET (1..n)
        PROVE  Arrived(n, 0)'
    <3>1. streams'[Latest'] \subseteq 1..n
      BY <1>4, <2>1
    <3>2. \A i \in DOMAIN queue' : queue'[i].stream # Latest'
      BY <1>1, <1>3, <1>4, <1>7
    <3>3. \A q \in streams'[Latest'] : ~(q < 0)
      <4>1. streams'[Latest'] = readable
        BY <1>4
      <4>2. \A q \in 1..MaxQuestions : ~(q < 0)
        BY <1>3
      <4> QED
        BY <4>1, <4>2
    <3>4. Len(queue') <= (Latest' - 1) * MaxQuestions + 0
      <4>1. Latest' - 1 = Latest /\ Latest * MaxQuestions \in Int
        BY <1>3, <1>4
      <4> QED
        BY <1>1, <1>3, <1>7, <4>1
    <3> QED
      BY <3>1, <3>2, <3>3, <3>4 DEF Arrived
  <2>2. \A n \in 0..MaxQuestions : Session(n) = Rest(n, 0) /\ 0 <= n + 1
    BY <1>3, SessionScript
  <2>3. 0 \in 0..(MaxQuestions + 1) /\ Latest' >= 1
    BY <1>3, <1>4
  <2> QED
    BY <1>2, <2>1, <2>2, <2>3 DEF ScriptLeft
<1>10. DoneCloses' /\ streamDone = FALSE /\ streamDone' = FALSE
  BY <1>1 DEF IInv, DoneCloses, TypeOK
<1>11. QueueFollowsStreams'
  <2>1. \A i \in DOMAIN queue : streams'[queue[i].stream] = streams[queue[i].stream]
    BY <1>4, <1>7
  <2> QED
    BY <1>1, <1>10, <2>1 DEF IInv, QueueFollowsStreams, Queued
<1>12. VerdictsSound'
  BY <1>1, VerdictsKept DEF IInv
<1> QED
  BY <1>6, <1>8, <1>9, <1>10, <1>11, <1>12 DEF IInv

\* Whatever ends a stream leaves nothing to come.
LEMMA StreamEndsKeeps ==
    ASSUME IInv, ConnectFails \/ ConnectionLost \/ Leave
    PROVE  IInv'
<1>1. /\ UNCHANGED <<streams, queue, idx, streamDone, judged, click, hasty>>
      /\ script' \in {<<>>, script}
      /\ es' \in {"connecting", "closed"} /\ phase' \in Phases
      /\ es = "closed" => es' = "closed"
  BY DEF ConnectFails, ConnectionLost, Leave, answerVars, Phases
<1>2. TypeOK'
  <2>1. <<>> \in Seq(Event)
    OBVIOUS
  <2> QED
    BY <1>1, <2>1 DEF IInv, TypeOK, Phases
<1>3. QueueFits' /\ QueueFollowsStreams'
  BY <1>1, QueueKept DEF IInv
<1>4. ScriptLeft'
  BY <1>1, ArrivedKept DEF IInv, ScriptLeft, Latest
<1>5. VerdictsSound' /\ DoneCloses'
  BY <1>1, VerdictsKept DEF IInv, DoneCloses
<1> QED
  BY <1>2, <1>3, <1>4, <1>5 DEF IInv

\* The event that arrives is the first of what is left, and its place tells how
\* far the session has come.
LEMMA AfterEvent ==
    ASSUME IInv, NEW kind \in {"plan", "question", "done", "error"}, Arrives(kind)
    PROVE  /\ script # <<>> /\ Latest >= 1 /\ es = "open" /\ ~streamDone
           /\ script' \in Seq(Event)
           /\ UNCHANGED <<streams, idx, judged, click, hasty>>
           /\ \/ kind = "error" /\ script' = <<>>
              \/ \E n \in 0..MaxQuestions, k \in 0..(MaxQuestions + 1) :
                   /\ k <= n + 1 /\ Arrived(n, k)
                   /\ kind = Kind(n, k) /\ Head(script).place = k
                   /\ script' = IF k = n + 1 THEN <<>> ELSE Rest(n, k + 1)
<1>1. /\ script # <<>> /\ Head(script).kind = kind /\ script' = Tail(script) /\ es = "open"
      /\ UNCHANGED <<streams, idx, judged, click, hasty>>
      /\ script \in Seq(Event) /\ Latest >= 1
  BY DEF Arrives, answerVars, IInv, TypeOK, ScriptLeft
<1>2. script' \in Seq(Event) /\ ~streamDone
  BY <1>1 DEF IInv, DoneCloses
<1>3. CASE script = <<Error>>
  <2>1. Head(script) = Error /\ script' = <<>>
    BY <1>1, <1>3
  <2> QED
    BY <1>1, <1>2, <2>1 DEF Error
<1>4. CASE script # <<Error>>
  <2>1. PICK n \in 0..MaxQuestions, k \in 0..(MaxQuestions + 1) :
          k <= n + 1 /\ script = Rest(n, k) /\ Arrived(n, k)
    BY <1>1, <1>4 DEF IInv, ScriptLeft
  <2>2. /\ Head(script) = At(n, k)
        /\ script' = IF k = n + 1 THEN <<>> ELSE Rest(n, k + 1)
    BY <1>1, <2>1, RestScript
  <2>3. kind = Kind(n, k) /\ Head(script).place = k
    BY <1>1, <2>2 DEF At
  <2> QED
    BY <1>1, <1>2, <2>1, <2>2, <2>3
<1> QED
  BY <1>3, <1>4

\* The plan and the error leave the queue alone.
LEMMA OtherEventKeeps ==
    ASSUME IInv, PlanArrives \/ ErrorArrives
    PROVE  IInv'
<1>1. PICK kind \in {"plan", "error"} : Arrives(kind)
  BY DEF PlanArrives, ErrorArrives
<1>2. /\ UNCHANGED <<es, streamDone, queue, streams, idx, judged, click, hasty>>
      /\ script' \in Seq(Event) /\ Latest >= 1 /\ phase' \in Phases
  BY <1>1, AfterEvent DEF PlanArrives, ErrorArrives, Phases
<1>3. ScriptLeft'
  <2>1. CASE script' = <<>>
    BY <2>1 DEF ScriptLeft
  <2>2. ASSUME NEW n \in 0..MaxQuestions, NEW k \in 0..(MaxQuestions + 1),
               k <= n + 1, Arrived(n, k), kind = Kind(n, k),
               script' = IF k = n + 1 THEN <<>> ELSE Rest(n, k + 1)
        PROVE  ScriptLeft'
    <3>1. k = 0 /\ n \in Nat /\ 0 + 1 = 1 /\ MaxQuestions \in Nat
      BY <2>2, Bounds DEF Kind
    <3>2. script' = Rest(n, 1) /\ 1 \in 0..(MaxQuestions + 1) /\ 1 <= n + 1
      BY <2>2, <3>1
    <3>3. Arrived(n, 1)'
      <4>1. Arrived(n, 1)
        <5>1. \A i \in DOMAIN queue : queue[i] \in Place
          BY QueueTyped DEF IInv
        <5>2. streams[Latest] \subseteq 1..n
          BY <2>2 DEF Arrived
        <5>3. \A i \in DOMAIN queue : queue[i].stream = Latest => queue[i].place < 1
          <6>1. \A i \in DOMAIN queue : queue[i].place \in Nat
            BY <3>1, <5>1 DEF Place
          <6> QED
            BY <2>2, <3>1, <6>1 DEF Arrived
        <5>4. \A q \in streams[Latest] : ~(q < 1)
          BY <3>1, <5>2
        <5>5. Len(queue) <= (Latest - 1) * MaxQuestions + (IF 1 = 0 THEN 0 ELSE 1 - 1)
          BY <2>2, <3>1 DEF Arrived
        <5> QED
          BY <5>2, <5>3, <5>4, <5>5 DEF Arrived
      <4> QED
        BY <1>2, <4>1, ArrivedKept
    <3> QED
      BY <1>2, <3>2, <3>3 DEF ScriptLeft, Latest
  <2> QED
    BY <1>1, <2>1, <2>2, AfterEvent
<1>4. TypeOK'
  BY <1>2 DEF IInv, TypeOK, Phases
<1>5. QueueFits' /\ QueueFollowsStreams' /\ DoneCloses'
  BY <1>2, QueueKept DEF IInv, DoneCloses
<1>6. VerdictsSound'
  BY <1>2, VerdictsKept DEF IInv
<1> QED
  BY <1>3, <1>4, <1>5, <1>6 DEF IInv

\* When the done arrives, all readable questions of its session are in.
LEMMA DoneArrivesKeeps ==
    ASSUME IInv, DoneArrives
    PROVE  IInv'
<1>1. /\ Arrives("done") /\ streamDone' = TRUE /\ es' = "closed" /\ queue' = queue
      /\ FinishTest(TRUE, queue, idx, phase)
  BY DEF DoneArrives
<1>2. /\ UNCHANGED <<streams, idx, judged, click, hasty>> /\ script' \in Seq(Event)
      /\ Latest >= 1 /\ phase' \in Phases
  BY <1>1, AfterEvent, FinishPhase DEF IInv
<1>3. PICK n \in 0..MaxQuestions, k \in 0..(MaxQuestions + 1) :
        /\ k <= n + 1 /\ Arrived(n, k) /\ "done" = Kind(n, k)
        /\ script' = IF k = n + 1 THEN <<>> ELSE Rest(n, k + 1)
  BY <1>1, AfterEvent
<1>4. k = n + 1 /\ script' = <<>>
  BY <1>3 DEF Kind
<1>5. \A q \in streams[Latest] : Queued(Latest, q)
  <2>1. \A q \in 1..n : q < n + 1
    BY Bounds
  <2> QED
    BY <1>3, <1>4, <2>1 DEF Arrived
<1>6. TypeOK'
  BY <1>1, <1>2 DEF IInv, TypeOK, Phases
<1>7. QueueFits' /\ ScriptLeft' /\ DoneCloses'
  BY <1>1, <1>2, <1>4 DEF IInv, QueueFits, ScriptLeft, DoneCloses, Latest
<1>8. QueueFollowsStreams'
  BY <1>1, <1>2, <1>5 DEF IInv, QueueFollowsStreams, Queued, Latest
<1>9. VerdictsSound'
  BY <1>1, <1>2, VerdictsKept DEF IInv
<1> QED
  BY <1>6, <1>7, <1>8, <1>9 DEF IInv

\* What has arrived once the question at place k has, whether it was put into
\* the queue or dropped.
LEMMA ArrivedNext ==
    ASSUME IInv, NEW n \in 0..MaxQuestions, NEW k \in 1..n, Arrived(n, k), Latest >= 1,
           UNCHANGED streams,
           \/ k \notin streams[Latest] /\ UNCHANGED queue
           \/ k \in streams[Latest] /\ queue' = Append(queue, [stream |-> Latest, place |-> k])
    PROVE  /\ Arrived(n, k + 1)' /\ QueueFits' /\ queue' \in Seq(Place)
           /\ Len(queue') \in Nat /\ Len(queue) \in Nat /\ Len(queue') >= Len(queue)
           /\ (\A i, j \in DOMAIN queue : i < j => Before(queue[i], queue[j]))'
           /\ (\A i \in DOMAIN queue :
                 \A p \in streams[queue[i].stream] : p < queue[i].place => Queued(queue[i].stream, p))'
<1> DEFINE entry == [stream |-> Latest, place |-> k]
           len == Len(queue)
<1>1. /\ Latest \in 1..MaxStreams /\ MaxStreams \in Nat /\ MaxQuestions \in Nat
      /\ queue \in Seq(Place) /\ len \in Nat /\ n \in Nat /\ k \in Nat
      /\ Latest' = Latest
  BY Bounds DEF IInv, TypeOK, Place, Latest
<1>2. /\ streams[Latest] \subseteq 1..n
      /\ \A i \in DOMAIN queue : queue[i].stream = Latest => queue[i].place < k
      /\ \A p \in streams[Latest] : p < k => Queued(Latest, p)
      /\ len <= (Latest - 1) * MaxQuestions + (k - 1)
  BY <1>1 DEF Arrived
<1>3. /\ \A i \in DOMAIN queue : queue[i].stream \in 1..Latest
      /\ len <= Latest * MaxQuestions
      /\ \A i, j \in DOMAIN queue : i < j => Before(queue[i], queue[j])
      /\ \A i \in DOMAIN queue :
           \A p \in streams[queue[i].stream] : p < queue[i].place => Queued(queue[i].stream, p)
  BY DEF IInv, QueueFits, QueueFollowsStreams
<1>4. (Latest - 1) * MaxQuestions + MaxQuestions = Latest * MaxQuestions
      /\ (Latest - 1) * MaxQuestions \in Int /\ Latest * MaxQuestions \in Int
  BY <1>1
<1>5. k + 1 # 0 /\ (k + 1) - 1 = k /\ k <= MaxQuestions
  BY <1>1
<1>6. \A p \in streams[Latest] : p < k + 1 <=> p < k \/ p = k
  BY <1>1, <1>2
<1>7. CASE k \notin streams[Latest] /\ UNCHANGED queue
  <2>1. \A s, p : Queued(s, p)' <=> Queued(s, p)
    BY <1>7 DEF Queued
  <2>2. \A i \in DOMAIN queue : queue[i].stream = Latest => queue[i].place < k + 1
    <3>1. \A i \in DOMAIN queue : queue[i].place \in Nat
      BY QueueTyped DEF IInv
    <3> QED
      BY <1>1, <1>2, <3>1
  <2>3. \A p \in streams[Latest] : p < k + 1 => Queued(Latest, p)
    BY <1>2, <1>6, <1>7
  <2>4. len <= (Latest - 1) * MaxQuestions + k
    BY <1>1, <1>2, <1>4
  <2>5. Arrived(n, k + 1)'
    BY <1>1, <1>2, <1>5, <1>7, <2>1, <2>2, <2>3, <2>4 DEF Arrived
  <2>6. QueueFits'
    BY <1>1, <1>3, <1>7 DEF QueueFits
  <2> QED
    BY <1>1, <1>3, <1>7, <2>1, <2>5, <2>6
<1>8. CASE k \in streams[Latest] /\ queue' = Append(queue, entry)
  <2>1. entry \in Place /\ entry.stream = Latest /\ entry.place = k
    BY <1>1, <1>5 DEF Place
  <2> HIDE DEF entry
  <2>2. /\ queue' \in Seq(Place) /\ Len(queue') = len + 1
        /\ DOMAIN queue = 1..len /\ DOMAIN queue' = 1..(len + 1)
        /\ \A i \in 1..len : queue'[i] = queue[i]
        /\ queue'[len + 1] = entry
    BY <1>1, <1>8, <2>1
  <2>3. \A i \in 1..len : queue[i].place \in Nat /\ queue[i].stream \in 1..Latest
    BY <1>3, <2>2, QueueTyped DEF IInv
  <2>4. \A s, p : Queued(s, p) => Queued(s, p)'
    <3> SUFFICES ASSUME NEW s, NEW p, NEW i \in DOMAIN queue,
                        queue[i] = [stream |-> s, place |-> p]
                 PROVE  Queued(s, p)'
      BY DEF Queued
    <3>1. i \in DOMAIN queue' /\ queue'[i] = queue[i]
      BY <1>1, <2>2
    <3> QED
      BY <3>1 DEF Queued
  <2>0. PICK latest : latest = Latest
    OBVIOUS
  <2>5. Queued(latest, k)'
    <3>1. len + 1 \in DOMAIN queue'
      BY <1>1, <2>2
    <3>2. queue'[len + 1] = [stream |-> latest, place |-> k]
      BY <2>0, <2>2 DEF entry
    <3> QED
      BY <3>1, <3>2 DEF Queued
  <2>6. Arrived(n, k + 1)'
    <3>1. \A i \in DOMAIN queue' : queue'[i].stream = Latest => queue'[i].place < k + 1
      <4> SUFFICES ASSUME NEW i \in 1..(len + 1), queue'[i].stream = Latest
                   PROVE  queue'[i].place < k + 1
        BY <2>2
      <4>1. CASE i \in 1..len
        <5>1. i \in DOMAIN queue /\ queue[i].stream = Latest
          BY <2>2, <4>1
        <5>2. queue[i].place < k
          BY <1>2, <5>1
        <5>3. queue[i].place \in Nat
          BY <2>3, <4>1
        <5>4. queue'[i].place = queue[i].place
          BY <2>2, <4>1
        <5> HIDE DEF len
        <5> QED
          BY <1>1, <5>2, <5>3, <5>4
      <4>2. CASE i = len + 1
        BY <1>1, <2>1, <2>2, <4>2
      <4> QED
        BY <1>1, <4>1, <4>2
    <3>2. \A p \in streams[Latest] : p < k + 1 => Queued(latest, p)'
      <4> SUFFICES ASSUME NEW p \in streams[Latest], p < k + 1
                   PROVE  Queued(latest, p)'
        OBVIOUS
      <4>1. CASE p = k
        BY <2>5, <4>1
      <4>2. CASE p # k
        <5>1. p < k
          BY <1>6, <4>2
        <5>2. Queued(latest, p)
          BY <1>2, <2>0, <5>1
        <5> QED
          BY <2>4, <5>2
      <4> QED
        BY <4>1, <4>2
    <3>3. Len(queue') <= (Latest - 1) * MaxQuestions + k
      BY <1>1, <1>2, <1>4, <2>2
    <3> QED
      BY <1>1, <1>2, <1>5, <2>0, <3>1, <3>2, <3>3 DEF Arrived, Queued
  <2>7. QueueFits'
    <3>1. \A i \in DOMAIN queue' : queue'[i].stream \in 1..Latest
      <4> SUFFICES ASSUME NEW i \in 1..(len + 1)
                   PROVE  queue'[i].stream \in 1..Latest
        BY <2>2
      <4>1. CASE i \in 1..len
        BY <2>2, <2>3, <4>1
      <4>2. CASE i = len + 1
        BY <1>1, <2>1, <2>2, <4>2
      <4> QED
        BY <1>1, <4>1, <4>2
    <3>2. Len(queue') <= Latest * MaxQuestions
      BY <1>1, <1>2, <1>4, <1>5, <2>2
    <3> QED
      BY <1>1, <3>1, <3>2 DEF QueueFits
  <2>8. ASSUME NEW i \in DOMAIN queue', NEW j \in DOMAIN queue', i < j
        PROVE  Before(queue'[i], queue'[j])
    <3>1. i \in 1..len /\ queue'[i] = queue[i]
      BY <1>1, <2>2, <2>8
    <3>2. CASE j \in 1..len
      BY <1>3, <2>2, <2>8, <3>1, <3>2
    <3>3. CASE j = len + 1
      <4>1. queue[i].stream \in 1..Latest /\ (queue[i].stream = Latest => queue[i].place < k)
        BY <1>2, <2>2, <2>3, <3>1
      <4> QED
        BY <1>1, <2>1, <2>2, <3>1, <3>3, <4>1 DEF Before
    <3> QED
      BY <1>1, <2>2, <3>2, <3>3
  <2>9. ASSUME NEW i \in DOMAIN queue', NEW stream, queue'[i].stream = stream,
               NEW p \in streams[stream], p < queue'[i].place
        PROVE  Queued(stream, p)'
    <3>1. CASE i \in 1..len
      <4>1. queue'[i] = queue[i] /\ i \in DOMAIN queue
        BY <2>2, <3>1
      <4>2. queue[i].stream = stream /\ p < queue[i].place
        BY <2>9, <4>1
      <4>3. Queued(stream, p)
        BY <1>3, <4>1, <4>2
      <4> QED
        BY <2>4, <4>3
    <3>2. CASE i = len + 1
      <4>1. stream = Latest /\ queue'[i].place = k
        BY <2>1, <2>2, <2>9, <3>2
      <4>2. p \in streams[Latest] /\ p < k
        BY <2>9, <4>1
      <4>3. Queued(stream, p)
        BY <1>2, <4>1, <4>2
      <4> QED
        BY <2>4, <4>3
    <3> QED
      BY <1>1, <2>2, <3>1, <3>2
  <2>10. Len(queue') \in Nat /\ Len(queue') >= len
    BY <1>1, <2>2
  <2>11. (\A i \in DOMAIN queue :
            \A p \in streams[queue[i].stream] : p < queue[i].place => Queued(queue[i].stream, p))'
    BY <2>9 DEF Queued
  <2> QED
    BY <1>1, <2>2, <2>6, <2>7, <2>8, <2>10, <2>11
<1> QED
  BY <1>7, <1>8

\* A question that is read takes its place in the queue, another is skipped.
LEMMA QuestionKeeps ==
    ASSUME IInv, QuestionArrives \/ QuestionDropped
    PROVE  IInv'
<1>1. Arrives("question") /\ es' = es /\ streamDone' = streamDone
  BY DEF QuestionArrives, QuestionDropped
<1>2. /\ UNCHANGED <<streams, idx, judged, click, hasty>> /\ script' \in Seq(Event)
      /\ Latest >= 1 /\ es = "open" /\ ~streamDone
  BY <1>1, AfterEvent
<1>3. PICK n \in 0..MaxQuestions, k \in 0..(MaxQuestions + 1) :
        /\ k <= n + 1 /\ Arrived(n, k) /\ "question" = Kind(n, k) /\ Head(script).place = k
        /\ script' = IF k = n + 1 THEN <<>> ELSE Rest(n, k + 1)
  BY <1>1, AfterEvent
<1>4. /\ k \in 1..n /\ script' = Rest(n, k + 1) /\ n \in Nat
      /\ k + 1 \in 0..(MaxQuestions + 1) /\ k + 1 <= n + 1
  BY <1>3, Bounds DEF Kind
<1>5. \/ k \notin streams[Latest] /\ UNCHANGED queue
      \/ k \in streams[Latest] /\ queue' = Append(queue, [stream |-> Latest, place |-> k])
  BY <1>3 DEF QuestionArrives, QuestionDropped, Parses, Arriving
<1>6. /\ Arrived(n, k + 1)' /\ QueueFits' /\ queue' \in Seq(Place)
      /\ Len(queue') \in Nat /\ Len(queue) \in Nat /\ Len(queue') >= Len(queue)
      /\ (\A i, j \in DOMAIN queue : i < j => Before(queue[i], queue[j]))'
      /\ (\A i \in DOMAIN queue :
            \A p \in streams[queue[i].stream] : p < queue[i].place => Queued(queue[i].stream, p))'
  BY <1>2, <1>3, <1>4, <1>5, ArrivedNext
<1>7. TypeOK'
  <2>1. phase' \in Phases
    BY FinishPhase DEF IInv, QuestionArrives, QuestionDropped, TypeOK, Phases
  <2>2. idx' \in 0..Len(queue')
    BY <1>2, <1>6 DEF IInv, TypeOK
  <2> QED
    BY <1>1, <1>2, <1>6, <2>1, <2>2 DEF IInv, TypeOK, Phases, Place
<1>8. ScriptLeft'
  BY <1>2, <1>4, <1>6 DEF ScriptLeft, Latest
<1>9. QueueFollowsStreams' /\ DoneCloses'
  BY <1>1, <1>2, <1>6 DEF QueueFollowsStreams, DoneCloses
<1>10. VerdictsSound'
  BY <1>2, VerdictsKept DEF IInv
<1> QED
  BY <1>6, <1>7, <1>8, <1>9, <1>10 DEF IInv

-----------------------------------------------------------------------------
\* The learner's steps leave the stream and the queue alone.
LEMMA LearnerKeepsQueue ==
    ASSUME IInv, UNCHANGED <<streamVars, queue, streamDone>>
    PROVE  ScriptLeft' /\ QueueFits' /\ QueueFollowsStreams' /\ DoneCloses'
<1>1. UNCHANGED <<es, queue, streams, script, streamDone>>
  BY DEF streamVars
<1>2. QueueFits' /\ QueueFollowsStreams'
  BY <1>1, QueueKept DEF IInv
<1>3. ScriptLeft'
  BY <1>1, ArrivedKept DEF IInv, ScriptLeft, Latest
<1> QED
  BY <1>1, <1>2, <1>3 DEF IInv, DoneCloses

\* onAnswer takes the question on the screen.
LEMMA ChooseKeeps ==
    ASSUME IInv, NEW c \in Clicks, Choose(c)
    PROVE  IInv'
<1>1. /\ judged = 0 /\ idx < Len(queue)
      /\ click' = [click EXCEPT ![c] = [at |-> "hashing", question |-> Current]]
      /\ hasty' = (hasty \/ \E d \in Clicks : click[d].at = "hashing")
      /\ UNCHANGED <<streamVars, phase, queue, idx, streamDone, judged>>
  BY DEF Choose, Showing
<1>2. Current \in Questions /\ Current # 0
  <2>1. /\ Len(queue) <= MaxStreams * MaxQuestions /\ Len(queue) \in Nat
        /\ idx \in 0..Len(queue)
    BY QueueBound DEF IInv, TypeOK
  <2>2. MaxStreams * MaxQuestions \in Int
    BY Bounds
  <2> QED
    BY <1>1, <2>1, <2>2 DEF Current, Questions
<1>3. TypeOK'
  <2>1. [at |-> "hashing", question |-> Current] \in Run
    BY <1>2 DEF Run
  <2> QED
    BY <1>1, <2>1 DEF IInv, TypeOK, streamVars
<1>4. /\ click'[c].at = "hashing" /\ click'[c].question = Current
      /\ \A d \in Clicks \ {c} : click'[d] = click[d]
  BY <1>1 DEF IInv, TypeOK
<1>5. VerdictsSound'
  <2> SUFFICES ASSUME ~hasty'
               PROVE  \A d \in Clicks : click'[d].at = "hashing" => d = c
    BY <1>1, <1>4 DEF VerdictsSound, Current
  <2> QED
    BY <1>1, <1>4
<1> QED
  BY <1>1, <1>3, <1>5, LearnerKeepsQueue DEF IInv

\* The verdict of the only answer being hashed is that of the question shown.
LEMMA JudgeKeeps ==
    ASSUME IInv, NEW c \in Clicks, Judge(c)
    PROVE  IInv'
<1>1. /\ click[c].at = "hashing"
      /\ judged' = IF phase = "left" THEN judged ELSE click[c].question
      /\ click' = [click EXCEPT ![c].at = "posting"]
      /\ UNCHANGED <<streamVars, phase, queue, idx, streamDone, hasty>>
  BY DEF Judge
<1>2. click \in [Clicks -> Run] /\ click[c] \in Run
  BY DEF IInv, TypeOK
<1>3. /\ click'[c] = [at |-> "posting", question |-> click[c].question]
      /\ click' \in [Clicks -> Run]
      /\ \A d \in Clicks \ {c} : click'[d] = click[d]
  BY <1>1, <1>2 DEF Run
<1>4. TypeOK'
  BY <1>1, <1>2, <1>3 DEF IInv, TypeOK, streamVars, Run
<1>5. VerdictsSound'
  <2> SUFFICES ASSUME ~hasty
               PROVE  /\ judged' # 0 => judged' = Current
                      /\ \A d \in Clicks : click'[d].at # "hashing"
    BY <1>1 DEF VerdictsSound, Current
  <2>1. click[c].question = Current /\ judged = 0
    BY <1>1 DEF IInv, VerdictsSound
  <2>2. \A d \in Clicks \ {c} : click[d].at # "hashing"
    BY <1>1 DEF IInv, VerdictsSound
  <2> QED
    BY <1>1, <1>3, <2>1, <2>2
<1> QED
  BY <1>1, <1>4, <1>5, LearnerKeepsQueue DEF IInv

\* The reply of POST /api/attempts, or its failure, ends a run of onAnswer.
LEMMA ReplyKeeps ==
    ASSUME IInv, NEW c \in Clicks, Answered(c) \/ PostFails(c)
    PROVE  IInv'
<1>1. /\ click' = [click EXCEPT ![c] = NoRun]
      /\ UNCHANGED <<streamVars, phase, queue, idx, streamDone, judged, hasty>>
  BY DEF Answered, PostFails
<1>2. TypeOK'
  BY <1>1 DEF IInv, TypeOK, streamVars, NoRun, Run
<1>3. click'[c].at = "idle" /\ \A d \in Clicks \ {c} : click'[d] = click[d]
  BY <1>1 DEF IInv, TypeOK, NoRun
<1>4. VerdictsSound'
  BY <1>1, <1>3 DEF IInv, VerdictsSound, Current
<1> QED
  BY <1>1, <1>2, <1>4, LearnerKeepsQueue DEF IInv

\* The button comes with the verdict, when nothing is being hashed.
LEMMA GoNextKeeps ==
    ASSUME IInv, GoNext
    PROVE  IInv'
<1>1. /\ idx < Len(queue) /\ judged # 0 /\ judged' = 0 /\ idx' = idx + 1
      /\ FinishTest(streamDone, queue, idx', phase)
      /\ UNCHANGED <<streamVars, queue, streamDone, click, hasty>>
  BY DEF GoNext, Showing, answerVars
<1>2. TypeOK'
  <2>1. phase' \in Phases
    BY <1>1, FinishPhase DEF IInv
  <2>2. idx' \in 0..Len(queue)
    BY <1>1 DEF IInv, TypeOK
  <2> QED
    BY <1>1, <2>1, <2>2 DEF IInv, TypeOK, streamVars, Phases
<1>3. VerdictsSound'
  BY <1>1 DEF IInv, VerdictsSound
<1> QED
  BY <1>1, <1>2, <1>3, LearnerKeepsQueue DEF IInv

\* Every step keeps the invariant.
LEMMA QuizStep == IInv /\ [Next]_vars => IInv'
<1> SUFFICES ASSUME IInv, [Next]_vars PROVE IInv'
  OBVIOUS
<1>1. CASE Stream
  BY <1>1, ConnectKeeps, StreamEndsKeeps, OtherEventKeeps, DoneArrivesKeeps, QuestionKeeps
     DEF Stream
<1>2. CASE GoNext \/ Leave
  BY <1>2, GoNextKeeps, StreamEndsKeeps
<1>3. ASSUME NEW c \in Clicks, Answering(c)
      PROVE  IInv'
  BY <1>3, ChooseKeeps, JudgeKeeps, ReplyKeeps DEF Answering
<1>4. CASE UNCHANGED vars
  <2>1. UNCHANGED <<streamVars, queue, streamDone>> /\ UNCHANGED <<idx, judged, click, hasty>>
    BY <1>4 DEF vars, answerVars
  <2>2. TypeOK'
    BY <1>4 DEF vars, streamVars, answerVars, IInv, TypeOK
  <2> QED
    BY <2>1, <2>2, LearnerKeepsQueue, VerdictsKept DEF IInv
<1> QED
  BY <1>1, <1>2, <1>3, <1>4 DEF Next

\* The invariant holds in every reachable state.
LEMMA QuizSafe == Spec => []IInv
<1> QED
  BY QuizInit, QuizStep, PTL DEF Spec

\* Every reachable page is well typed: its queue never holds more than the
\* questions its streams may send.
THEOREM QuizTypeCorrect == Spec => []TypeOK
<1>1. IInv => TypeOK
  BY DEF IInv
<1> QED
  BY <1>1, QuizSafe, PTL

(***************************************************************************)
(* QueueFollowsStreams for any number of streams and questions: however    *)
(* often the connection breaks and whatever the page cannot parse, the     *)
(* queue holds the readable questions in the order they were sent, skips   *)
(* none before one it holds, and has all of a session that came to its     *)
(* done (Quiz.tsx:56-67).                                                  *)
(***************************************************************************)
THEOREM QueueKeepsOrder == Spec => []QueueFollowsStreams
<1>1. IInv => QueueFollowsStreams
  BY DEF IInv
<1> QED
  BY <1>1, QuizSafe, PTL

(***************************************************************************)
(* VerdictIsOfTheQuestionShown for any number of clicks and streams: as    *)
(* long as no question is clicked again before its verdict, the verdict    *)
(* the page shows is that of the question it shows (Quiz.tsx:94-108).      *)
(***************************************************************************)
THEOREM VerdictsFit == Spec => []VerdictIsOfTheQuestionShown
<1>1. IInv => VerdictIsOfTheQuestionShown
  BY DEF IInv, VerdictsSound, VerdictIsOfTheQuestionShown
<1> QED
  BY <1>1, QuizSafe, PTL
=============================================================================
