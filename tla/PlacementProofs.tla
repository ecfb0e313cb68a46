-------------------------- MODULE PlacementProofs --------------------------
(***************************************************************************)
(* The placement test, for every pool of items and any number of requests, *)
(* sessions and answers.                                                   *)
(*                                                                         *)
(* What holds whatever is lost or overlaps: a session never asks twice,    *)
(* and requests and replies name sessions that exist.  CalmPage adds where *)
(* the learner is who waits for each reply: the page, the only request     *)
(* under way and the session agree on the item that is being answered.     *)
(***************************************************************************)
EXTENDS Placement, SequenceTheorems, TLAPS

Asked(sid) == sessions[sid].Asked

Resps(sid) == sessions[sid].Resps

SessionsFit == Len(sessions) <= MaxSessions

\* A request q fits the sessions sess and the number us of users.
Sound(q, sess, us) ==
    /\ q.phase = "sent" /\ q.kind = "answer" =>
         q.session \in DOMAIN sess /\ q.item \in Items
    /\ q.phase = "replied" /\ q.reply.ok =>
         /\ q.kind = "start" => ~q.reply.done
         /\ q.kind \in {"start", "answer"} /\ ~q.reply.done =>
              /\ q.reply.session \in DOMAIN sess
              /\ q.reply.item \in ToSet(sess[q.reply.session].Asked)
         /\ q.kind = "onboarding" => us > 0

RequestsSound == \A r \in Requests : Sound(request[r], sessions, users)

\* Once an answer is sent, an item shows.
AnswersShown == \A r \in Requests : request[r].kind = "answer" => item # NoItem

\* The item shown was asked by some session.
PageSound ==
    /\ item # NoItem => sessionId \in DOMAIN sessions
    /\ item # NoItem => \E sid \in DOMAIN sessions : item \in ToSet(Asked(sid))
    /\ step = "placement" => item # NoItem
    /\ step = "done" => users > 0

\* The session waits for the answer to this item.
Awaits(sess, sid, i) ==
    /\ sid \in DOMAIN sess
    /\ Len(sess[sid].Asked) = Len(sess[sid].Resps) + 1
    /\ sess[sid].Asked[Len(sess[sid].Asked)] = i
    /\ Len(sess[sid].Resps) < maxItems

\* Where the learner and the only request under way are.
CalmRequest(q) ==
    \/ /\ q.kind = "start" /\ step = "intro"
       /\ q.phase = "replied" /\ q.reply.ok => Awaits(sessions, q.reply.session, q.reply.item)
    \/ /\ q.kind = "answer" /\ step = "placement"
       /\ q.session = sessionId /\ q.item = item
       /\ IF q.phase = "replied" /\ q.reply.ok
          THEN ~q.reply.done => Awaits(sessions, sessionId, q.reply.item)
          ELSE Awaits(sessions, sessionId, item)
    \/ /\ q.kind = "onboarding" /\ step = "submitting"

CalmUsers ==
    users # 0 =>
        /\ users = 1
        /\ step = "done" \/ \E r \in Requests : Received(r, "onboarding", TRUE)

CalmPage ==
    ~disturbed =>
        /\ ~Overlap
        /\ \A r \in Requests : ~Idle(r) => CalmRequest(request[r])
        /\ (\A r \in Requests : Idle(r)) =>
             step # "submitting" /\ (step = "placement" => Awaits(sessions, sessionId, item))
        /\ AnswersFollowQuestions
        /\ StopsAtMaxItems
        /\ CalmUsers

IInv ==
    /\ TypeOK
    /\ SessionsFit
    /\ AsksEachItemOnce
    /\ RequestsSound
    /\ AnswersShown
    /\ PageSound
    /\ CalmPage

-----------------------------------------------------------------------------
\* What a prefix is, element by element.
LEMMA PrefixMeans ==
    ASSUME NEW s \in Seq(Items), NEW t \in Seq(Items)
    PROVE  IsPrefix(s, t) <=> Len(s) <= Len(t) /\ \A i \in 1..Len(s) : s[i] = t[i]
<1>1. Len(s) \in Nat /\ Len(t) \in Nat
  OBVIOUS
<1> SUFFICES ASSUME Len(s) <= Len(t)
             PROVE  SubSeq(s, 1, Len(s)) = SubSeq(t, 1, Len(s)) <=>
                      \A i \in 1..Len(s) : s[i] = t[i]
  BY <1>1 DEF IsPrefix
<1> DEFINE a == SubSeq(s, 1, Len(s))
           b == SubSeq(t, 1, Len(s))
<1>2. /\ a \in Seq(Items) /\ Len(a) = Len(s) /\ \A i \in 1..Len(s) : a[i] = s[i]
      /\ b \in Seq(Items) /\ Len(b) = Len(s) /\ \A i \in 1..Len(s) : b[i] = t[i]
  BY <1>1
<1> HIDE DEF a, b
<1>3. ASSUME \A i \in 1..Len(s) : s[i] = t[i]
      PROVE  a = b
  BY <1>2, <1>3, SeqEqual
<1> QED
  BY <1>2, <1>3 DEF a, b

\* What Append returns, element by element.
LEMMA Appended ==
    ASSUME NEW S, NEW s \in Seq(S), NEW x \in S
    PROVE  /\ Append(s, x) \in Seq(S)
           /\ Len(s) \in Nat /\ Len(Append(s, x)) = Len(s) + 1
           /\ DOMAIN s = 1..Len(s) /\ DOMAIN Append(s, x) = 1..(Len(s) + 1)
           /\ \A i \in 1..Len(s) : Append(s, x)[i] = s[i]
           /\ Append(s, x)[Len(s) + 1] = x
OBVIOUS

\* Append adds one element, and keeps a sequence injective if it is new.
LEMMA AppendedSet ==
    ASSUME NEW S, NEW s \in Seq(S), NEW x \in S
    PROVE  /\ ToSet(Append(s, x)) = ToSet(s) \cup {x}
           /\ IsInjective(s) /\ x \notin ToSet(s) => IsInjective(Append(s, x))
<1>1. /\ Len(s) \in Nat
      /\ DOMAIN s = 1..Len(s) /\ DOMAIN Append(s, x) = 1..(Len(s) + 1)
      /\ \A i \in 1..Len(s) : Append(s, x)[i] = s[i]
      /\ Append(s, x)[Len(s) + 1] = x
  BY Appended
<1>2. ToSet(Append(s, x)) = ToSet(s) \cup {x}
  BY <1>1 DEF ToSet
<1>3. ASSUME IsInjective(s), x \notin ToSet(s),
             NEW i \in 1..(Len(s) + 1), NEW j \in 1..(Len(s) + 1),
             Append(s, x)[i] = Append(s, x)[j]
      PROVE  i = j
  <2>1. \A k \in 1..Len(s) : s[k] # x
    BY <1>1, <1>3 DEF ToSet
  <2>2. CASE i \in 1..Len(s) /\ j \in 1..Len(s)
    BY <1>1, <1>3, <2>2 DEF IsInjective
  <2>3. CASE i = Len(s) + 1 \/ j = Len(s) + 1
    BY <1>1, <1>3, <2>1, <2>3
  <2> QED
    BY <1>1, <2>2, <2>3
<1> QED
  BY <1>1, <1>2, <1>3 DEF IsInjective

-----------------------------------------------------------------------------
\* One request changes at a time.
Becomes(r, new) ==
    /\ new \in Request
    /\ request' \in [Requests -> Request]
    /\ request'[r] = new
    /\ \A s \in Requests \ {r} : request'[s] = request[s]

Replied(q, reply) ==
    [kind |-> q.kind, phase |-> "replied", session |-> q.session, item |-> q.item,
     reply |-> reply]

SentOff(kind, sid, i) ==
    [kind |-> kind, phase |-> "sent", session |-> sid, item |-> i, reply |-> Failed]

\* Facts about the constants and the fixed records.
LEMMA Constants ==
    /\ maxItems \in Nat \ {0} /\ MaxSessions \in Nat /\ MaxUsers \in Nat
    /\ NoItem \notin Items
    /\ Failed \in Reply /\ NoRequest \in Request
    /\ ~Failed.ok /\ NoRequest.phase = "idle" /\ NoRequest.kind = "none"
BY PlacementAssumption
DEF PlacementAssumption, Failed, Reply, NoRequest, Request

\* Answer leaves a request as it was, but replied to.
LEMMA AnswerBecomes ==
    ASSUME TypeOK, NEW r \in Requests, NEW reply \in Reply, Answer(r, reply)
    PROVE  Becomes(r, Replied(request[r], reply))
<1> DEFINE x == request[r]
<1>1. request \in [Requests -> Request] /\ x \in Request
  BY DEF TypeOK
<1> HIDE DEF x
<1>2. Replied(x, reply) \in Request
  BY <1>1 DEF Replied, Request
<1>3. [x EXCEPT !.phase = "replied"] =
        [kind |-> x.kind, phase |-> "replied", session |-> x.session, item |-> x.item,
         reply |-> x.reply]
  BY <1>1 DEF Request
<1>4. [[kind |-> x.kind, phase |-> "replied", session |-> x.session, item |-> x.item,
        reply |-> x.reply] EXCEPT !.reply = reply] = Replied(x, reply)
  BY DEF Replied
<1>5. [[x EXCEPT !.phase = "replied"] EXCEPT !.reply = reply] = Replied(x, reply)
  BY <1>3, <1>4
<1>6. request' = [request EXCEPT ![r] = Replied(x, reply)]
  BY <1>1, <1>5 DEF Answer, x
<1> QED
  BY <1>1, <1>2, <1>6 DEF Becomes, x

\* What a click leaves behind.
LEMMA SentBecomes ==
    ASSUME TypeOK, NEW r \in Requests, NEW kind \in {"start", "answer", "onboarding"},
           NEW sid \in 0..MaxSessions, NEW i \in Items \cup {NoItem},
           request' = [request EXCEPT ![r] = Sent(kind, sid, i)]
    PROVE  Becomes(r, SentOff(kind, sid, i))
<1> DEFINE rec(a, b, c, d) ==
             [kind |-> a, phase |-> b, session |-> c, item |-> d, reply |-> Failed]
<1>1. [NoRequest EXCEPT !.kind = kind] = rec(kind, "idle", 0, NoItem)
  BY DEF NoRequest
<1>2. [rec(kind, "idle", 0, NoItem) EXCEPT !.phase = "sent"] = rec(kind, "sent", 0, NoItem)
  OBVIOUS
<1>3. [rec(kind, "sent", 0, NoItem) EXCEPT !.session = sid] = rec(kind, "sent", sid, NoItem)
  OBVIOUS
<1>4. [rec(kind, "sent", sid, NoItem) EXCEPT !.item = i] = rec(kind, "sent", sid, i)
  OBVIOUS
<1>5. rec(kind, "sent", sid, i) \in Request
  BY Constants DEF Request
<1> HIDE DEF rec
<1>6. [NoRequest EXCEPT !.kind = kind, !.phase = "sent", !.session = sid, !.item = i] =
        rec(kind, "sent", sid, i)
  BY <1>1, <1>2, <1>3, <1>4
<1>7. Sent(kind, sid, i) = SentOff(kind, sid, i) /\ SentOff(kind, sid, i) \in Request
  BY <1>5, <1>6 DEF rec, Sent, SentOff
<1>8. request \in [Requests -> Request]
  BY DEF TypeOK
<1> QED
  BY <1>7, <1>8 DEF Becomes

\* What a received reply leaves behind.
LEMMA FreeBecomes ==
    ASSUME TypeOK, NEW r \in Requests, Free(r)
    PROVE  Becomes(r, NoRequest)
BY Constants DEF TypeOK, Free, Becomes

-----------------------------------------------------------------------------
\* What an answer does to its session, whether the test ends or goes on.
Recorded(sid, asked, i) ==
    /\ sid \in DOMAIN sessions
    /\ sessions' \in Seq(Session) /\ Len(sessions') = Len(sessions)
    /\ sessions'[sid].Asked = asked
    /\ sessions'[sid].Resps = Append(sessions[sid].Resps, i)
    /\ \A s \in DOMAIN sessions \ {sid} : sessions'[s] = sessions[s]

AnswerEnds(r) ==
    LET sid == request[r].session
    IN  /\ Recorded(sid, Asked(sid), request[r].item)
        /\ Becomes(r, Replied(request[r], DoneReply(sid)))

AnswerGoesOn(r, next) ==
    LET sid == request[r].session
    IN  /\ next \in Items \ ToSet(Asked(sid))
        /\ Len(Resps(sid)) + 1 < maxItems
        /\ Recorded(sid, Append(Asked(sid), next), request[r].item)
        /\ Becomes(r, Replied(request[r], [ok |-> TRUE, done |-> FALSE, session |-> sid,
                                           item |-> next]))

AnswerUnheard(r) ==
    LET sid == request[r].session
    IN  /\ Recorded(sid, Asked(sid), request[r].item)
        /\ Becomes(r, Replied(request[r], Failed))

\* An answer under way names a session and an item.
LEMMA AnswerIsSound ==
    ASSUME IInv, NEW r \in Requests, Arrived(r, "answer")
    PROVE  /\ request[r].session \in DOMAIN sessions /\ request[r].item \in Items
           /\ request[r].session \in 0..MaxSessions
           /\ sessions[request[r].session] \in Session
<1>1. request[r].session \in DOMAIN sessions /\ request[r].item \in Items
  BY DEF IInv, RequestsSound, Sound, Arrived
<1>2. request[r] \in Request
  BY DEF IInv, TypeOK
<1> QED
  BY <1>1, <1>2 DEF IInv, TypeOK, Request

\* The two records handleAnswer may leave, written out.
LEMMA AnsweredIs ==
    ASSUME NEW sess \in Session, NEW i \in Items
    PROVE  /\ Answered(sess, i) = [Asked |-> sess.Asked, Resps |-> Append(sess.Resps, i)]
           /\ Answered(sess, i) \in Session
           /\ Answered(sess, i).Asked = sess.Asked
           /\ Len(Answered(sess, i).Resps) = Len(sess.Resps) + 1
           /\ Len(sess.Resps) \in Nat
           /\ \A next \in Items :
                /\ [Answered(sess, i) EXCEPT !.Asked = Append(@, next)] =
                     [Asked |-> Append(sess.Asked, next), Resps |-> Append(sess.Resps, i)]
                /\ [Asked |-> Append(sess.Asked, next), Resps |-> Append(sess.Resps, i)]
                     \in Session
<1>1. sess.Asked \in Seq(Items) /\ sess.Resps \in Seq(Items)
  BY DEF Session
<1> DEFINE y == Append(sess.Resps, i)
<1>2. y \in Seq(Items) /\ Len(y) = Len(sess.Resps) + 1 /\ Len(sess.Resps) \in Nat
  BY <1>1
<1> HIDE DEF y
<1>3. [sess EXCEPT !.Resps = y] = [Asked |-> sess.Asked, Resps |-> y]
  BY DEF Session
<1>4. Answered(sess, i) = [Asked |-> sess.Asked, Resps |-> y]
  BY <1>3 DEF Answered, y
<1>5. ASSUME NEW next \in Items
      PROVE  /\ [Answered(sess, i) EXCEPT !.Asked = Append(@, next)] =
                  [Asked |-> Append(sess.Asked, next), Resps |-> y]
             /\ [Asked |-> Append(sess.Asked, next), Resps |-> y] \in Session
  <2> DEFINE z == Append(sess.Asked, next)
  <2>1. z \in Seq(Items)
    BY <1>1
  <2> HIDE DEF z
  <2>2. [[Asked |-> sess.Asked, Resps |-> y] EXCEPT !.Asked = z] = [Asked |-> z, Resps |-> y]
    OBVIOUS
  <2>3. [Asked |-> z, Resps |-> y] \in Session
    BY <1>2, <2>1 DEF Session
  <2> QED
    BY <1>4, <2>2, <2>3 DEF z
<1>6. /\ Answered(sess, i) \in Session /\ Answered(sess, i).Asked = sess.Asked
      /\ Len(Answered(sess, i).Resps) = Len(sess.Resps) + 1
  BY <1>1, <1>2, <1>4 DEF Session
<1> QED
  BY <1>2, <1>4, <1>5, <1>6 DEF y

\* sessions' as Recorded says it.
LEMMA RecordedHolds ==
    ASSUME IInv, NEW r \in Requests, Arrived(r, "answer"),
           NEW asked \in Seq(Items), NEW new \in Session,
           new = [Asked |-> asked,
                  Resps |-> Append(Resps(request[r].session), request[r].item)],
           sessions' = [sessions EXCEPT ![request[r].session] = new]
    PROVE  Recorded(request[r].session, asked, request[r].item)
<1>1. request[r].session \in DOMAIN sessions
  BY AnswerIsSound
<1>2. sessions \in Seq(Session)
  BY DEF IInv, TypeOK
<1>3. new.Asked = asked
      /\ new.Resps = Append(Resps(request[r].session), request[r].item)
  OBVIOUS
<1>4. /\ sessions' \in Seq(Session) /\ Len(sessions') = Len(sessions)
      /\ sessions'[request[r].session] = new
      /\ \A s \in DOMAIN sessions \ {request[r].session} : sessions'[s] = sessions[s]
  BY <1>1, <1>2
<1> QED
  BY <1>1, <1>3, <1>4 DEF Recorded, Resps

\* The server ends the test or asks an item not asked yet.
LEMMA HandleAnswerEffect ==
    ASSUME IInv, NEW r \in Requests, HandleAnswer(r)
    PROVE  AnswerEnds(r) \/ \E next \in Items : AnswerGoesOn(r, next)
<1> DEFINE sid  == request[r].session
           sess == Answered(sessions[sid], request[r].item)
           asks(next) == [sess EXCEPT !.Asked = Append(@, next)]
           reply(next) == [ok |-> TRUE, done |-> FALSE, session |-> sid, item |-> next]
<1>1. Arrived(r, "answer")
  BY DEF HandleAnswer
<1>2. /\ sid \in DOMAIN sessions /\ sid \in 0..MaxSessions
      /\ request[r].item \in Items /\ sessions[sid] \in Session
  BY <1>1, AnswerIsSound
<1>3. Asked(sid) \in Seq(Items) /\ sess.Asked = Asked(sid)
  <2>1. Asked(sid) \in Seq(Items)
    BY <1>2 DEF Session, Asked
  <2>2. sess.Asked = Asked(sid)
    BY <1>2, AnsweredIs DEF Asked
  <2> QED
    BY <2>1, <2>2
<1>4. ASSUME sessions' = [sessions EXCEPT ![sid] = sess], Answer(r, DoneReply(sid))
      PROVE  AnswerEnds(r)
  <2>1. Recorded(sid, Asked(sid), request[r].item)
    BY <1>1, <1>2, <1>3, <1>4, AnsweredIs, RecordedHolds DEF Asked, Resps
  <2>2. DoneReply(sid) \in Reply
    BY <1>2 DEF DoneReply, Reply
  <2> QED
    BY <1>4, <2>1, <2>2, AnswerBecomes DEF AnswerEnds, IInv
<1>5. ASSUME NEW next \in Unasked(sess), NEW precise, ~Stops(sess, precise),
             sessions' = [sessions EXCEPT ![sid] = asks(next)], Answer(r, reply(next))
      PROVE  next \in Items /\ AnswerGoesOn(r, next)
  <2>1. next \in Items \ ToSet(Asked(sid))
    BY <1>3 DEF Unasked
  <2>2. Len(Resps(sid)) + 1 < maxItems
    BY <1>2, <1>5, AnsweredIs, Constants DEF Stops, Resps
  <2>3. Append(Asked(sid), next) \in Seq(Items)
    BY <1>3, <2>1
  <2>4. Recorded(sid, Append(Asked(sid), next), request[r].item)
    <3>1. /\ asks(next) = [Asked |-> Append(Asked(sid), next),
                           Resps |-> Append(Resps(sid), request[r].item)]
          /\ asks(next) \in Session
      <4> DEFINE old == sessions[sid]
                 i   == request[r].item
      <4>1. old \in Session /\ i \in Items
        BY <1>2
      <4> HIDE DEF old, i
      <4>2. /\ [Answered(old, i) EXCEPT !.Asked = Append(@, next)] =
                 [Asked |-> Append(old.Asked, next), Resps |-> Append(old.Resps, i)]
            /\ [Asked |-> Append(old.Asked, next), Resps |-> Append(old.Resps, i)] \in Session
        BY <2>1, <4>1, AnsweredIs
      <4> QED
        BY <4>2 DEF Asked, Resps, old, i
    <3> HIDE DEF asks
    <3> QED
      BY <1>1, <1>5, <2>3, <3>1, RecordedHolds
  <2>5. reply(next) \in Reply
    BY <1>2, <2>1 DEF Reply
  <2> QED
    BY <1>5, <2>1, <2>2, <2>4, <2>5, AnswerBecomes DEF AnswerGoesOn, IInv
<1> HIDE DEF sess
<1>6. PICK precise \in {FALSE} \cup {Len(sess.Resps) >= MinPrecise} :
        IF Stops(sess, precise) \/ Unasked(sess) = {}
        THEN /\ sessions' = [sessions EXCEPT ![sid] = sess]
             /\ Answer(r, DoneReply(sid))
        ELSE \E next \in Unasked(sess) :
               /\ sessions' = [sessions EXCEPT ![sid] = asks(next)]
               /\ Answer(r, reply(next))
  BY Zenon DEF HandleAnswer, sess
<1>7. CASE Stops(sess, precise) \/ Unasked(sess) = {}
  BY <1>4, <1>6, <1>7
<1>8. CASE ~(Stops(sess, precise) \/ Unasked(sess) = {})
  <2>1. PICK next \in Unasked(sess) :
          /\ sessions' = [sessions EXCEPT ![sid] = asks(next)]
          /\ Answer(r, reply(next))
    BY <1>6, <1>8
  <2>2. ~Stops(sess, precise)
    BY <1>8
  <2>3. next \in Items /\ AnswerGoesOn(r, next)
    BY <1>5, <2>1, <2>2
  <2> QED
    BY <2>3
<1> QED
  BY <1>7, <1>8

\* The answer is recorded although the request fails.
LEMMA ListFailsEffect ==
    ASSUME IInv, NEW r \in Requests, ListFails(r)
    PROVE  AnswerUnheard(r)
<1> DEFINE sid  == request[r].session
           sess == Answered(sessions[sid], request[r].item)
<1>1. Arrived(r, "answer") /\ Answer(r, Failed)
      /\ sessions' = [sessions EXCEPT ![sid] = sess]
  BY DEF ListFails
<1>2. request[r].item \in Items /\ sessions[sid] \in Session
  BY <1>1, AnswerIsSound
<1>3. Recorded(sid, Asked(sid), request[r].item)
  BY <1>1, <1>2, AnsweredIs, RecordedHolds DEF Asked, Resps, Session
<1> QED
  BY <1>1, <1>3, Constants, AnswerBecomes DEF AnswerUnheard, IInv

\* What a start does.
StartEffect(r, first) ==
    /\ Len(sessions) < MaxSessions
    /\ sessions' \in Seq(Session) /\ Len(sessions') = Len(sessions) + 1
    /\ sessions'[Len(sessions) + 1] = [Asked |-> <<first>>, Resps |-> <<>>]
    /\ \A s \in DOMAIN sessions : sessions'[s] = sessions[s]
    /\ Becomes(r, Replied(request[r], [ok |-> TRUE, done |-> FALSE,
                                       session |-> Len(sessions) + 1, item |-> first]))

\* The server adds a session that has asked one item.
LEMMA HandleStartEffect ==
    ASSUME IInv, NEW r \in Requests, HandleStart(r)
    PROVE  \E first \in Items : StartEffect(r, first)
<1> DEFINE reply(first) == [ok |-> TRUE, done |-> FALSE, session |-> Len(sessions) + 1,
                            item |-> first]
           new(first) == [Asked |-> <<first>>, Resps |-> <<>>]
<1>1. PICK first \in Items : /\ Len(sessions) < MaxSessions
                             /\ sessions' = Append(sessions, new(first))
                             /\ Answer(r, reply(first))
  BY DEF HandleStart
<1>2. sessions \in Seq(Session)
  BY DEF IInv, TypeOK
<1>3. new(first) \in Session
  BY DEF Session
<1>4. reply(first) \in Reply
  BY <1>1, <1>2, Constants DEF Reply
<1>5. Becomes(r, Replied(request[r], reply(first)))
  BY <1>1, <1>4, AnswerBecomes DEF IInv
<1> HIDE DEF new
<1>6. /\ sessions' \in Seq(Session) /\ Len(sessions') = Len(sessions) + 1
      /\ sessions'[Len(sessions) + 1] = new(first)
      /\ \A s \in DOMAIN sessions : sessions'[s] = sessions[s]
  BY <1>1, <1>2, <1>3
<1> QED
  BY <1>1, <1>5, <1>6 DEF StartEffect, new

-----------------------------------------------------------------------------
\* What a request r that moves does to the others.
Acts(r) == Serve(r) \/ Receive(r) \/ Click(r) \/ RequestFails(r)

Breaks(r) == ListFails(r) \/ ReplyLost(r)

\* A failed request is replied to without success.
LEMMA FailedBecomes ==
    ASSUME TypeOK, NEW r \in Requests, Answer(r, Failed)
    PROVE  Becomes(r, Replied(request[r], Failed))
BY Constants, AnswerBecomes

\* The fields of a session are sequences of items.
LEMMA SessionType ==
    ASSUME IInv, NEW sid \in DOMAIN sessions
    PROVE  /\ sessions[sid] \in Session
           /\ Asked(sid) \in Seq(Items) /\ Resps(sid) \in Seq(Items)
<1>1. sessions[sid] \in Session
  BY DEF IInv, TypeOK
<1> QED
  BY <1>1 DEF Session, Asked, Resps

\* Sessions and users only grow.
Grown ==
    /\ sessions' \in Seq(Session) /\ Len(sessions') <= MaxSessions
    /\ Len(sessions') \in Nat
    /\ \A s \in DOMAIN sessions :
         s \in DOMAIN sessions' /\ ToSet(sessions[s].Asked) \subseteq ToSet(sessions'[s].Asked)
    /\ users' \in 0..MaxUsers /\ users' >= users

\* An answer removes no item from its session.
LEMMA RecordedGrows ==
    ASSUME IInv, NEW sid, NEW asked, NEW i, Recorded(sid, asked, i),
           ToSet(Asked(sid)) \subseteq ToSet(asked), UNCHANGED users
    PROVE  Grown
<1>1. sessions \in Seq(Session) /\ Len(sessions) <= MaxSessions /\ users \in 0..MaxUsers
  BY DEF IInv, TypeOK, SessionsFit
<1>2. /\ sessions' \in Seq(Session) /\ Len(sessions') = Len(sessions)
      /\ DOMAIN sessions' = DOMAIN sessions
  BY <1>1 DEF Recorded
<1>3. \A s \in DOMAIN sessions : ToSet(sessions[s].Asked) \subseteq ToSet(sessions'[s].Asked)
  BY DEF Recorded, Asked
<1> QED
  BY <1>1, <1>2, <1>3, Constants DEF Grown

\* Users alone may grow.
LEMMA UnchangedGrows ==
    ASSUME IInv, UNCHANGED sessions, users' \in 0..MaxUsers, users' >= users
    PROVE  Grown
BY DEF Grown, IInv, TypeOK, SessionsFit

\* A new session leaves the others alone.
LEMMA StartGrows ==
    ASSUME IInv, NEW r \in Requests, NEW first \in Items, StartEffect(r, first),
           UNCHANGED users
    PROVE  Grown
<1>1. sessions \in Seq(Session) /\ Len(sessions) <= MaxSessions /\ users \in 0..MaxUsers
  BY DEF IInv, TypeOK, SessionsFit
<1>2. /\ sessions' \in Seq(Session) /\ Len(sessions') = Len(sessions) + 1
      /\ Len(sessions') <= MaxSessions
      /\ \A s \in DOMAIN sessions : s \in DOMAIN sessions' /\ sessions'[s] = sessions[s]
  BY <1>1, Constants DEF StartEffect
<1> QED
  BY <1>1, <1>2, Constants DEF Grown

\* However an answer ends, the sessions grow.
LEMMA AnswerGrows ==
    ASSUME IInv, NEW r \in Requests, UNCHANGED users,
           AnswerEnds(r) \/ AnswerUnheard(r) \/ \E next \in Items : AnswerGoesOn(r, next)
    PROVE  Grown
<1>1. CASE AnswerEnds(r) \/ AnswerUnheard(r)
  BY <1>1, RecordedGrows DEF AnswerEnds, AnswerUnheard
<1>2. ASSUME NEW next \in Items, AnswerGoesOn(r, next)
      PROVE  Grown
  <2> DEFINE sid == request[r].session
  <2>1. Recorded(sid, Append(Asked(sid), next), request[r].item)
    BY <1>2 DEF AnswerGoesOn
  <2>2. Asked(sid) \in Seq(Items)
    BY <2>1, SessionType DEF Recorded
  <2>3. ToSet(Asked(sid)) \subseteq ToSet(Append(Asked(sid), next))
    BY <2>2, AppendedSet
  <2> QED
    BY <2>1, <2>3, RecordedGrows
<1> QED
  BY <1>1, <1>2

\* One request becomes a sound one, the others stay sound.
LEMMA RequestsStaySound ==
    ASSUME IInv, NEW r \in Requests, NEW new, Becomes(r, new), Grown,
           Sound(new, sessions', users')
    PROVE  RequestsSound'
<1> SUFFICES ASSUME NEW s \in Requests
             PROVE  Sound(request'[s], sessions', users')
  BY DEF RequestsSound
<1>1. CASE s = r
  BY <1>1 DEF Becomes
<1>2. CASE s # r
  <2>1. request'[s] = request[s] /\ Sound(request[s], sessions, users)
    BY <1>2 DEF Becomes, IInv, RequestsSound
  <2>2. users \in Nat /\ users' \in Nat /\ users' >= users
    BY Constants DEF Grown, IInv, TypeOK
  <2> QED
    BY <2>1, <2>2 DEF Grown, Sound
<1> QED
  BY <1>1, <1>2

\* A request that is not sent with an answer, nor replied to with success.
LEMMA QuietIsSound ==
    ASSUME NEW q, NEW sess, NEW us,
           ~(q.phase = "sent" /\ q.kind = "answer"), ~(q.phase = "replied" /\ q.reply.ok)
    PROVE  Sound(q, sess, us)
BY DEF Sound

-----------------------------------------------------------------------------
\* Every step grows the server's state and leaves the requests sound.
LEMMA ServeSound ==
    ASSUME IInv, NEW r \in Requests,
           Serve(r) \/ RequestFails(r) \/ ListFails(r) \/ ReplyLost(r)
    PROVE  /\ Grown /\ RequestsSound'
           /\ request' \in [Requests -> Request] /\ UNCHANGED pageVars
<1>1. CASE HandleStart(r)
  <2>1. PICK first \in Items : StartEffect(r, first)
    BY <1>1, HandleStartEffect
  <2> DEFINE new == Replied(request[r], [ok |-> TRUE, done |-> FALSE,
                                         session |-> Len(sessions) + 1, item |-> first])
  <2>2. Grown /\ Becomes(r, new) /\ UNCHANGED pageVars
    BY <1>1, <2>1, StartGrows DEF HandleStart, StartEffect
  <2>3. new.kind = "start" /\ new.phase = "replied"
    BY <1>1 DEF HandleStart, Arrived, Replied
  <2>4. ~new.reply.done /\ new.reply.session = Len(sessions) + 1 /\ new.reply.item = first
    BY DEF Replied
  <2>5. /\ Len(sessions) + 1 \in DOMAIN sessions'
        /\ first \in ToSet(sessions'[Len(sessions) + 1].Asked)
    <3>1. sessions \in Seq(Session) /\ sessions' \in Seq(Session)
          /\ Len(sessions') = Len(sessions) + 1
          /\ sessions'[Len(sessions) + 1].Asked = <<first>>
      BY <2>1 DEF StartEffect, IInv, TypeOK
    <3>2. first \in ToSet(<<first>>)
      BY DEF ToSet
    <3> QED
      BY <3>1, <3>2
  <2> HIDE DEF new
  <2>6. Sound(new, sessions', users')
    BY <2>3, <2>4, <2>5 DEF Sound
  <2> QED
    BY <2>2, <2>6, RequestsStaySound DEF Becomes
<1>2. CASE HandleAnswer(r)
  <2> DEFINE sid == request[r].session
  <2>1. AnswerEnds(r) \/ \E next \in Items : AnswerGoesOn(r, next)
    BY <1>2, HandleAnswerEffect
  <2>2. Grown /\ UNCHANGED pageVars
    BY <1>2, <2>1, AnswerGrows DEF HandleAnswer
  <2>3. request[r].kind = "answer"
    BY <1>2 DEF HandleAnswer, Arrived
  <2>4. CASE AnswerEnds(r)
    <3> DEFINE new == Replied(request[r], DoneReply(sid))
    <3>1. Becomes(r, new)
      BY <2>4 DEF AnswerEnds
    <3>2. new.phase = "replied" /\ new.kind = "answer" /\ new.reply.done
      BY <2>3 DEF Replied, DoneReply
    <3> HIDE DEF new
    <3>3. Sound(new, sessions', users')
      BY <3>2 DEF Sound
    <3> QED
      BY <2>2, <3>1, <3>3, RequestsStaySound DEF Becomes
  <2>5. ASSUME NEW next \in Items, AnswerGoesOn(r, next)
        PROVE  RequestsSound' /\ request' \in [Requests -> Request]
    <3> DEFINE new == Replied(request[r], [ok |-> TRUE, done |-> FALSE, session |-> sid,
                                           item |-> next])
    <3>1. Becomes(r, new) /\ Recorded(sid, Append(Asked(sid), next), request[r].item)
      BY <2>5 DEF AnswerGoesOn
    <3>2. /\ new.phase = "replied" /\ new.kind = "answer"
          /\ new.reply.session = sid /\ new.reply.item = next
      BY <2>3 DEF Replied
    <3>3. sid \in DOMAIN sessions' /\ next \in ToSet(sessions'[sid].Asked)
      <4>1. sid \in DOMAIN sessions' /\ Asked(sid) \in Seq(Items)
        BY <2>2, <3>1, SessionType DEF Recorded, Grown
      <4>2. sessions'[sid].Asked = Append(Asked(sid), next)
        BY <3>1 DEF Recorded
      <4> QED
        BY <4>1, <4>2, AppendedSet
    <3> HIDE DEF new
    <3>4. Sound(new, sessions', users')
      BY <3>2, <3>3 DEF Sound
    <3> QED
      BY <2>2, <3>1, <3>4, RequestsStaySound DEF Becomes
  <2> QED
    BY <2>1, <2>2, <2>4, <2>5 DEF AnswerEnds, Becomes
<1>3. CASE HandleOnboarding(r)
  <2> DEFINE new == Replied(request[r], [ok |-> TRUE, done |-> FALSE, session |-> 0,
                                         item |-> NoItem])
  <2>1. users \in 0..MaxUsers /\ users' \in 0..MaxUsers /\ users' >= users /\ users' > 0
    BY <1>3, Constants DEF HandleOnboarding, IInv, TypeOK
  <2>2. Grown
    BY <1>3, <2>1, UnchangedGrows DEF HandleOnboarding
  <2>3. [ok |-> TRUE, done |-> FALSE, session |-> 0, item |-> NoItem] \in Reply
    BY Constants DEF Reply
  <2>4. Becomes(r, new) /\ UNCHANGED pageVars
    BY <1>3, <2>3, AnswerBecomes DEF HandleOnboarding, IInv
  <2>5. new.phase = "replied" /\ new.kind = "onboarding"
    BY <1>3 DEF HandleOnboarding, Arrived, Replied
  <2> HIDE DEF new
  <2>6. Sound(new, sessions', users')
    BY <2>1, <2>5 DEF Sound
  <2> QED
    BY <2>2, <2>4, <2>6, RequestsStaySound DEF Becomes
<1>4. ASSUME Grown, Answer(r, Failed)
      PROVE  RequestsSound' /\ request' \in [Requests -> Request]
  <2> DEFINE new == Replied(request[r], Failed)
  <2>1. Becomes(r, new)
    BY <1>4, FailedBecomes DEF IInv
  <2>2. new.phase = "replied" /\ ~new.reply.ok
    BY Constants DEF Replied
  <2> HIDE DEF new
  <2>3. Sound(new, sessions', users')
    BY <2>2, QuietIsSound
  <2> QED
    BY <1>4, <2>1, <2>3, RequestsStaySound DEF Becomes
<1>5. CASE RequestFails(r) \/ ReplyLost(r)
  <2>1. UNCHANGED serverVars /\ UNCHANGED pageVars /\ Answer(r, Failed)
    BY <1>5 DEF RequestFails, ReplyLost
  <2>2. Grown
    BY <2>1, Constants, UnchangedGrows DEF serverVars, IInv, TypeOK
  <2> QED
    BY <1>4, <2>1, <2>2
<1>6. CASE ListFails(r)
  <2>1. UNCHANGED users /\ UNCHANGED pageVars /\ Answer(r, Failed)
    BY <1>6 DEF ListFails
  <2>2. Grown
    BY <1>6, <2>1, ListFailsEffect, AnswerGrows
  <2> QED
    BY <1>4, <2>1, <2>2
<1> QED
  BY <1>1, <1>2, <1>3, <1>5, <1>6 DEF Serve

\* The page frees or sends a request and leaves the server alone.
LEMMA PageSends ==
    ASSUME IInv, NEW r \in Requests, Receive(r) \/ Click(r)
    PROVE  /\ Grown /\ RequestsSound' /\ UNCHANGED serverVars
           /\ request' \in [Requests -> Request]
<1>1. UNCHANGED serverVars
  BY DEF Receive, Click, Started, NextItem, TestDone, ShowError, Saved, SaveFailed,
         ClickStart, ClickSkip, Choose
<1>2. Grown
  BY <1>1, Constants, UnchangedGrows DEF serverVars, IInv, TypeOK
<1>3. CASE Free(r)
  <2>1. Becomes(r, NoRequest)
    BY <1>3, FreeBecomes DEF IInv
  <2>2. Sound(NoRequest, sessions', users')
    BY Constants, QuietIsSound
  <2> QED
    BY <1>1, <1>2, <2>1, <2>2, RequestsStaySound DEF Becomes
<1>4. ASSUME NEW kind \in {"start", "onboarding"},
             request' = [request EXCEPT ![r] = Sent(kind, 0, NoItem)]
      PROVE  RequestsSound' /\ request' \in [Requests -> Request]
  <2> DEFINE new == SentOff(kind, 0, NoItem)
  <2>1. Becomes(r, new)
    <3>1. 0 \in 0..MaxSessions /\ kind \in {"start", "answer", "onboarding"}
      BY <1>4, Constants
    <3> QED
      BY <1>4, <3>1, SentBecomes DEF IInv
  <2>2. new.phase = "sent" /\ new.kind # "answer"
    BY DEF SentOff
  <2> HIDE DEF new
  <2>3. Sound(new, sessions', users')
    BY <2>2, QuietIsSound
  <2> QED
    BY <1>2, <2>1, <2>3, RequestsStaySound DEF Becomes
<1>5. CASE Choose(r)
  <2> DEFINE new == SentOff("answer", sessionId, item)
  <2>1. /\ sessionId \in DOMAIN sessions /\ item \in Items
        /\ sessionId \in 0..MaxSessions /\ item \in Items \cup {NoItem}
    BY <1>5 DEF Choose, IInv, PageSound, TypeOK
  <2>2. Becomes(r, new)
    BY <1>5, <2>1, SentBecomes DEF Choose, IInv
  <2>3. new.phase = "sent" /\ new.session = sessionId /\ new.item = item
    BY DEF SentOff
  <2> HIDE DEF new
  <2>4. Sound(new, sessions', users')
    BY <1>1, <2>1, <2>3 DEF Sound, serverVars
  <2> QED
    BY <1>1, <1>2, <2>2, <2>4, RequestsStaySound DEF Becomes
<1>6. CASE Receive(r) \/ ClickStart(r) \/ ClickSkip(r)
  <2>1. \/ Free(r)
        \/ \E kind \in {"start", "onboarding"} :
             request' = [request EXCEPT ![r] = Sent(kind, 0, NoItem)]
    BY <1>6 DEF Receive, Started, NextItem, TestDone, ShowError, Saved, SaveFailed,
                ClickStart, ClickSkip, Finalize
  <2> QED
    BY <1>1, <1>2, <1>3, <1>4, <2>1
<1> QED
  BY <1>5, <1>6 DEF Click

-----------------------------------------------------------------------------
\* What the page shows.
LEMMA PageStays ==
    ASSUME IInv, Grown, UNCHANGED pageVars
    PROVE  PageSound' /\ step' \in {"intro", "placement", "submitting", "done"}
           /\ sessionId' \in 0..MaxSessions /\ item' \in Items \cup {NoItem}
<1>1. users \in Nat /\ users' \in Nat /\ users' >= users
  BY Constants DEF Grown, IInv, TypeOK
<1>2. /\ step' = step /\ sessionId' = sessionId /\ item' = item
      /\ step \in {"intro", "placement", "submitting", "done"}
      /\ sessionId \in 0..MaxSessions /\ item \in Items \cup {NoItem} /\ PageSound
  BY DEF pageVars, IInv, TypeOK
<1>3. \A s \in DOMAIN sessions :
        s \in DOMAIN sessions' /\ ToSet(sessions[s].Asked) \subseteq ToSet(sessions'[s].Asked)
  BY DEF Grown
<1>4. PageSound'
  <2>1. item # NoItem => \E sid \in DOMAIN sessions' : item \in ToSet(sessions'[sid].Asked)
    BY <1>2, <1>3 DEF PageSound, Asked
  <2>2. item # NoItem => sessionId \in DOMAIN sessions'
    BY <1>2, <1>3 DEF PageSound
  <2> QED
    BY <1>1, <1>2, <2>1, <2>2 DEF PageSound, Asked
<1> QED
  BY <1>2, <1>4

\* The server does not touch the page.
LEMMA ServeShown ==
    ASSUME IInv, NEW r \in Requests,
           Serve(r) \/ RequestFails(r) \/ ListFails(r) \/ ReplyLost(r)
    PROVE  AnswersShown'
<1>1. item' = item
  BY ServeSound DEF pageVars
<1>2. \A s \in Requests : request'[s].kind = request[s].kind
  <2>1. ASSUME NEW reply, Answer(r, reply)
        PROVE  \A s \in Requests : request'[s].kind = request[s].kind
    BY <2>1 DEF Answer, IInv, TypeOK, Request
  <2>2. \E reply : Answer(r, reply)
    BY Zenon DEF Serve, HandleStart, HandleAnswer, HandleOnboarding, RequestFails, ListFails,
           ReplyLost
  <2> QED
    BY <2>1, <2>2
<1> QED
  BY <1>1, <1>2 DEF IInv, AnswersShown

\* What a reply asks next is an item of its session.
LEMMA ReplyAsks ==
    ASSUME IInv, NEW r \in Requests,
           request[r].phase = "replied", request[r].reply.ok,
           request[r].kind \in {"start", "answer"}, ~request[r].reply.done
    PROVE  /\ request[r].reply.session \in DOMAIN sessions
           /\ request[r].reply.item \in ToSet(Asked(request[r].reply.session))
           /\ request[r].reply.item \in Items /\ request[r].reply.item # NoItem
<1>1. /\ request[r].reply.session \in DOMAIN sessions
      /\ request[r].reply.item \in ToSet(Asked(request[r].reply.session))
  BY DEF IInv, RequestsSound, Sound, Asked
<1>2. Asked(request[r].reply.session) \in Seq(Items)
  BY <1>1, SessionType
<1>3. request[r].reply.item \in Items
  BY <1>1, <1>2 DEF ToSet
<1> QED
  BY <1>1, <1>3, Constants

\* What the page shows was asked by some session, also after a step of its own.
LEMMA PageMoves ==
    ASSUME IInv, NEW r \in Requests, Receive(r) \/ Click(r)
    PROVE  PageSound' /\ step' \in {"intro", "placement", "submitting", "done"}
           /\ sessionId' \in 0..MaxSessions /\ item' \in Items \cup {NoItem}
<1>1. UNCHANGED serverVars /\ Grown
  BY PageSends
<1>2. /\ request[r] \in Request /\ request[r].reply \in Reply
      /\ Sound(request[r], sessions, users)
  BY DEF IInv, TypeOK, RequestsSound, Request
<1>3. /\ request[r].reply.session \in 0..MaxSessions
      /\ request[r].reply.item \in Items \cup {NoItem}
  BY <1>2 DEF Reply
<1>4. CASE UNCHANGED pageVars
  BY <1>1, <1>4, PageStays
<1>5. CASE UNCHANGED <<sessionId, item>> /\ step' \in {"intro", "submitting"}
  BY <1>1, <1>5 DEF IInv, TypeOK, PageSound, serverVars, Asked
<1>6. CASE Saved(r)
  <2>1. users > 0
    BY <1>2, <1>6 DEF Saved, Received, Sound
  <2> QED
    BY <1>1, <1>6, <2>1 DEF Saved, IInv, TypeOK, PageSound, serverVars, Asked
<1>7. ASSUME request[r].phase = "replied", request[r].reply.ok,
             request[r].kind \in {"start", "answer"}, ~request[r].reply.done
      PROVE  /\ request[r].reply.session \in DOMAIN sessions
             /\ request[r].reply.item \in ToSet(Asked(request[r].reply.session))
             /\ request[r].reply.item \in Items /\ request[r].reply.item # NoItem
  BY <1>7, ReplyAsks
<1>8. CASE Started(r)
  <2>1. /\ request[r].phase = "replied" /\ request[r].reply.ok
        /\ request[r].kind = "start" /\ ~request[r].reply.done
    BY <1>2, <1>8 DEF Started, Received, Sound
  <2> QED
    BY <1>1, <1>3, <1>7, <1>8, <2>1 DEF Started, PageSound, serverVars, Asked
<1>9. CASE NextItem(r)
  <2>1. /\ request[r].phase = "replied" /\ request[r].reply.ok
        /\ request[r].kind = "answer" /\ ~request[r].reply.done
    BY <1>9 DEF NextItem, Received
  <2>2. /\ item' = request[r].reply.item /\ step' = step /\ sessionId' = sessionId
        /\ sessions' = sessions /\ users' = users
    BY <1>1, <1>9 DEF NextItem, serverVars
  <2>3. \E sid \in DOMAIN sessions : item' \in ToSet(sessions[sid].Asked)
    BY <1>7, <2>1, <2>2 DEF Asked
  <2>4. sessionId \in DOMAIN sessions
    BY <2>1 DEF IInv, AnswersShown, PageSound
  <2> QED
    BY <1>3, <1>7, <2>1, <2>2, <2>3, <2>4 DEF PageSound, Asked, IInv, TypeOK
<1> QED
  BY <1>4, <1>5, <1>6, <1>8, <1>9
  DEF Receive, Click, TestDone, ShowError, SaveFailed, ClickStart, ClickSkip, Choose,
      Finalize, pageVars

\* The page sends an answer only to an item, and goes on showing one.
LEMMA MovesShown ==
    ASSUME IInv, NEW r \in Requests, Receive(r) \/ Click(r)
    PROVE  AnswersShown'
<1>1. \A s \in Requests \ {r} : request'[s] = request[s]
  BY DEF Receive, Click, Started, NextItem, TestDone, ShowError, Saved, SaveFailed,
         ClickStart, ClickSkip, Choose, Finalize, Free, IInv, TypeOK
<1>2. item # NoItem => item' # NoItem
  BY ReplyAsks
  DEF IInv, RequestsSound, Receive, Click, Started, NextItem, TestDone, ShowError, Saved,
    SaveFailed, ClickStart, ClickSkip, Choose, Finalize, pageVars, Received, Sound
<1>3. request'[r].kind = "answer" => item' # NoItem
  <2>1. CASE Choose(r)
    BY <2>1 DEF Choose, pageVars
  <2>2. CASE Free(r)
    BY <2>2, Constants DEF Free, IInv, TypeOK
  <2>3. ASSUME NEW kind \in {"start", "onboarding"},
               request' = [request EXCEPT ![r] = Sent(kind, 0, NoItem)]
        PROVE  request'[r].kind # "answer"
    <3>1. request'[r].kind = kind
      BY <2>3 DEF Sent, NoRequest, IInv, TypeOK
    <3> QED
      BY <3>1
  <2> QED
    BY <2>1, <2>2, <2>3
    DEF Receive, Click, Started, NextItem, TestDone, ShowError, Saved, SaveFailed,
        ClickStart, ClickSkip, Finalize
<1> QED
  BY <1>1, <1>2, <1>3 DEF IInv, AnswersShown

-----------------------------------------------------------------------------
\* No session asks an item twice.
LEMMA RecordedAsksOnce ==
    ASSUME IInv, NEW sid, NEW i \in Items, NEW asked, Recorded(sid, asked, i),
           \/ asked = Asked(sid)
           \/ \E next \in Items \ ToSet(Asked(sid)) : asked = Append(Asked(sid), next)
    PROVE  AsksEachItemOnce'
<1>1. /\ sid \in DOMAIN sessions
      /\ Asked(sid) \in Seq(Items) /\ Resps(sid) \in Seq(Items)
      /\ IsInjective(Asked(sid)) /\ Len(Asked(sid)) <= Len(Resps(sid)) + 1
  BY SessionType DEF Recorded, IInv, AsksEachItemOnce, Asked, Resps
<1>2. Len(Append(Resps(sid), i)) = Len(Resps(sid)) + 1 /\ Len(Resps(sid)) \in Nat
      /\ Len(Asked(sid)) \in Nat
  BY <1>1
<1>3. IsInjective(asked) /\ Len(asked) <= Len(Asked(sid)) + 1
  <2>1. ASSUME NEW next \in Items \ ToSet(Asked(sid))
        PROVE  /\ IsInjective(Append(Asked(sid), next))
               /\ Len(Append(Asked(sid), next)) = Len(Asked(sid)) + 1
    BY <1>1, <2>1, AppendedSet, Appended
  <2>2. CASE asked = Asked(sid)
    BY <1>1, <1>2, <2>2
  <2>3. CASE \E next \in Items \ ToSet(Asked(sid)) : asked = Append(Asked(sid), next)
    BY <1>2, <2>1, <2>3
  <2> QED
    BY <2>2, <2>3
<1>4. SUFFICES ASSUME NEW s \in DOMAIN sessions'
               PROVE  /\ IsInjective(sessions'[s].Asked)
                      /\ Len(sessions'[s].Asked) <= Len(sessions'[s].Resps) + 1
  BY DEF AsksEachItemOnce
<1>5. s \in DOMAIN sessions
  BY <1>4 DEF Recorded, IInv, TypeOK
<1>6. CASE s = sid
  <2>1. sessions'[s].Asked = asked /\ sessions'[s].Resps = Append(Resps(sid), i)
    BY <1>6 DEF Recorded, Resps
  <2>2. Len(asked) \in Nat
    BY <1>1, <1>2, <1>3, Appended
  <2> QED
    BY <1>1, <1>2, <1>3, <2>1, <2>2
<1>7. CASE s # sid
  BY <1>5, <1>7 DEF Recorded, IInv, AsksEachItemOnce
<1> QED
  BY <1>6, <1>7

\* The first question is not asked twice.
LEMMA StartAsksOnce ==
    ASSUME IInv, NEW r \in Requests, NEW first \in Items, StartEffect(r, first)
    PROVE  AsksEachItemOnce'
<1>1. SUFFICES ASSUME NEW s \in DOMAIN sessions'
               PROVE  /\ IsInjective(sessions'[s].Asked)
                      /\ Len(sessions'[s].Asked) <= Len(sessions'[s].Resps) + 1
  BY DEF AsksEachItemOnce
<1>2. s \in DOMAIN sessions \/ s = Len(sessions) + 1
  BY <1>1 DEF StartEffect, IInv, TypeOK
<1>3. CASE s \in DOMAIN sessions
  BY <1>3 DEF StartEffect, IInv, AsksEachItemOnce
<1>4. CASE s = Len(sessions) + 1
  <2>1. sessions'[s].Asked = <<first>> /\ sessions'[s].Resps = <<>>
    BY <1>4 DEF StartEffect
  <2>2. IsInjective(<<first>>)
    BY DEF IsInjective
  <2> QED
    BY <2>1, <2>2
<1> QED
  BY <1>2, <1>3, <1>4

\* Whatever becomes of an answer, no item is asked twice.
LEMMA AnswerAsksOnce ==
    ASSUME IInv, NEW r \in Requests, Arrived(r, "answer"),
           AnswerEnds(r) \/ AnswerUnheard(r) \/ \E next \in Items : AnswerGoesOn(r, next)
    PROVE  AsksEachItemOnce'
<1>1. request[r].item \in Items
  BY AnswerIsSound
<1>2. CASE AnswerEnds(r) \/ AnswerUnheard(r)
  BY <1>1, <1>2, RecordedAsksOnce DEF AnswerEnds, AnswerUnheard
<1>3. ASSUME NEW next \in Items, AnswerGoesOn(r, next)
      PROVE  AsksEachItemOnce'
  BY <1>1, <1>3, RecordedAsksOnce DEF AnswerGoesOn
<1> QED
  BY <1>2, <1>3

\* No step asks an item twice.
LEMMA AsksStep ==
    ASSUME IInv, NEW r \in Requests, Acts(r) \/ Breaks(r)
    PROVE  AsksEachItemOnce'
<1>1. CASE HandleStart(r)
  BY <1>1, HandleStartEffect, StartAsksOnce
<1>2. CASE HandleAnswer(r)
  BY <1>2, HandleAnswerEffect, AnswerAsksOnce DEF HandleAnswer
<1>3. CASE ListFails(r)
  BY <1>3, ListFailsEffect, AnswerAsksOnce DEF ListFails
<1>4. CASE UNCHANGED sessions
  BY <1>4 DEF IInv, AsksEachItemOnce
<1>5. CASE Receive(r) \/ Click(r)
  BY <1>4, <1>5, PageSends DEF serverVars
<1>6. CASE HandleOnboarding(r) \/ RequestFails(r) \/ ReplyLost(r)
  BY <1>4, <1>6 DEF HandleOnboarding, RequestFails, ReplyLost, serverVars
<1> QED
  BY <1>1, <1>2, <1>3, <1>5, <1>6 DEF Acts, Breaks, Serve

-----------------------------------------------------------------------------
\* The learner who waits.  In calm one request at most is under way, so the
\* one that moves is alone before and after its step.
LEMMA CalmBefore ==
    ASSUME IInv, ~disturbed, NEW r \in Requests, ~Idle(r)
    PROVE  /\ \A s \in Requests \ {r} : Idle(s)
           /\ CalmRequest(request[r])
           /\ AnswersFollowQuestions /\ StopsAtMaxItems
           /\ step # "done" /\ ~Received(r, "onboarding", TRUE) => users = 0
<1>1. /\ CalmRequest(request[r]) /\ AnswersFollowQuestions /\ StopsAtMaxItems
      /\ CalmUsers /\ ~Overlap
  BY DEF IInv, CalmPage
<1>2. \A s \in Requests \ {r} : Idle(s)
  BY <1>1 DEF Overlap
<1>3. ASSUME step # "done", ~Received(r, "onboarding", TRUE)
      PROVE  users = 0
  BY <1>1, <1>2, <1>3 DEF CalmUsers, Idle, Received
<1> QED
  BY <1>1, <1>2, <1>3

\* With no request under way the session waits for the item shown.
LEMMA CalmIdle ==
    ASSUME IInv, ~disturbed, \A r \in Requests : Idle(r)
    PROVE  /\ step = "placement" => Awaits(sessions, sessionId, item)
           /\ AnswersFollowQuestions /\ StopsAtMaxItems
           /\ step # "done" => users = 0
BY DEF IInv, CalmPage, CalmUsers, Idle, Received

\* The state after a step of r in which the others are idle.
LEMMA CalmAfter ==
    ASSUME NEW r \in Requests, \A s \in Requests \ {r} : request'[s].phase = "idle",
           AnswersFollowQuestions', StopsAtMaxItems', CalmUsers',
           request'[r].phase = "idle" =>
             step' # "submitting"
             /\ (step' = "placement" => Awaits(sessions', sessionId', item')),
           request'[r].phase # "idle" => CalmRequest(request[r])'
    PROVE  CalmPage'
<1>1. ~Overlap'
  BY DEF Overlap, Idle
<1>2. \A s \in Requests : ~Idle(s)' => CalmRequest(request[s])'
  BY DEF Idle
<1>3. (\A s \in Requests : Idle(s)') => request'[r].phase = "idle"
  BY DEF Idle
<1> QED
  BY <1>1, <1>2, <1>3 DEF CalmPage

\* The awaited answer keeps the answers in the order of the questions.
LEMMA AwaitedAnswer ==
    ASSUME IInv, AnswersFollowQuestions, StopsAtMaxItems,
           NEW sid, NEW i \in Items, Awaits(sessions, sid, i), NEW asked \in Seq(Items),
           Recorded(sid, asked, i), Len(asked) >= Len(Asked(sid)),
           \A k \in 1..Len(Asked(sid)) : asked[k] = Asked(sid)[k]
    PROVE  AnswersFollowQuestions' /\ StopsAtMaxItems'
<1> DEFINE a == Asked(sid)
           b == Resps(sid)
           c == Append(b, i)
<1>1. sid \in DOMAIN sessions /\ a \in Seq(Items) /\ b \in Seq(Items)
  BY SessionType DEF Awaits
<1>2. /\ IsPrefix(b, a) /\ Len(a) = Len(b) + 1 /\ a[Len(a)] = i
      /\ Len(b) < maxItems
  BY <1>1 DEF Awaits, AnswersFollowQuestions, Asked, Resps
<1>3. sessions'[sid].Asked = asked /\ sessions'[sid].Resps = c
  BY DEF Recorded, Resps
<1> HIDE DEF a, b
<1>4. /\ Len(b) \in Nat /\ c \in Seq(Items) /\ Len(c) = Len(b) + 1
      /\ \A k \in 1..Len(b) : c[k] = b[k]
      /\ c[Len(b) + 1] = i
  BY <1>1, Appended
<1> HIDE DEF c
<1>5. \A k \in 1..Len(b) : b[k] = a[k]
  BY <1>1, <1>2, PrefixMeans
<1>6. Len(asked) \in Nat /\ Len(asked) >= Len(a) /\ \A k \in 1..Len(a) : asked[k] = a[k]
  BY DEF a
<1>7. IsPrefix(c, asked) /\ Len(c) <= maxItems
  <2>1. \A k \in 1..Len(c) : c[k] = asked[k]
    BY <1>2, <1>4, <1>5, <1>6
  <2>2. Len(c) <= Len(asked) /\ Len(c) <= maxItems
    BY <1>2, <1>4, <1>6, Constants
  <2> QED
    BY <1>4, <2>1, <2>2, PrefixMeans
<1>8. DOMAIN sessions' = DOMAIN sessions
  BY DEF Recorded, IInv, TypeOK
<1> QED
  BY <1>3, <1>7, <1>8 DEF Recorded, AnswersFollowQuestions, StopsAtMaxItems

\* What holds on both sides of a calm step of r.
LEMMA CalmAround ==
    ASSUME IInv, ~disturbed, ~Overlap', NEW r \in Requests, Acts(r)
    PROVE  /\ \A s \in Requests \ {r} : Idle(s) /\ request'[s].phase = "idle"
           /\ AnswersFollowQuestions /\ StopsAtMaxItems
<1>1. \A s \in Requests \ {r} : request'[s] = request[s]
  BY DEF Acts, Serve, HandleStart, HandleAnswer, HandleOnboarding, RequestFails,
         Receive, Click, Started, NextItem, TestDone, ShowError, Saved, SaveFailed,
         ClickStart, ClickSkip, Choose, Finalize, Free, Answer, IInv, TypeOK
<1>2. CASE ~Idle(r)
  BY <1>1, <1>2, CalmBefore DEF Idle
<1>3. CASE Idle(r)
  <2>1. Click(r)
    BY <1>3 DEF Acts, Serve, HandleStart, HandleAnswer, HandleOnboarding, RequestFails,
      Receive, Started, NextItem, TestDone, ShowError, Saved, SaveFailed, Received,
      Arrived, Idle
  <2>2. request'[r].phase = "sent"
    BY <2>1 DEF Click, ClickStart, ClickSkip, Choose, Finalize, Sent, NoRequest, IInv, TypeOK
  <2>3. \A s \in Requests \ {r} : Idle(s)
    BY <1>1, <2>2 DEF Overlap, Idle
  <2>4. AnswersFollowQuestions /\ StopsAtMaxItems
    BY DEF IInv, CalmPage
  <2> QED
    BY <1>1, <2>3, <2>4 DEF Idle
<1> QED
  BY <1>2, <1>3

\* Each step of a calm learner.
LEMMA CalmServe ==
    ASSUME IInv, ~disturbed, NEW r \in Requests, Serve(r),
           \A s \in Requests \ {r} : request'[s].phase = "idle"
    PROVE  CalmPage'
<1> DEFINE q == request[r]
<1>1. /\ CalmRequest(q) /\ AnswersFollowQuestions /\ StopsAtMaxItems
      /\ UNCHANGED pageVars /\ q.phase = "sent"
  BY CalmBefore
  DEF Serve, HandleStart, HandleAnswer, HandleOnboarding, Arrived, Idle
<1>2. step # "done" /\ users = 0
  BY <1>1, CalmBefore
  DEF Serve, HandleStart, HandleAnswer, HandleOnboarding, Arrived, Idle, CalmRequest, Received
<1>3. CASE HandleStart(r)
  <2>1. PICK first \in Items : StartEffect(r, first)
    BY <1>3, HandleStartEffect
  <2> DEFINE n   == Len(sessions) + 1
             new == Replied(q, [ok |-> TRUE, done |-> FALSE, session |-> n, item |-> first])
  <2>2. /\ sessions \in Seq(Session) /\ sessions' \in Seq(Session)
        /\ Len(sessions') = n /\ DOMAIN sessions' = DOMAIN sessions \cup {n}
        /\ sessions'[n].Asked = <<first>> /\ sessions'[n].Resps = <<>>
        /\ \A s \in DOMAIN sessions : sessions'[s] = sessions[s]
        /\ request'[r] = new
    BY <2>1 DEF StartEffect, Becomes, IInv, TypeOK
  <2>3. IsPrefix(<<>>, <<first>>) /\ Len(<<>>) <= maxItems
    <3> DEFINE none == <<>>
               one  == <<first>>
    <3>1. none \in Seq(Items) /\ one \in Seq(Items) /\ Len(none) = 0 /\ Len(one) = 1
      OBVIOUS
    <3> HIDE DEF none, one
    <3>2. Len(none) <= Len(one) /\ Len(none) <= maxItems
      BY <3>1, Constants
    <3>3. \A i \in 1..Len(none) : none[i] = one[i]
      BY <3>1
    <3>4. IsPrefix(none, one)
      BY <3>1, <3>2, <3>3, PrefixMeans
    <3> QED
      BY <3>2, <3>4 DEF none, one
  <2>4. AnswersFollowQuestions' /\ StopsAtMaxItems'
    BY <1>1, <2>2, <2>3 DEF AnswersFollowQuestions, StopsAtMaxItems
  <2>5. Awaits(sessions', n, first)
    BY <2>2, Constants DEF Awaits
  <2>6. q.kind = "start" /\ step = "intro" /\ step' = step /\ users' = 0
    BY <1>1, <1>2, <1>3 DEF HandleStart, Arrived, CalmRequest, pageVars
  <2>7. /\ new.kind = "start" /\ new.phase = "replied"
        /\ new.reply.session = n /\ new.reply.item = first
    BY <2>6 DEF Replied
  <2> HIDE DEF new, n
  <2>8. CalmRequest(request[r])' /\ request'[r].phase # "idle" /\ CalmUsers'
    BY <2>2, <2>5, <2>6, <2>7 DEF CalmRequest, CalmUsers
  <2> QED
    BY <2>4, <2>8, CalmAfter
<1>4. CASE HandleAnswer(r)
  <2>1. /\ q.kind = "answer" /\ step = "placement" /\ q.session = sessionId /\ q.item = item
        /\ Awaits(sessions, sessionId, item)
    BY <1>1, <1>4 DEF HandleAnswer, Arrived, CalmRequest
  <2>2. /\ item \in Items /\ sessionId \in DOMAIN sessions /\ Asked(sessionId) \in Seq(Items)
    <3>1. q.item \in Items /\ q.session \in DOMAIN sessions
      BY <1>4, AnswerIsSound DEF HandleAnswer
    <3> QED
      BY <2>1, <3>1, SessionType
  <2>3. step' = step /\ sessionId' = sessionId /\ item' = item /\ users' = 0
    BY <1>1, <1>2, <1>4 DEF HandleAnswer, pageVars
  <2>4. CalmUsers'
    BY <2>3 DEF CalmUsers
  <2>5. CASE AnswerEnds(r)
    <3> DEFINE new == Replied(q, DoneReply(sessionId))
    <3>1. Recorded(sessionId, Asked(sessionId), item) /\ request'[r] = new
      BY <2>1, <2>5 DEF AnswerEnds, Becomes
    <3>2. AnswersFollowQuestions' /\ StopsAtMaxItems'
      BY <1>1, <2>1, <2>2, <3>1, AwaitedAnswer
    <3>3. /\ new.kind = "answer" /\ new.session = sessionId /\ new.item = item
          /\ new.phase = "replied" /\ new.reply.ok /\ new.reply.done
      BY <2>1 DEF Replied, DoneReply
    <3> HIDE DEF new
    <3>4. CalmRequest(request[r])' /\ request'[r].phase # "idle"
      BY <2>1, <2>3, <3>1, <3>3 DEF CalmRequest
    <3> QED
      BY <2>4, <3>2, <3>4, CalmAfter
  <2>6. ASSUME NEW next \in Items, AnswerGoesOn(r, next)
        PROVE  CalmPage'
    <3> DEFINE new == Replied(q, [ok |-> TRUE, done |-> FALSE, session |-> sessionId,
                                  item |-> next])
               asked == Append(Asked(sessionId), next)
    <3>1. /\ Recorded(sessionId, asked, item) /\ request'[r] = new
          /\ Len(Resps(sessionId)) + 1 < maxItems
      BY <2>1, <2>6 DEF AnswerGoesOn, Becomes
    <3>2. /\ asked \in Seq(Items) /\ Len(asked) = Len(Asked(sessionId)) + 1
          /\ Len(Asked(sessionId)) \in Nat
          /\ asked[Len(Asked(sessionId)) + 1] = next
          /\ \A k \in 1..Len(Asked(sessionId)) : asked[k] = Asked(sessionId)[k]
      BY <2>2, Appended
    <3>3. /\ new.kind = "answer" /\ new.session = sessionId /\ new.item = item
          /\ new.phase = "replied" /\ new.reply.ok /\ new.reply.item = next
      BY <2>1 DEF Replied
    <3> HIDE DEF new, asked
    <3>4. AnswersFollowQuestions' /\ StopsAtMaxItems'
      BY <1>1, <2>1, <2>2, <3>1, <3>2, AwaitedAnswer
    <3>5. Awaits(sessions', sessionId, next)
      <4>1. /\ sessionId \in DOMAIN sessions' /\ sessions'[sessionId].Asked = asked
            /\ sessions'[sessionId].Resps = Append(Resps(sessionId), item)
        BY <3>1 DEF Recorded, IInv, TypeOK, Resps
      <4>2. /\ Len(Append(Resps(sessionId), item)) = Len(Resps(sessionId)) + 1
            /\ Len(Asked(sessionId)) = Len(Resps(sessionId)) + 1
            /\ Len(Resps(sessionId)) \in Nat
        BY <2>1, <2>2, SessionType DEF Awaits, Asked, Resps
      <4> QED
        BY <3>1, <3>2, <4>1, <4>2, Constants DEF Awaits
    <3>6. CalmRequest(request[r])' /\ request'[r].phase # "idle"
      BY <2>1, <2>3, <3>1, <3>3, <3>5 DEF CalmRequest
    <3> QED
      BY <2>4, <3>4, <3>6, CalmAfter
  <2> QED
    BY <1>4, <2>5, <2>6, HandleAnswerEffect
<1>5. CASE HandleOnboarding(r)
  <2> DEFINE new == Replied(q, [ok |-> TRUE, done |-> FALSE, session |-> 0, item |-> NoItem])
  <2>1. /\ q.kind = "onboarding" /\ step = "submitting" /\ step' = step /\ users' = 1
        /\ sessions' = sessions
    BY <1>1, <1>2, <1>5 DEF HandleOnboarding, Arrived, CalmRequest, pageVars
  <2>2. [ok |-> TRUE, done |-> FALSE, session |-> 0, item |-> NoItem] \in Reply
    BY Constants DEF Reply
  <2>3. request'[r] = new
    BY <1>5, <2>2, AnswerBecomes DEF HandleOnboarding, IInv, Becomes
  <2>4. new.kind = "onboarding" /\ new.phase = "replied" /\ new.reply.ok = TRUE
    BY <2>1 DEF Replied
  <2> HIDE DEF new
  <2>5. CalmRequest(request[r])' /\ request'[r].phase # "idle"
    BY <2>1, <2>3, <2>4 DEF CalmRequest
  <2>6. CalmUsers'
    BY <2>1, <2>3, <2>4 DEF CalmUsers, Received
  <2>7. AnswersFollowQuestions' /\ StopsAtMaxItems'
    BY <1>1, <2>1 DEF AnswersFollowQuestions, StopsAtMaxItems
  <2> QED
    BY <2>5, <2>6, <2>7, CalmAfter
<1> QED
  BY <1>3, <1>4, <1>5 DEF Serve

\* A request that fails leaves the learner where they were.
LEMMA CalmFails ==
    ASSUME IInv, ~disturbed, NEW r \in Requests, RequestFails(r),
           \A s \in Requests \ {r} : request'[s].phase = "idle"
    PROVE  CalmPage'
<1> DEFINE q   == request[r]
           new == Replied(q, Failed)
<1>1. q.phase = "sent" /\ UNCHANGED serverVars /\ UNCHANGED pageVars /\ request'[r] = new
  BY FailedBecomes DEF RequestFails, IInv, Becomes
<1>2. CalmRequest(q) /\ AnswersFollowQuestions /\ StopsAtMaxItems
  BY <1>1, CalmBefore DEF Idle
<1>3. step # "done" /\ users = 0
  BY <1>1, <1>2, CalmBefore DEF Idle, Received, CalmRequest
<1>4. /\ new.kind = q.kind /\ new.session = q.session /\ new.item = q.item
      /\ new.phase = "replied" /\ ~new.reply.ok
  BY Constants DEF Replied
<1> HIDE DEF new
<1>5. CalmRequest(request[r])' /\ request'[r].phase # "idle"
  BY <1>1, <1>2, <1>4 DEF CalmRequest, serverVars, pageVars
<1>6. AnswersFollowQuestions' /\ StopsAtMaxItems' /\ CalmUsers'
  BY <1>1, <1>2, <1>3 DEF AnswersFollowQuestions, StopsAtMaxItems, CalmUsers, serverVars
<1> QED
  BY <1>5, <1>6, CalmAfter

\* The page and the session agree after a reply.
LEMMA CalmReceives ==
    ASSUME IInv, ~disturbed, NEW r \in Requests, Receive(r),
           \A s \in Requests \ {r} : request'[s].phase = "idle"
    PROVE  CalmPage'
<1> DEFINE q == request[r]
<1>1. q.phase = "replied"
  BY DEF Receive, Started, NextItem, TestDone, ShowError, Saved, SaveFailed, Received
<1>2. /\ CalmRequest(q) /\ AnswersFollowQuestions /\ StopsAtMaxItems
      /\ UNCHANGED serverVars /\ sessions' = sessions /\ users' = users
      /\ Sound(q, sessions, users)
  BY <1>1, CalmBefore, PageSends DEF Idle, serverVars, IInv, RequestsSound
<1>3. AnswersFollowQuestions' /\ StopsAtMaxItems'
  BY <1>2 DEF AnswersFollowQuestions, StopsAtMaxItems
<1>4. ~(q.kind = "onboarding" /\ q.reply.ok = TRUE) => users = 0
  BY <1>1, <1>2, CalmBefore DEF Idle, Received, CalmRequest
<1>5. Free(r) => request'[r].phase = "idle"
  BY Constants DEF Free, IInv, TypeOK
<1>6. CASE Started(r)
  <2>1. q.kind = "start" /\ q.reply.ok = TRUE
    BY <1>6 DEF Started, Received
  <2>2. Awaits(sessions', sessionId', item') /\ step' = "placement" /\ users' = 0
    BY <1>1, <1>2, <1>4, <1>6, <2>1 DEF Started, CalmRequest
  <2> QED
    BY <1>3, <1>5, <1>6, <2>2, CalmAfter DEF Started, CalmUsers
<1>7. CASE NextItem(r)
  <2>1. q.kind = "answer" /\ q.reply.ok = TRUE /\ ~q.reply.done
    BY <1>7 DEF NextItem, Received
  <2>2. Awaits(sessions', sessionId', item') /\ step' = "placement" /\ users' = 0
    BY <1>1, <1>2, <1>4, <1>7, <2>1 DEF NextItem, CalmRequest
  <2> QED
    BY <1>3, <1>5, <1>7, <2>2, CalmAfter DEF NextItem, CalmUsers
<1>8. CASE TestDone(r)
  <2>1. users' = 0 /\ step' = "submitting"
    BY <1>2, <1>4, <1>8 DEF TestDone, Received, Finalize
  <2>2. request'[r].kind = "onboarding" /\ request'[r].phase = "sent"
    BY <1>8 DEF TestDone, Finalize, Sent, NoRequest, IInv, TypeOK
  <2>3. CalmRequest(request[r])' /\ request'[r].phase # "idle" /\ CalmUsers'
    BY <2>1, <2>2 DEF CalmRequest, CalmUsers
  <2> QED
    BY <1>3, <2>3, CalmAfter
<1>9. CASE ShowError(r)
  <2>1. q.kind \in {"start", "answer"} /\ q.reply.ok = FALSE /\ UNCHANGED pageVars
    BY <1>9 DEF ShowError, Received
  <2>2. /\ users' = 0 /\ step' = step /\ step # "submitting"
        /\ step' = "placement" => Awaits(sessions', sessionId', item')
    BY <1>1, <1>2, <1>4, <2>1 DEF CalmRequest, pageVars
  <2> QED
    BY <1>3, <1>5, <1>9, <2>2, CalmAfter DEF ShowError, CalmUsers
<1>10. CASE Saved(r)
  <2>1. step' = "done" /\ (users # 0 => users = 1)
    BY <1>10 DEF Saved, IInv, CalmPage, CalmUsers
  <2> QED
    BY <1>2, <1>3, <1>5, <1>10, <2>1, CalmAfter DEF Saved, CalmUsers
<1>11. CASE SaveFailed(r)
  <2>1. step' = "intro" /\ users' = 0
    BY <1>2, <1>4, <1>11 DEF SaveFailed, Received
  <2> QED
    BY <1>3, <1>5, <1>11, <2>1, CalmAfter DEF SaveFailed, CalmUsers
<1> QED
  BY <1>6, <1>7, <1>8, <1>9, <1>10, <1>11 DEF Receive

\* A click sends the awaited answer.
LEMMA CalmClicks ==
    ASSUME IInv, ~disturbed, NEW r \in Requests, Click(r),
           \A s \in Requests \ {r} : Idle(s) /\ request'[s].phase = "idle"
    PROVE  CalmPage'
<1>1. /\ \A s \in Requests : Idle(s)
      /\ step # "done" /\ UNCHANGED serverVars
  BY PageSends DEF Click, ClickStart, ClickSkip, Choose
<1>2. /\ step = "placement" => Awaits(sessions, sessionId, item)
      /\ AnswersFollowQuestions /\ StopsAtMaxItems /\ users = 0
  BY <1>1, CalmIdle
<1>3. AnswersFollowQuestions' /\ StopsAtMaxItems' /\ CalmUsers'
  BY <1>1, <1>2 DEF AnswersFollowQuestions, StopsAtMaxItems, CalmUsers, serverVars
<1>4. ASSUME NEW kind, NEW sid, NEW i, request' = [request EXCEPT ![r] = Sent(kind, sid, i)]
      PROVE  /\ request'[r].kind = kind /\ request'[r].phase = "sent"
             /\ request'[r].session = sid /\ request'[r].item = i
  BY <1>4 DEF Sent, NoRequest, IInv, TypeOK
<1>5. CalmRequest(request[r])' /\ request'[r].phase # "idle"
  <2>1. CASE ClickStart(r)
    BY <1>4, <2>1 DEF ClickStart, CalmRequest, pageVars
  <2>2. CASE ClickSkip(r)
    BY <1>4, <2>2 DEF ClickSkip, Finalize, CalmRequest
  <2>3. CASE Choose(r)
    BY <1>1, <1>2, <1>4, <2>3 DEF Choose, CalmRequest, pageVars, serverVars
  <2> QED
    BY <2>1, <2>2, <2>3 DEF Click
<1> QED
  BY <1>1, <1>3, <1>5, CalmAfter

-----------------------------------------------------------------------------
\* The invariant holds at the start.
LEMMA PlacementInit ==
    ASSUME Init
    PROVE  IInv
<1>1. TypeOK /\ SessionsFit
  <2>1. <<>> \in Seq(Session) /\ Len(<<>>) = 0
    OBVIOUS
  <2>2. [r \in Requests |-> NoRequest] \in [Requests -> Request]
    BY Constants
  <2>3. 0 \in 0..MaxUsers /\ 0 \in 0..MaxSessions /\ 0 <= MaxSessions
    BY Constants
  <2> QED
    BY <2>1, <2>2, <2>3, Zenon DEF Init, TypeOK, SessionsFit
<1>2. \A r \in Requests : request[r] = NoRequest /\ Idle(r)
  BY Constants DEF Init, Idle
<1>3. RequestsSound /\ AnswersShown
  BY <1>2, Constants, QuietIsSound DEF RequestsSound, AnswersShown
<1>4. AsksEachItemOnce /\ PageSound /\ AnswersFollowQuestions /\ StopsAtMaxItems
  BY DEF Init, AsksEachItemOnce, PageSound, AnswersFollowQuestions, StopsAtMaxItems
<1>5. CalmPage
  BY <1>2, <1>4 DEF Init, CalmPage, CalmUsers, Overlap
<1> QED
  BY <1>1, <1>3, <1>4, <1>5 DEF IInv

\* Every step keeps the invariant.
LEMMA PlacementStep ==
    ASSUME IInv, [Next]_vars
    PROVE  IInv'
<1>1. CASE UNCHANGED vars
  BY <1>1
  DEF vars, IInv, TypeOK, SessionsFit, AsksEachItemOnce, RequestsSound, Sound, AnswersShown,
      PageSound, Asked, Resps, CalmPage, CalmRequest, CalmUsers, Awaits, Overlap, Idle,
      Received, AnswersFollowQuestions, StopsAtMaxItems
<1>2. ASSUME NEW r \in Requests, Acts(r) \/ Breaks(r),
             disturbed' \in BOOLEAN, CalmPage'
      PROVE  IInv'
  <2>1. CASE Receive(r) \/ Click(r)
    <3>1. /\ Grown /\ RequestsSound' /\ request' \in [Requests -> Request]
          /\ PageSound' /\ AnswersShown' /\ AsksEachItemOnce'
          /\ step' \in {"intro", "placement", "submitting", "done"}
          /\ sessionId' \in 0..MaxSessions /\ item' \in Items \cup {NoItem}
      BY <1>2, <2>1, PageSends, PageMoves, MovesShown, AsksStep
    <3> QED
      BY <1>2, <3>1 DEF IInv, TypeOK, SessionsFit, Grown
  <2>2. CASE Serve(r) \/ RequestFails(r) \/ ListFails(r) \/ ReplyLost(r)
    <3>1. /\ Grown /\ RequestsSound' /\ request' \in [Requests -> Request]
          /\ UNCHANGED pageVars /\ AnswersShown' /\ AsksEachItemOnce'
      BY <1>2, <2>2, ServeSound, ServeShown, AsksStep
    <3>2. /\ PageSound' /\ step' \in {"intro", "placement", "submitting", "done"}
          /\ sessionId' \in 0..MaxSessions /\ item' \in Items \cup {NoItem}
      BY <3>1, PageStays
    <3> QED
      BY <1>2, <3>1, <3>2 DEF IInv, TypeOK, SessionsFit, Grown
  <2> QED
    BY <1>2, <2>1, <2>2 DEF Acts, Breaks
<1>3. ASSUME NEW r \in Requests, Acts(r), disturbed' = (disturbed \/ Overlap')
      PROVE  CalmPage'
  <2>1. CASE disturbed'
    BY <2>1 DEF CalmPage
  <2>2. CASE ~disturbed'
    <3>1. ~disturbed /\ ~Overlap'
      BY <1>3, <2>2
    <3>2. \A s \in Requests \ {r} : Idle(s) /\ request'[s].phase = "idle"
      BY <1>3, <3>1, CalmAround
    <3> QED
      BY <1>3, <3>1, <3>2, CalmServe, CalmFails, CalmReceives, CalmClicks DEF Acts
  <2> QED
    BY <2>1, <2>2
<1>4. ASSUME NEW r \in Requests, Acts(r), disturbed' = (disturbed \/ Overlap')
      PROVE  IInv'
  BY <1>2, <1>3, <1>4 DEF IInv, TypeOK
<1>5. ASSUME NEW r \in Requests, Breaks(r), disturbed' = TRUE
      PROVE  IInv'
  BY <1>2, <1>5 DEF CalmPage
<1> QED
  BY <1>1, <1>4, <1>5 DEF Next, Acts, Breaks

\* The inductive invariant of the placement test holds in every reachable state.
THEOREM PlacementInvariance == Spec => []IInv
<1>1. Init => IInv
  BY PlacementInit
<1>2. IInv /\ [Next]_vars => IInv'
  BY PlacementStep
<1> QED
  BY <1>1, <1>2, PTL DEF Spec

\* No session asks an item twice, however often, late or out of order its
\* questions are answered (placement.go:226-258).
THEOREM NoItemTwice == Spec => []AsksEachItemOnce
<1>1. IInv => AsksEachItemOnce
  BY DEF IInv
<1> QED
  BY <1>1, PlacementInvariance, PTL

\* A learner who waits for each reply, on a network that loses none, gets one
\* answer to each question in order, at most maxItems of them, and one row of
\* users (placement.go:226, onboarding.go:61), and the page shows the item that
\* is to be answered next, in every test that is taken.
THEOREM CalmLearnersTest == Spec => []CalmTestIsExact
<1>1. IInv => CalmTestIsExact
  <2> SUFFICES ASSUME IInv, ~disturbed
               PROVE  AnswersFollowQuestions /\ StopsAtMaxItems /\ OneUserRow /\ ShowsLastItem
    BY DEF CalmTestIsExact
  <2>1. AnswersFollowQuestions /\ StopsAtMaxItems /\ (users # 0 => users = 1)
    BY DEF IInv, CalmPage, CalmUsers
  <2>2. ShowsLastItem
    BY DEF IInv, CalmPage, Awaits, ShowsLastItem, Last
  <2> QED
    BY <2>1, <2>2 DEF OneUserRow
<1> QED
  BY <1>1, PlacementInvariance, PTL
=============================================================================
