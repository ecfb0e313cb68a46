----------------------------- MODULE Placement -----------------------------
(***************************************************************************)
(* The placement test: the in-memory sessions of the server                *)
(* (internal/handler/placement.go), the page that drives them              *)
(* (web/src/pages/Onboarding.tsx) and the row that POST /api/onboarding    *)
(* adds at the end (internal/handler/onboarding.go).                       *)
(*                                                                         *)
(* The ability estimate is left out: the next item is any item not asked   *)
(* yet, and the standard error may be small enough once MinPrecise answers *)
(* are in.  A Request is a slot for one HTTP request of the page, which    *)
(* does not wait for a reply before it sends the next one.                 *)
(***************************************************************************)
EXTENDS Integers, Sequences, SequencesExt

CONSTANTS
    Requests,       \* HTTP requests that can be under way at once
    Items,          \* the item pool
    NoItem,         \* nothing shown, or no item in a reply
    maxItems,       \* placement.go:120
    MinPrecise,     \* fewest answers with which the SEM can be small enough
    MaxSessions,    \* bound on the sessions started
    MaxResponses,   \* bound on the answers a session gets
    MaxUsers        \* bound on the rows of users

ASSUME PlacementAssumption ==
    /\ Items # {}
    /\ NoItem \notin Items
    /\ maxItems \in Nat \ {0}
    /\ MinPrecise \in Nat
    /\ MaxSessions \in Nat
    /\ MaxResponses \in Nat
    /\ MaxUsers \in Nat

VARIABLES
    sessions,       \* the server's sessions; an id is a position
    users,          \* the number of rows of users
    request,        \* the requests of the page
    step,           \* the page: where the learner is
    sessionId,      \* the page: the session it answers for
    item,           \* the page: the item it shows
    disturbed       \* history: requests overlapped, or something got lost

vars == <<sessions, users, request, step, sessionId, item, disturbed>>

serverVars == <<sessions, users>>

pageVars == <<step, sessionId, item>>

Session == [Asked : Seq(Items), Resps : Seq(Items)]

Reply == [ok : BOOLEAN, done : BOOLEAN, session : 0..MaxSessions,
          item : Items \cup {NoItem}]

Request == [kind : {"none", "start", "answer", "onboarding"},
            phase : {"idle", "sent", "replied"},
            session : 0..MaxSessions,
            item : Items \cup {NoItem},
            reply : Reply]

Failed == [ok |-> FALSE, done |-> FALSE, session |-> 0, item |-> NoItem]

NoRequest == [kind |-> "none", phase |-> "idle", session |-> 0,
              item |-> NoItem, reply |-> Failed]

Sent(kind, sid, i) == [NoRequest EXCEPT !.kind = kind, !.phase = "sent",
                                        !.session = sid, !.item = i]

TypeOK ==
    /\ sessions \in Seq(Session)
    /\ users \in 0..MaxUsers
    /\ request \in [Requests -> Request]
    /\ step \in {"intro", "placement", "submitting", "done"}
    /\ sessionId \in 0..MaxSessions
    /\ item \in Items \cup {NoItem}
    /\ disturbed \in BOOLEAN

Init ==
    /\ sessions = <<>>
    /\ users = 0
    /\ request = [r \in Requests |-> NoRequest]
    /\ step = "intro"
    /\ sessionId = 0
    /\ item = NoItem
    /\ disturbed = FALSE

Idle(r) == request[r].phase = "idle"

Arrived(r, kind) == request[r].phase = "sent" /\ request[r].kind = kind

Answer(r, reply) ==
    request' = [request EXCEPT ![r].phase = "replied", ![r].reply = reply]

-----------------------------------------------------------------------------
\* The server.

\* handleStart: a new session asks its first item.
HandleStart(r) ==
    /\ Arrived(r, "start")
    /\ Len(sessions) < MaxSessions
    /\ \E first \in Items :
         /\ sessions' = Append(sessions, [Asked |-> <<first>>, Resps |-> <<>>])
         /\ Answer(r, [ok |-> TRUE, done |-> FALSE,
                       session |-> Len(sessions) + 1, item |-> first])
    /\ UNCHANGED <<users, pageVars>>

Unasked_FaultyRepeatsFirst(session) == Items \ ToSet(Tail(session.Asked))

\* What irt.SelectNext chooses from.
Unasked(session) == Items \ ToSet(session.Asked)

Stops_FaultyBeyond(session, precise) == precise \/ Len(session.Resps) > maxItems

\* sem <= semStopThreshold || len(sess.Resps) >= maxItems
Stops(session, precise) == precise \/ Len(session.Resps) >= maxItems

Answered(session, i) == [session EXCEPT !.Resps = Append(@, i)]

DoneReply(sid) == [ok |-> TRUE, done |-> TRUE, session |-> sid, item |-> NoItem]

\* The locked part of handleAnswer: the response is appended whatever the
\* session's state is, and only then the test stops or goes on.
HandleAnswer(r) ==
    LET sid  == request[r].session
        sess == Answered(sessions[sid], request[r].item)
    IN  /\ Arrived(r, "answer")
        /\ Len(sess.Resps) <= MaxResponses
        /\ \E precise \in {FALSE} \cup {Len(sess.Resps) >= MinPrecise} :
             IF Stops(sess, precise) \/ Unasked(sess) = {}
             THEN /\ sessions' = [sessions EXCEPT ![sid] = sess]
                  /\ Answer(r, DoneReply(sid))
             ELSE \E next \in Unasked(sess) :
                    /\ sessions' = [sessions EXCEPT ![sid] =
                                      [sess EXCEPT !.Asked = Append(@, next)]]
                    /\ Answer(r, [ok |-> TRUE, done |-> FALSE,
                                  session |-> sid, item |-> next])
        /\ UNCHANGED <<users, pageVars>>

\* provider.List fails after the response has been appended: 500.
ListFails(r) ==
    LET sid  == request[r].session
        sess == Answered(sessions[sid], request[r].item)
    IN  /\ Arrived(r, "answer")
        /\ Len(sess.Resps) <= MaxResponses
        /\ ~Stops(sess, FALSE)
        /\ sessions' = [sessions EXCEPT ![sid] = sess]
        /\ Answer(r, Failed)
        /\ UNCHANGED <<users, pageVars>>

\* POST /api/onboarding adds a row, however many there are.
HandleOnboarding(r) ==
    /\ Arrived(r, "onboarding")
    /\ users < MaxUsers
    /\ users' = users + 1
    /\ Answer(r, [ok |-> TRUE, done |-> FALSE, session |-> 0, item |-> NoItem])
    /\ UNCHANGED <<sessions, pageVars>>

\* The request fails before it has an effect.
RequestFails(r) ==
    /\ request[r].phase = "sent"
    /\ Answer(r, Failed)
    /\ UNCHANGED <<serverVars, pageVars>>

\* The reply gets lost, or the handler fails once its statement has run: the
\* page sees an error, and the server has done its part.
ReplyLost(r) ==
    /\ request[r].phase = "replied"
    /\ request[r].reply.ok
    /\ Answer(r, Failed)
    /\ UNCHANGED <<serverVars, pageVars>>

-----------------------------------------------------------------------------
\* The page.

ClickStart(r) ==
    /\ Idle(r)
    /\ step = "intro"
    /\ request' = [request EXCEPT ![r] = Sent("start", 0, NoItem)]
    /\ UNCHANGED <<serverVars, pageVars>>

\* finalize: the result is posted.
Finalize(r) ==
    /\ request' = [request EXCEPT ![r] = Sent("onboarding", 0, NoItem)]
    /\ step' = "submitting"

ClickSkip(r) ==
    /\ Idle(r)
    /\ step = "intro"
    /\ Finalize(r)
    /\ UNCHANGED <<serverVars, sessionId, item>>

\* No button is disabled while an answer is under way.
Choose(r) ==
    /\ Idle(r)
    /\ step = "placement"
    /\ item # NoItem
    /\ request' = [request EXCEPT ![r] = Sent("answer", sessionId, item)]
    /\ UNCHANGED <<serverVars, pageVars>>

Received(r, kind, ok) ==
    /\ request[r].phase = "replied"
    /\ request[r].kind = kind
    /\ request[r].reply.ok = ok

Free(r) == request' = [request EXCEPT ![r] = NoRequest]

Started(r) ==
    /\ Received(r, "start", TRUE)
    /\ Free(r)
    /\ step' = "placement"
    /\ sessionId' = request[r].reply.session
    /\ item' = request[r].reply.item
    /\ UNCHANGED serverVars

NextItem(r) ==
    /\ Received(r, "answer", TRUE)
    /\ ~request[r].reply.done
    /\ Free(r)
    /\ item' = request[r].reply.item
    /\ UNCHANGED <<serverVars, step, sessionId>>

TestDone(r) ==
    /\ Received(r, "answer", TRUE)
    /\ request[r].reply.done
    /\ Finalize(r)
    /\ UNCHANGED <<serverVars, sessionId, item>>

\* An error message is shown and the page stays as it is.
ShowError(r) ==
    /\ Received(r, "start", FALSE) \/ Received(r, "answer", FALSE)
    /\ Free(r)
    /\ UNCHANGED <<serverVars, pageVars>>

Saved(r) ==
    /\ Received(r, "onboarding", TRUE)
    /\ Free(r)
    /\ step' = "done"
    /\ UNCHANGED <<serverVars, sessionId, item>>

SaveFailed(r) ==
    /\ Received(r, "onboarding", FALSE)
    /\ Free(r)
    /\ step' = "intro"
    /\ UNCHANGED <<serverVars, sessionId, item>>

-----------------------------------------------------------------------------
Serve(r) == HandleStart(r) \/ HandleAnswer(r) \/ HandleOnboarding(r)

Receive(r) ==
    \/ Started(r) \/ NextItem(r) \/ TestDone(r) \/ ShowError(r)
    \/ Saved(r) \/ SaveFailed(r)

Click(r) == ClickStart(r) \/ ClickSkip(r) \/ Choose(r)

\* Two requests of the page are under way.
Overlap == \E r, s \in Requests : r # s /\ ~Idle(r) /\ ~Idle(s)

Next ==
    \E r \in Requests :
        \/ /\ Serve(r) \/ Receive(r) \/ Click(r) \/ RequestFails(r)
           /\ disturbed' = (disturbed \/ Overlap')
        \/ /\ ListFails(r) \/ ReplyLost(r)
           /\ disturbed' = TRUE

Spec == Init /\ [][Next]_vars

-----------------------------------------------------------------------------
\* No item is asked twice in a session, and a session asks at most one item
\* more than it has answers, whatever is answered twice, late or out of order
\* (placement.go:226-258).
AsksEachItemOnce ==
    \A sid \in DOMAIN sessions :
        /\ IsInjective(sessions[sid].Asked)
        /\ Len(sessions[sid].Asked) <= Len(sessions[sid].Resps) + 1

\* The answers are the items asked before the one shown, in the order asked.
AnswersFollowQuestions ==
    \A sid \in DOMAIN sessions :
        IsPrefix(sessions[sid].Resps, sessions[sid].Asked)

StopsAtMaxItems == \A sid \in DOMAIN sessions : Len(sessions[sid].Resps) <= maxItems

OneUserRow == users <= 1

\* While no reply is awaited, the page shows the last item its session asked.
ShowsLastItem ==
    step = "placement" /\ (\A r \in Requests : Idle(r)) =>
        item = Last(sessions[sessionId].Asked)

\* A learner who waits for each reply, on a network that loses none, gets the
\* test the design describes, also when requests are refused and the test is
\* taken again: the page shows what the session of this test asked last, the
\* estimate rests on one answer to each item asked, the test stops at maxItems
\* (docs/design.md:97), and the profile is one row of users
\* (docs/design.md:98).  Without that calm none of the four holds: the server
\* and the page do nothing about a second click (placement.go:226,
\* onboarding.go:61, Onboarding.tsx:37), and a late reply takes the page back.
CalmTestIsExact ==
    ~disturbed =>
        AnswersFollowQuestions /\ StopsAtMaxItems /\ OneUserRow /\ ShowsLastItem
=============================================================================
