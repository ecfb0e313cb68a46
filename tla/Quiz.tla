-------------------------------- MODULE Quiz --------------------------------
(***************************************************************************)
(* The quiz page (web/src/pages/Quiz.tsx) on its event stream              *)
(* (web/src/hooks/useSSE.ts), up to the answers it posts.                  *)
(*                                                                         *)
(* The server's side of a stream is what Session!StreamWellFormed says it  *)
(* is: an error alone, or a plan, questions and a done.  The connection    *)
(* may break at any moment; the browser's EventSource then connects again, *)
(* which starts another session.  A question is named by its session and   *)
(* the place at which the server sends it; one that the page cannot parse  *)
(* is dropped.                                                             *)
(*                                                                         *)
(* A Click is a slot for one run of onAnswer, which awaits a hash and then *)
(* a reply: other clicks and events fall between.                          *)
(***************************************************************************)
EXTENDS Integers, Sequences

CONSTANTS
    Clicks,         \* runs of onAnswer that can be under way at once
    MaxStreams,     \* bound on the sessions of one page
    MaxQuestions    \* bound on the questions of a session

ASSUME QuizAssumption == MaxStreams \in Nat /\ MaxQuestions \in Nat

VARIABLES
    es,             \* the EventSource
    streams,        \* the sessions it has started: of each, the places of the
                    \* questions that the page can parse
    script,         \* the events the server has left to send
    phase,          \* what the page shows; "left" once it is unmounted
    queue,          \* the questions received
    idx,            \* how many of them the learner is through with
    streamDone,     \* a done has arrived
    judged,         \* the question the verdict shown belongs to, 0 for null
    click,          \* the runs of onAnswer
    hasty           \* history: a question was clicked again before its verdict

streamVars == <<es, streams, script>>

answerVars == <<click, hasty>>

vars == <<streamVars, phase, queue, idx, streamDone, judged, answerVars>>

Questions == 1..(MaxStreams * MaxQuestions)

Event == [kind : {"plan", "question", "done", "error"}, place : 0..(MaxQuestions + 1)]

Run == [at : {"idle", "hashing", "posting"}, question : Questions \cup {0}]

NoRun == [at |-> "idle", question |-> 0]

TypeOK ==
    /\ es \in {"connecting", "open", "closed"}
    /\ streams \in Seq(SUBSET (1..MaxQuestions)) /\ Len(streams) <= MaxStreams
    /\ script \in Seq(Event)
    /\ phase \in {"loading", "quizzing", "finished", "error", "left"}
    /\ queue \in Seq([stream : 1..MaxStreams, place : 1..MaxQuestions])
    /\ idx \in 0..Len(queue)
    /\ streamDone \in BOOLEAN
    /\ judged \in Questions \cup {0}
    /\ click \in [Clicks -> Run]
    /\ hasty \in BOOLEAN

Init ==
    /\ es = "connecting"
    /\ streams = <<>>
    /\ script = <<>>
    /\ phase = "loading"
    /\ queue = <<>>
    /\ idx = 0
    /\ streamDone = FALSE
    /\ judged = 0
    /\ click = [c \in Clicks |-> NoRun]
    /\ hasty = FALSE

-----------------------------------------------------------------------------
\* The stream.

Latest == Len(streams)

\* The events of a session with n questions, with their places.
Session(n) ==
    [i \in 1..(n + 2) |->
        [kind |-> IF i = 1 THEN "plan" ELSE IF i = n + 2 THEN "done" ELSE "question",
         place |-> i - 1]]

Error == [kind |-> "error", place |-> 0]

\* A request reaches the server, which starts a session.
Connect ==
    /\ es = "connecting"
    /\ Latest < MaxStreams
    /\ es' = "open"
    /\ \/ /\ script' = <<Error>>
          /\ streams' = Append(streams, {})
       \/ \E n \in 0..MaxQuestions : \E readable \in SUBSET (1..n) :
            /\ script' = Session(n)
            /\ streams' = Append(streams, readable)
    /\ UNCHANGED <<phase, queue, idx, streamDone, judged, answerVars>>

\* No stream comes: the browser gives up when the answer is of another kind
\* and tries again when there is none.
ConnectFails ==
    /\ es = "connecting"
    /\ es' \in {"closed", "connecting"}
    /\ phase' = "error"
    /\ UNCHANGED <<streams, script, queue, idx, streamDone, judged, answerVars>>

\* The connection breaks, or the server has closed it.  The browser's own
\* error event calls the handler of the server's one too.
ConnectionLost ==
    /\ es = "open"
    /\ es' = "connecting"
    /\ script' = <<>>
    /\ phase' = "error"
    /\ UNCHANGED <<streams, queue, idx, streamDone, judged, answerVars>>

Arrives(kind) ==
    /\ es = "open"
    /\ script # <<>>
    /\ Head(script).kind = kind
    /\ script' = Tail(script)
    /\ UNCHANGED <<streams, idx, judged, answerVars>>

\* The effect behind "finished", which runs when one of its inputs changes.
FinishTest_FaultyBeyond(done, list, i, otherwise) ==
    phase' = IF done /\ list # <<>> /\ i > Len(list) THEN "finished" ELSE otherwise

FinishTest(done, list, i, otherwise) ==
    phase' = IF done /\ list # <<>> /\ i >= Len(list) THEN "finished" ELSE otherwise

PlanArrives ==
    /\ Arrives("plan")
    /\ phase' = "quizzing"
    /\ UNCHANGED <<es, queue, streamDone>>

\* The question that is about to arrive.
Arriving == [stream |-> Latest, place |-> Head(script).place]

Parses == Head(script).place \in streams[Latest]

QuestionArrives_FaultyStaleQueue ==
    /\ Arrives("question")
    /\ Parses
    /\ queue' = <<Arriving>>
    /\ FinishTest(streamDone, queue', idx, phase)
    /\ UNCHANGED <<es, streamDone>>

\* setQueue takes the queue as it is now, not as it was when the page rendered.
QuestionArrives ==
    /\ Arrives("question")
    /\ Parses
    /\ queue' = Append(queue, Arriving)
    /\ FinishTest(streamDone, queue', idx, phase)
    /\ UNCHANGED <<es, streamDone>>

\* JSON.parse throws: the question is skipped.
QuestionDropped ==
    /\ Arrives("question")
    /\ ~Parses
    /\ UNCHANGED <<es, phase, queue, streamDone>>

\* The hook closes the EventSource, so it does not connect again.
DoneArrives ==
    /\ Arrives("done")
    /\ streamDone' = TRUE
    /\ es' = "closed"
    /\ FinishTest(TRUE, queue, idx, phase)
    /\ UNCHANGED queue

ErrorArrives ==
    /\ Arrives("error")
    /\ phase' = "error"
    /\ UNCHANGED <<es, queue, streamDone>>

-----------------------------------------------------------------------------
\* The learner.

\* A question is on the screen.
Showing == phase \in {"loading", "quizzing"} /\ idx < Len(queue)

Current == idx + 1

\* onAnswer, as far as its first await.
Choose(c) ==
    /\ Showing
    /\ judged = 0
    /\ click[c] = NoRun
    /\ click' = [click EXCEPT ![c] = [at |-> "hashing", question |-> Current]]
    /\ hasty' = (hasty \/ \E d \in Clicks : click[d].at = "hashing")
    /\ UNCHANGED <<streamVars, phase, queue, idx, streamDone, judged>>

\* The hash is there: the verdict is set, on whatever the page shows, and the
\* answer is posted.
Judge(c) ==
    /\ click[c].at = "hashing"
    /\ judged' = IF phase = "left" THEN judged ELSE click[c].question
    /\ click' = [click EXCEPT ![c].at = "posting"]
    /\ UNCHANGED <<streamVars, phase, queue, idx, streamDone, hasty>>

\* The answer is in; the page does not look at it, also when it is a refusal:
\* the body it posts has word_id 0.
Answered(c) ==
    /\ click[c].at = "posting"
    /\ click' = [click EXCEPT ![c] = NoRun]
    /\ UNCHANGED <<streamVars, phase, queue, idx, streamDone, judged, hasty>>

\* The request gets lost: a message is shown.
PostFails(c) ==
    /\ click[c].at = "posting"
    /\ click' = [click EXCEPT ![c] = NoRun]
    /\ UNCHANGED <<streamVars, phase, queue, idx, streamDone, judged, hasty>>

GoNext_FaultyKeepsVerdict ==
    /\ Showing
    /\ judged # 0
    /\ idx' = idx + 1
    /\ FinishTest(streamDone, queue, idx', phase)
    /\ UNCHANGED <<streamVars, queue, streamDone, judged, answerVars>>

\* onNext, whose button comes with the verdict, and the effects of [idx].
GoNext ==
    /\ Showing
    /\ judged # 0
    /\ idx' = idx + 1
    /\ judged' = 0
    /\ FinishTest(streamDone, queue, idx', phase)
    /\ UNCHANGED <<streamVars, queue, streamDone, answerVars>>

\* The page is unmounted; what onAnswer has begun goes on.
Leave ==
    /\ phase # "left"
    /\ phase' = "left"
    /\ es' = "closed"
    /\ script' = <<>>
    /\ UNCHANGED <<streams, queue, idx, streamDone, judged, answerVars>>

Stream ==
    \/ Connect \/ ConnectFails \/ ConnectionLost
    \/ PlanArrives \/ QuestionArrives \/ QuestionDropped
    \/ DoneArrives \/ ErrorArrives

Answering(c) == Choose(c) \/ Judge(c) \/ Answered(c) \/ PostFails(c)

Next == Stream \/ GoNext \/ Leave \/ \E c \in Clicks : Answering(c)

\* A learner who goes on with the quiz: there is an answer to a question that
\* shows, and a click on the button that shows.
Spec ==
    /\ Init
    /\ [][Next]_vars
    /\ WF_vars(GoNext)
    /\ \A c \in Clicks : WF_vars(Answering(c))

-----------------------------------------------------------------------------
Before(a, b) == a.stream < b.stream \/ (a.stream = b.stream /\ a.place < b.place)

Queued(s, p) == \E i \in DOMAIN queue : queue[i] = [stream |-> s, place |-> p]

\* The queue holds what the server sent, in the order it was sent and none
\* twice; nothing readable is skipped, so that a connection that breaks costs
\* the end of its session alone, and a session that came to its done is there
\* completely (Quiz.tsx:56-67).
QueueFollowsStreams ==
    /\ \A i, j \in DOMAIN queue : i < j => Before(queue[i], queue[j])
    /\ \A i \in DOMAIN queue :
         \A p \in streams[queue[i].stream] : p < queue[i].place => Queued(queue[i].stream, p)
    /\ streamDone => \A p \in streams[Latest] : Queued(Latest, p)

\* A learner who clicks once sees the verdict of the question that shows, even
\* when the connection breaks while the answer is being hashed.  A second
\* click before the verdict arrives may judge the next question instead
\* (Quiz.tsx:94-108).
VerdictIsOfTheQuestionShown == ~hasty /\ judged # 0 => judged = Current

\* A quiz whose questions have all arrived comes to its end: nothing, not even
\* a hasty click, leaves the learner before a page that offers no way on.
QuizFinishes == streamDone /\ queue # <<>> ~> phase \in {"finished", "left"}

=============================================================================
