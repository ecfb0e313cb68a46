------------------------------ MODULE Session ------------------------------
(***************************************************************************)
(* GET /api/sessions/today (internal/handler/sessions.go): Curriculum, the *)
(* degradation gate, the cached Generator, the Reviewer, and the event     *)
(* stream.  Requests run in goroutines of their own and share the rate     *)
(* limiter (Degrade) and the content cache (ContentCache).                 *)
(*                                                                         *)
(* A payload is the number of items the generator returned.  Callers are   *)
(* the request slots: a slot serves one request after another.             *)
(***************************************************************************)
EXTENDS ContentCache, Degrade, ChatOutcome

CONSTANT EmptyPlan  \* the key of a plan without target words

ASSUME SessionAssumption ==
    /\ EmptyPlan \in Keys
    /\ Payloads \subseteq Nat
    /\ NoRow \notin Nat

VARIABLES
    stage,          \* where each handler is
    expired,        \* the request's context is done: 60 s passed or client gone
    attempt,        \* the generator's loop counter, 0 outside its loop
    unreviewed,     \* the items the reviewer loop still has to visit
    sent            \* the events written to the stream

sessionVars == <<stage, expired, attempt, unreviewed, sent>>

vars == <<cacheVars, events, sessionVars>>

Stages == {"idle", "load", "plan", "gate", "cache", "reviewGate", "review", "send"}

EventNames == {"plan", "question", "done", "error"}

TypeOK ==
    /\ CacheTypeOK
    /\ LimiterTypeOK
    /\ seen \in SUBSET (Callers \X Keys)
    /\ stage \in [Callers -> Stages]
    /\ expired \in [Callers -> BOOLEAN]
    /\ attempt \in [Callers -> 0..maxRetries]
    /\ unreviewed \in [Callers -> Nat]
    /\ sent \in [Callers -> Seq(EventNames)]

Enter(s, next) == stage' = [stage EXCEPT ![s] = next]

Emit(s, event) == sent' = [sent EXCEPT ![s] = Append(@, event)]

\* The handler writes its error event and returns.
Fail(s) == Emit(s, "error") /\ Enter(s, "idle")

-----------------------------------------------------------------------------
\* chatgpt.Client.Chat: what an agent sees of a call, and what the rate
\* limiter records of it.  Once the context is done every call fails.
Chat(s, outcome) ==
    /\ expired[s] => outcome = "failed"
    /\ IF outcome = "throttled" THEN Record ELSE UNCHANGED events

\* Nothing is ever generated for a plan without words, so it has no row.
Init ==
    /\ CacheInit
    /\ content[EmptyPlan] = NoRow
    /\ call = [s \in Callers |-> NewCall(EmptyPlan)]
    /\ LimiterInit
    /\ stage = [s \in Callers |-> "idle"]
    /\ expired = [s \in Callers |-> FALSE]
    /\ attempt = [s \in Callers |-> 0]
    /\ unreviewed = [s \in Callers |-> 0]
    /\ sent = [s \in Callers |-> <<>>]

\* A request takes a free slot; the locals of the last one are gone.
Open(s) ==
    /\ stage[s] = "idle"
    /\ Enter(s, "load")
    /\ expired' = [expired EXCEPT ![s] = FALSE]
    /\ attempt' = [attempt EXCEPT ![s] = 0]
    /\ unreviewed' = [unreviewed EXCEPT ![s] = 0]
    /\ sent' = [sent EXCEPT ![s] = <<>>]
    /\ call' = [call EXCEPT ![s] = NewCall(EmptyPlan)]
    /\ Forgets(s)
    /\ UNCHANGED events

\* The deadline passes or the client disconnects.
Expire(s) ==
    /\ stage[s] # "idle"
    /\ expired' = [expired EXCEPT ![s] = TRUE]
    /\ UNCHANGED <<cacheVars, events, stage, attempt, unreviewed, sent>>

\* loadCandidates: the due words and the candidates are read.
LoadCandidates(s) ==
    /\ stage[s] = "load"
    /\ ~expired[s]
    /\ Enter(s, "plan")
    /\ UNCHANGED <<cacheVars, events, expired, attempt, unreviewed, sent>>

\* No chat client, or a query that fails.
LoadFails(s) ==
    /\ stage[s] = "load"
    /\ Fail(s)
    /\ UNCHANGED <<cacheVars, events, expired, attempt, unreviewed>>

\* The curriculum answers with a plan, and the plan's words make the key.
PlanReady(s, k) ==
    /\ stage[s] = "plan"
    /\ Chat(s, "ok")
    /\ call' = [call EXCEPT ![s] = NewCall(k)]
    /\ Enter(s, "gate")
    /\ UNCHANGED <<tableVars, expired, attempt, unreviewed, sent>>

\* Curriculum never retries.
PlanFails(s) ==
    /\ stage[s] = "plan"
    /\ \E outcome \in Outcomes \ {"ok"} : Chat(s, outcome)
    /\ Fail(s)
    /\ UNCHANGED <<cacheVars, expired, attempt, unreviewed>>

GateOpens(s) ==
    /\ stage[s] = "gate"
    /\ AllowGenerator
    /\ Collect
    /\ Start(s)
    /\ Enter(s, "cache")
    /\ UNCHANGED <<expired, attempt, unreviewed, sent>>

\* "generator disabled by degradation level (L4)"
GateDenies(s) ==
    /\ stage[s] = "gate"
    /\ ~AllowGenerator
    /\ Collect
    /\ Fail(s)
    /\ UNCHANGED <<cacheVars, expired, attempt, unreviewed>>

-----------------------------------------------------------------------------
\* WithCache.  A query under a done context fails.
Query(s) ==
    /\ \/ ~expired[s] /\ (FindHit(s) \/ FindMiss(s) \/ CountHit(s) \/ Save(s))
       \/ GetFails(s) \/ CountHitFails(s) \/ PutFails(s)
    /\ UNCHANGED <<events, sessionVars>>

HasWords(s) == call[s].key # EmptyPlan

\* A generator attempt that succeeds.
GeneratorAnswers(s, v) ==
    /\ HasWords(s)
    /\ Chat(s, "ok")
    /\ Generated(s, v)
    /\ attempt' = [attempt EXCEPT ![s] = 0]
    /\ UNCHANGED <<stage, expired, unreviewed, sent>>

GeneratorRetries_FaultyRestarts(s, outcome) ==
    /\ At(s, "generate")
    /\ HasWords(s)
    /\ Retryable(outcome)
    /\ Chat(s, outcome)
    /\ attempt' = [attempt EXCEPT ![s] = IF outcome = "refused" THEN 0 ELSE maxRetries]
    /\ UNCHANGED <<cacheVars, stage, expired, unreviewed, sent>>

\* An attempt that fails in a way worth another one, with attempts left.
GeneratorRetries(s, outcome) ==
    /\ At(s, "generate")
    /\ HasWords(s)
    /\ Retryable(outcome)
    /\ attempt[s] < maxRetries
    /\ Chat(s, outcome)
    /\ attempt' = [attempt EXCEPT ![s] = @ + 1]
    /\ UNCHANGED <<cacheVars, stage, expired, unreviewed, sent>>

\* The last attempt fails, or one that is not worth another.
GeneratorGivesUp(s, outcome) ==
    /\ HasWords(s)
    /\ outcome # "ok"
    /\ ~Retryable(outcome) \/ attempt[s] = maxRetries
    /\ Chat(s, outcome)
    /\ GenFails(s)
    /\ attempt' = [attempt EXCEPT ![s] = 0]
    /\ UNCHANGED <<stage, expired, unreviewed, sent>>

\* "generator: no target words", before any call.
NothingToGenerate(s) ==
    /\ ~HasWords(s)
    /\ GenFails(s)
    /\ UNCHANGED <<events, sessionVars>>

Generate(s) ==
    \/ \E v \in Payloads : GeneratorAnswers(s, v)
    \/ \E outcome \in Outcomes : GeneratorRetries(s, outcome) \/ GeneratorGivesUp(s, outcome)
    \/ NothingToGenerate(s)

ContentFails_FaultyPlanShown(s) ==
    /\ stage[s] = "cache"
    /\ call[s].result \in {"genError", "putError"}
    /\ sent' = [sent EXCEPT ![s] = Append(Append(@, "plan"), "error")]
    /\ Enter(s, "idle")
    /\ UNCHANGED <<cacheVars, events, expired, attempt, unreviewed>>

\* WithCache returned an error: items that could not be stored are dropped.
ContentFails(s) ==
    /\ stage[s] = "cache"
    /\ call[s].result \in {"genError", "putError"}
    /\ Fail(s)
    /\ UNCHANGED <<cacheVars, events, expired, attempt, unreviewed>>

ContentReady_FaultyPutIgnored(s) ==
    /\ stage[s] = "cache"
    /\ call[s].result \in {"hit", "miss", "putError"}
    /\ Enter(s, "reviewGate")
    /\ UNCHANGED <<cacheVars, events, expired, attempt, unreviewed, sent>>

ContentReady(s) ==
    /\ stage[s] = "cache"
    /\ call[s].result \in {"hit", "miss"}
    /\ Enter(s, "reviewGate")
    /\ UNCHANGED <<cacheVars, events, expired, attempt, unreviewed, sent>>

-----------------------------------------------------------------------------
\* The second look at the level.
ReviewGate(s) ==
    /\ stage[s] = "reviewGate"
    /\ Collect
    /\ IF AllowReviewer
       THEN /\ Enter(s, "review")
            /\ unreviewed' = [unreviewed EXCEPT ![s] = call[s].value]
       ELSE Enter(s, "send") /\ UNCHANGED unreviewed
    /\ UNCHANGED <<cacheVars, expired, attempt, sent>>

Visit(s) ==
    /\ stage[s] = "review"
    /\ unreviewed[s] > 0
    /\ unreviewed' = [unreviewed EXCEPT ![s] = @ - 1]
    /\ UNCHANGED <<cacheVars, stage, expired, attempt, sent>>

\* The sampler leaves the item out.
SkipItem(s) == Visit(s) /\ UNCHANGED events

\* ReviewOne: whatever it answers, the item stays as it is.
ReviewItem(s) == Visit(s) /\ \E outcome \in Outcomes : Chat(s, outcome)

ReviewEnds(s) ==
    /\ stage[s] = "review"
    /\ unreviewed[s] = 0
    /\ Enter(s, "send")
    /\ UNCHANGED <<cacheVars, events, expired, attempt, unreviewed, sent>>

Questions(s) == Len(sent[s]) - 1

\* wr.Plan, wr.Question for each item, wr.Done; write errors are dropped.
SendNext(s) ==
    /\ stage[s] = "send"
    /\ IF sent[s] = <<>> THEN Emit(s, "plan") /\ UNCHANGED stage
       ELSE IF Questions(s) < call[s].value THEN Emit(s, "question") /\ UNCHANGED stage
       ELSE Emit(s, "done") /\ Enter(s, "idle")
    /\ UNCHANGED <<cacheVars, events, expired, attempt, unreviewed>>

\* The clock of the limiter.
TickOfClock == Tick /\ UNCHANGED <<cacheVars, sessionVars>>

Handler(s) ==
    \/ LoadCandidates(s) \/ LoadFails(s)
    \/ (\E k \in Keys : PlanReady(s, k)) \/ PlanFails(s)
    \/ GateOpens(s) \/ GateDenies(s)
    \/ Query(s) \/ Generate(s)
    \/ ContentReady(s) \/ ContentFails(s)
    \/ ReviewGate(s) \/ SkipItem(s) \/ ReviewItem(s) \/ ReviewEnds(s)
    \/ SendNext(s)

Next ==
    \/ TickOfClock
    \/ \E s \in Callers : Open(s) \/ Expire(s) \/ Handler(s)

Spec == Init /\ [][Next]_vars

\* Every call a handler makes is bounded by the request's context, so a
\* handler that can move does; and time passes.
FairSpec ==
    /\ Spec
    /\ WF_vars(TickOfClock)
    /\ \A s \in Callers : WF_vars(Handler(s))

-----------------------------------------------------------------------------
\* A stream is an error alone, or a plan, one question per item and a done:
\* nothing that goes wrong after the content is there (a review that fails, a
\* deadline that passes) cuts the stream, and nothing that goes wrong before
\* leaves half of one (sessions.go:80-90).
StreamWellFormed ==
    \A s \in Callers : sent[s] # <<>> =>
        \/ sent[s] = <<"error">> /\ stage[s] = "idle"
        \/ /\ sent[s][1] = "plan"
           /\ call[s].value \in Payloads
           /\ \A i \in 2..Len(sent[s]) :
                sent[s][i] = IF i <= call[s].value + 1 THEN "question" ELSE "done"
           /\ Len(sent[s]) <= call[s].value + 2
           /\ stage[s] = "idle" <=> Len(sent[s]) = call[s].value + 2

\* What a learner is shown can be shown again: the cache holds a payload for
\* the key of every stream that has begun, and it is the one shown unless
\* another request has stored its own since, whichever calls failed and
\* whenever the deadline passed (cache.go:136-160).
ShownIsServable ==
    \A s \in Callers :
        sent[s] # <<>> /\ sent[s][1] = "plan" =>
            /\ content[call[s].key] \in Payloads
            /\ Sees(s) => content[call[s].key] = call[s].value

\* Every request that is opened ends, with done or with error, however its
\* calls are answered: the retry loop is bounded and no step waits for
\* another request (generator.go:76-92).
EveryRequestEnds == \A s \in Callers : stage[s] # "idle" ~> stage[s] = "idle"

\* The degradation heals: unless the provider goes on throttling for ever, a
\* time comes after which no request is denied (sessions.go:119,
\* ratelimit.go:60-69).
Throttled == Count(events') > Count(events)

DegradationHeals ==
    []<><<Throttled>>_vars \/ <>[][\A s \in Callers : ~GateDenies(s)]_vars

OneAtATime ==
    \A s, t \in Callers : s = t \/ stage[s] = "idle" \/ stage[t] = "idle"

\* Requests that do not overlap never generate at a level that forbids it:
\* between the gate of a request and its generation only another one can raise
\* the level, and its own retries never follow a throttling
\* (sessions.go:119-131, generator.go:76-92).
NoGenerationWhenThrottled ==
    []OneAtATime =>
        [](\A s \in Callers : At(s, "generate") /\ HasWords(s) => AllowGenerator)
============================================================================
