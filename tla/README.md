# A TLA+ verification of English-Learning

English-Learning is a vocabulary trainer: a Go server (`cmd/app`, `internal/`) over a SQLite
database, a React front end (`web/`), and commands that run beside the server (`login`, `ingest`,
`seed`, `pregenerate`). A session asks a language model for exercises, streams them to the page
as server-sent events, and every answer moves the SM-2 schedule of its word.

This directory holds TLA+ modules translated from that code, the TLC runs that check them on small
instances, and proofs, for every instance, of all the safety properties the passing runs check. Paths below are relative to the repository; a name in
`code font` without a path is a definition of a module here or of the code, which share names where TLA+ allows it.

1. [The system](#1-the-system)
2. [Modules and the code they model](#2-modules-and-the-code-they-model)
3. [Runs](#3-runs)
4. [Fairness](#4-fairness)
5. [Proofs](#5-proofs)
6. [Findings and observations](#6-findings-and-observations)
7. [Assumptions and what is left out](#7-assumptions-and-what-is-left-out)
8. [Plan](#8-plan)

## 1. The system

### Components, their state and their operations

| component | state | operations | correct when |
|---|---|---|---|
| SM-2 scheduler, `internal/srs` | none | `Next`, `QualityFromLatency`, `NextReviewAt` | a better grade never costs the learner; a streak's interval never shrinks; the counters count |
| Attempts API, `handler/attempts.go`, `repo/attempts.go` | the append-only `attempts` table | load the latest row, grade, insert, list the due rows | each row is one SM-2 step of its own word; a word offered as due is due |
| Rate limiter, `llm/ratelimit.go` | a list of times under a mutex | `Observe`, `Snapshot`, lazy collection | it counts exactly the signals of the last window |
| Degradation decider, `internal/degrade` | none of its own | `Current`, `AllowGenerator`, `AllowReviewer` | generates nothing at a level that forbids it, and heals |
| Content cache, `internal/cache`, `repo/content.go` | the `generated_content` table | `WithCache` = `Get`, `IncHit`, generate, `Put` | what was served stays servable; what is stored is served and not generated again |
| Session pipeline, `handler/sessions.go`, `agent/*`, `sse` | locals of a request, its stream | load, plan, gate, cached generation with retries, review, send | a stream is an error alone or is complete; every request ends |
| Pregeneration batch, `cmd/app/pregenerate.go` | the same table, from another process | a loop over the users: list, probe, generate, store | every user is visited; what it stores is used |
| Word ingest, `internal/ingest` | the `words` table | one upsert transaction per file | |
| OAuth token store, `oauth/store.go`, `oauth.go` | `auth.json` and one temporary name | `Save`, `Load`, `Delete`, `Ensure`, `Refresh`, `Logout` | the file is whole at any moment; a refresh token is never lost |
| Browser login, `oauth.go`, `cmd/app/login.go` | the callback port, a channel, goroutines | listen, wait for one callback or a timeout, exchange, save, shut down | every login returns; two logins never save at once |
| Placement test and onboarding, `handler/placement.go`, `handler/onboarding.go`, `Onboarding.tsx` | in-memory sessions, the `users` table, the page | start, answer, stop rule, save | no item twice; a learner who waits gets an exact test |
| Quiz page, `Quiz.tsx`, `useSSE.ts` | the queue, the index, the phase, runs of `onAnswer` | events, reconnections, clicks | the queue follows the streams; the verdict belongs to the question; the quiz ends |
| Stream writer, `internal/sse` | a mutex, the response, a ticker | `Send`, `Heartbeat` | frames never mix and are flushed, nothing follows the end |
| Chat client, `internal/chatgpt`, `llm/llm.go` | the limiter | token, request, reading of the answer | content is a whole answer; only throttlings are counted; retries are earned |
| Serve and seed, `cmd/app/serve.go`, `seed.go`, `internal/seed` | `placement_items`, the port | count, insert, listen, shut down | the bank is there once and whole; a stop stops |
| Reviewer sampler, licence check, words, statistics and friction handlers, static pool, schemas and masking, middleware, configuration, migrations, vectors, other pages | none, a window of verdicts (the sampler), or read-only | | not modelled: pure data, pure I/O, or nothing else depends on it |

### How they interact

```
 Onboarding.tsx --POST--> placement/onboarding handlers --> users        (Placement)
 Quiz.tsx <--SSE-- sessions handler --> curriculum, generator, reviewer   (Quiz, Stream, Session)
                     |       |                  |
                     |   degrade <-- rate limiter <-- chat client        (Degrade, RateLimiter, ChatCall)
                     +--> WithCache --> generated_content                (ContentCache)
                             ^                ^
                 app pregenerate (process)  app ingest (process)         (Supply)
 Quiz.tsx --POST /api/attempts--> attempts handler --> srs.Next --> attempts   (Attempts, SRS)
 sessions handler <-- due rows of attempts                                     (Attempts)
 app serve --> placement_items, the port                                       (Serve)
 chat client --> Ensure/Refresh --> auth.json <-- app login, app logout  (TokenStore, LoginFlow)
```

Requests are goroutines of one process and share the limiter under a mutex. Everything else is shared
through SQLite, where one statement is atomic and nothing binds two, or through files.

### What is hard

PROJECT.json lists 40 hazards with their lines. The main ones:

* **Read, compute, write without a transaction.** `handlePost` loads a card and inserts its successor in two
  statements (attempts.go:55); two calls of `WithCache` may miss a key together (cache.go:136); the batch is
  another process with the same habit.
* **Files without a lock.** All saves of the token share one temporary name (store.go:113); only
  the callback port keeps logins apart.
* **Crashes and kills** between writing and renaming, and in the middle of a batch.
* **Deadlines** that fall between any two steps of a session, and retries that share one budget.
* **Late, lost and repeated messages**: `EventSource` reconnects by itself, pages do not wait
  for a reply before the next click, replies arrive in any order.
* **Goroutines that outlive their handler**: nobody waits for the heartbeat (sse.go:102).
* **Processes over one database**: two that seed, one that drains while the next starts, no busy timeout.
* **Await points** in `onAnswer`: a verdict is set on whatever shows after a hash was computed.
* **Something that must eventually happen**: a degraded service heals, a login returns, a quiz ends.

## 2. Modules and the code they model

`SRS` → `ReviewLedger` → `AttemptsLedger` ← `Attempts` ← `SRS`; `AttemptsLedger` → `MCAttempts`; `SeqFilter` → `RateLimiter`, `SlidingWindow`,
`ReviewLedger`, `AttemptsLedger`; `SlidingWindow` → `RateLimiter` → `Degrade` → `Session` ←
`ContentCache` → `Supply` ← `SeqFilter`; `ChatOutcome` → `Session`, `ChatCall`; `RateLimiter` → `ChatCall`; `EventStream` → `Stream`;
`TokenStore` → `LoginFlow`; `Serve`; `Placement`; `Quiz`. (An arrow leads to the module that
uses the other.) A definition with `_Faulty` in its name is a plausible bug of the definition it
sits above. No specification uses one; each shows that a property can fail. Most modules state the types of their variables as `TypeOK`, for the reader and for
the proofs, whose inductive invariants contain it; a run checks that of `Attempts`. A module `XProofs` holds the theorems about `X`:
`AttemptsProofs` also those about the ledger, `SessionProofs` those about the cache, the limiter and `ChatCall`, `CommandProofs` those about `Supply` and `Serve`,
the models of the commands of `cmd/app`, and `OperatorProofs` the lemmas about `SRS`, `SeqFilter` and sequences.

**SRS** (pure, proved about). `NextCard` is `srs.Next`. Easiness is in exact hundredths, so 0.8, 0.02 and
0.1 lose nothing and `math.Round` becomes `(days * ease + 50) \div 100`. `QualityFromLatency`,
`clampQuality`, `NextReviewAt` are the functions of those names.

**ReviewLedger** (abstract). The promise of the scheduler: each grading event is one atomic SM-2 step on
the card of its (user, word) pair; `log` remembers the grades so that `CountersTellHistory` can say
what the numbers of a card mean.

**Attempts** (core). `attempts` is the table, with ids as positions. A request of slot `r` goes `idle` →
`Accept` (decode and validate; `Reject` for the 400) → `LoadState` (`LatestForWord`) → `GradeCard`
(`srs.Next` in memory) → `InsertRow`, `InsertReportsFailure` or `QueryFails`: a failed query leaves the table alone, but an insert may also
report a failure with its row in, when `LastInsertId` fails or the context ends once the statement has run. `NewerThan` is `ORDER BY created_at DESC, id
DESC`, including the tie-break. `DueRows` is the query of `ListDue`, over every row. `NextDay` may pass between any two steps. **AttemptsLedger** maps it to
`ReviewLedger`: the card of a pair is the one of its newest row, the log of a pair the grades of its rows. **MCAttempts** adds TLC's symmetry.

**SeqFilter** holds one operator, `Filter(list, keep)`: the members of a sequence that are in a set, which is the loop of `gcLocked` and the `WHERE` of a
query. It is a recursive function of the position, so that facts about it can be proved.

**SlidingWindow** (abstract) and **RateLimiter**. The list of times becomes a list of ages up to `Window`;
`Collected` is `gcLocked`, a `Filter` for the ages in `Fresh`. Each method holds the mutex throughout, so each is one action. The mapping to
`SlidingWindow` says that lazy collection is invisible. **Degrade** adds the thresholds of
`DefaultThresholds` in percent.

**ContentCache**. One `WithCache` call per caller, with a step per query: `FindHit`/`FindMiss`/`GetFails`,
`CountHit`/`CountHitFails`, `Generated`/`GenFails`, `Save`/`PutFails`. `Put` is the upsert and leaves
`hit_count` alone; a put that reports an error may have stored all the same. A stored text may be `Undecodable`, left by an earlier build. `seen` is a
history variable: which calls have read or stored the row of their key without another call storing it since. It tells a call that
generates although it could have found the row from one that lost a race.

**Session** composes `Degrade` and `ContentCache` into `GET /api/sessions/today`. The stages are those of
`handleToday` and `buildSession`; `Chat` is one call of the chat client with the five outcomes that its callers
tell apart, and it records in the limiter what the client records. `GeneratorRetries` /
`GeneratorGivesUp` are the loop of generator.go:76-92. `Expire` is the 60 s deadline or a client that
leaves, at any step; after it every call fails, while stream writes go on, as in the code. A
payload is the number of items, which is all the stream depends on, and the generator takes any number of items that decodes.

**Supply** composes `ContentCache` twice (`INSTANCE` for the batch, `EXTENDS` for the server's sessions)
with the `words` table. A key is the level and the words with their glosses. A payload is whatever the model
answered: `Generate` takes any output that decodes, whether or not it fits the words, so nothing is said about that. `NightStarts`, `NightLists`, `ProbeHits`,
`ProbeMisses`, `ProbeCounted`, `JobStep`, `JobEnds` are `runPregenerate` and `pregenerateForUser`;
`NightDies` kills the process anywhere. Without users a night is over when it starts. `ListByCEFR` is the set of the lists the query may
give: the model has no ids, so words of one rank come in either order. `PostProcess` is the function of curriculum.go, and
`PlanKeepsPromises` compares it with a definition that does not mention its order of operations.

**TokenStore** models files, not names: `tmp` and `auth` are names that refer to files, and a process that has
a file open keeps writing to it after its name has moved. `OpenTmp` truncates, `WriteTmp` writes and closes,
`Rename` moves whatever the name refers to. **LoginFlow** adds the listener, the callback
goroutines with their channel of capacity one, the timeout, the exchange and the shutdown of `app login`.

**Placement**. Server sessions with `Asked` and `Resps`, the page with its pending requests and the
onboarding row. The page may start a second test, by a double click or after a failed save. The estimate of theta is abstracted to "precise enough or not" once `MinPrecise`
answers are in, and the next item is any item not asked. `ListFails` is the failure after the
response has been appended. `disturbed` is a history variable: two requests overlapped, a reply was lost, or the
item list failed.

**Quiz**. The server is a script of events that has the form `Session!StreamWellFormed` guarantees; the script of a session numbers its questions,
and `streams` keeps, for each session, which of them the page can parse. One that it cannot is dropped (`QuestionDropped`), so the place of a question in
the queue and its place in the stream are two different things. The
connection breaks at any moment and `EventSource` connects again, to a session with questions of its own. A `Click` is a run of `onAnswer` with
its two awaits as separate steps. `FinishTest` is the effect behind "finished". `hasty` is a history variable: the
learner clicked again before the verdict was there.

**EventStream** (abstract) and **Stream**. `EventStream` is an event stream as its reader sees it: a prefix of the events, in order,
nothing lost but by a broken connection, nothing after the end. `Stream` has the two goroutines of `handleToday`: each takes
`mu`, writes a frame in two fragments, flushes and releases (`Lock`, `Write`, `Flush`, `WriteFails`). `HandlerReturns` cancels
the context and ends the response without waiting. `BeatWakes` and `BeatReturns` are the two cases of the `select`, which may
choose either when both are ready. A heartbeat that holds a tick may therefore use the response after its end, which net/http forbids: `late` records it,
and the write may then go nowhere in this response, report an error (`WriteFails`) or panic, which ends the process (`BeatPanics`). The abstraction forgets the keepalives and the fragments of an event but its last.

**ChatOutcome** names what a call of the model can come to and which outcomes are `Retryable`. **ChatCall** opens the step that `Session` takes in one: the token (`TokenFound`, `TokenMissing`), the request (`SendFails`, `Answers` with a
status outside 2xx, `AnswersOK`), and `Judge`, which applies `extractText` and the order of the tests in `Chat` and decodes.
`Conclude` is the retry loop of the generator, and with `retries = 0` the single attempt of `ChatStructured`. A text is absent, decodes
or does not.

**Serve** is `app serve` in several processes over one database: `CountItems`, `LoadBank`, `InsertItem`, `CommitBank` are the seed,
whose transaction takes SQLite's write lock with its first insert; since `runServe` sets no busy timeout, whoever finds the lock
taken fails at once (`StartFails`). Then `Listen`, requests, and after a signal `Shutdown`, `Drained` or `DrainTimesOut`. `Crash` is a
kill anywhere. The old process frees its port before it has drained, so the next one may start beside it.

## 3. Runs

Distinct states as TLC reports them; each run ends within three minutes on two workers. `CHECK_DEADLOCK FALSE` stands
where the system may really stop: a page that is done or left, a response that is over, processes that have all ended.

| run | states | what it shows |
|---|---|---|
| MCAttempts | 1,035,000 | two overlapping requests, two words, two days, three rows |
| SerialAttempts | 81,000 | the same without overlap implements the ledger |
| OfferedWordsAreDue | | violation: a superseded row is due |
| MCSupply | 1,468,000 | a session, two nights with kills, an ingest, on one cache |
| PregeneratedIsServed | | violation: the batch's key is not the session's |
| Session | 338,000 | two concurrent sessions on one key and one limiter, with fairness |
| LoginFlow | 550,000 | two processes that log in, refresh, log out and die |
| MCPlacement | 1,185,000 | the placement page with two requests under way and two tests |
| Quiz | 365,000 | two streams of up to three questions, some unreadable, two overlapping clicks |
| Stream | 171,000 | a handler and its heartbeat on one response |
| ChatCall | 99,000 | every small reply, status and failure in the retry loop |
| Serve | 23,600 | three processes seed, serve, are signaled and killed |

**MCAttempts** checks that, however requests interleave, each row is one SM-2 step from a card stored for its own word
(`RowsFollowSM2`), lost updates only lose and never invent counters
(`CountersNeverInvented`), cards and times stay in range (`StoredCardsInRange`), and the row loaded is the last
inserted (`LatestIsLastInserted`), failed inserts with and without their row among them. Two requests and three rows are the smallest instance in which a lost
update is followed by a request that reads its result; two words let rows of another word lie between;
the latency 6000 with the implicit 0 gives the qualities 0, 2, 3 and 5.

**SerialAttempts** constrains the same actions by `OneAtATime'`: no two requests of a pair are under way. Then
`ImplementsLedger` holds, and with it `CountersTellHistory` and `IntervalGrowth`, for all streaks and lapses of up to
three answers. An answer that was stored but reported as failed, and is given again, counts as two events of the ledger, which is what the table says. Three successes reach the branch that multiplies by
the easiness. Without the constraint two overlapping lapses count once, so the constraint is needed.

**OfferedWordsAreDue** says that a row of the due list is the row that schedules its word. Two rows of one word and one night refute it.

**MCSupply** checks that what was served stays servable (`AnsweredKeysStayServable`), that neither a session nor the batch generates over a
payload it could have found (`StoredIsServed`), that hits are never invented (`HitsNeverInvented`), that a night which is not killed comes to every
user whatever fails and to its end (`NightReachesEveryUser`, a liveness property), and `PlanKeepsPromises` for all lists of up to four
named words. `StoredIsServed` is about one key: that session and batch use different keys for the same words is the violation of `PregeneratedIsServed`. Two users at the same level let the second find what the first stored; two
nights let a killed batch start again; the two word files change order and
gloss between listing and storing. `ListLimit = 1` and one word per answer keep the keys few: a key's
identity, not its length, is what the properties depend on. `MaxCount = 3` saturates `hit_count` and
`probed` alike, so `HitsNeverInvented` compares exact numbers for every key found fewer than three times.

**Session** checks `StreamWellFormed`, `ShownIsServable`, `EveryRequestEnds`, `DegradationHeals` and `ImplementsWindow` with two slots that serve
request after request. `NoGenerationWhenThrottled` is conditional, `[]OneAtATime => []...`: with overlap another request
may be throttled between the gate and the call. With `Threshold = 2`, no signal, one and two are the levels 1, 2 and 4; level 3 opens
and closes the same gates as level 4. `MaxEvents = 3` lets the list pass the threshold, and a window of two ticks lets an old signal leave
while a young one stays. `maxRetries = 1` where the code has 2: one retry already is a second call with the deadline, the throttling and the other slot in between.
`ChatCall` counts the retries with the code's value.

**LoginFlow** checks `RefreshTokenNeverLost`, `LoginsSaveAlone` and `LoginReturns` for logins, refreshes, logouts and kills in any order. The
file itself is whole only as far as the code cares: `apart` is a history variable, true while no refresh has saved beside another call, and
`AuthIsWholeWhenApart` and `SavesPublishTheirToken` hold while it is true. Logins among themselves are not part of that condition: the port must keep them apart, and
a mutant that closes it early is caught. Three tokens are two logins and a refresh, or a login and two refreshes that overlap. One callback under way at a time fills the
channel and then blocks a goroutine (one result read, one in the channel, one blocked); four files are two for the names and one for each process.

**MCPlacement** has three items, `maxItems = 2`, four answers and two sessions, so a session can pass its stop rule and be answered after it is done, and
the page can start a second test while requests of the first are under way. The bound on answers keeps a session from running out of items; only the proof covers
that. `AsksEachItemOnce` holds however requests overlap; `CalmTestIsExact` says what a learner who waits for each reply gets, in the first test and in one that
is taken again, and none of its four parts holds without that calm: in particular a late reply puts an item of an earlier moment, or of the other test, on the page.

**Quiz** checks `QueueFollowsStreams`, `VerdictIsOfTheQuestionShown` and the liveness property
`QuizFinishes`. Two streams are one reconnection; two clicks are the overlap of `onAnswer` with itself. `QueueFollowsStreams` compares the queue with
what the server sent: the order, no question twice, nothing readable skipped before a question that is held, and a session that came to its `done` complete. The
questions of a session that was cut off stay in the queue before those of the next one.

**Stream** sends up to four events (the shortest complete stream has a plan and a done, an error alone is one) with up to
`MaxTicks` ticks, of which a deadline of 60 s admits four. It checks that frames neither mix nor stay unflushed (`FramesNeverMix`), that the response
implements `EventStream` (`ImplementsEventStream`) and, with fairness, that handler and heartbeat end (`BothGoroutinesEnd`).

**ChatCall** enumerates every output of one item with two parts or two items with one, with and without incomplete
marks, and every combination of top-level marks over the smallest outputs. `ContentIsWhole` excepts a reply with a top-level
`output_text`, whose parts the client never reads. `RetriesAreEarned` holds the number of attempts and the token budget against a history of the outcomes
and has a truncation retried while attempts are left; when a refusal is given up it leaves open, since comment and loop of the generator differ there (section 6).
`SignalsAreThrottles` holds the limiter against what was answered.

**Serve** has three processes and four starts: two that race for the seed and one that is started again. `BankIsWhole` also says that a server has its
bank: it holds because a process that loses the race for the write lock fails. `SeededOnce` is conditional on `[]OneProcess`, since two processes that both find the
table empty seed it twice. `SignalStops` is the liveness of the shutdown.

Every property of a passing run has a mutant in PROJECT.json, a bug of the mapped code with which TLC
finds that property violated.

## 4. Fairness

* `Session!FairSpec`: `WF(Handler(s))`. Every query and every call of a handler takes the request's context, which
  ends after 60 s (sessions.go:70), so a call returns, with an error if nothing else; no step waits for another
  request except for the limiter's mutex, held for a few lines. `WF(TickOfClock)`: time passes. There is no fairness on `Open`:
  `DegradationHeals` says "a time comes after which no request is denied", not that one comes. It has
  the escape that the provider throttles for ever, which the code cannot prevent.
* `Supply!FairSupplySpec`: `WF(NightWorks)`, a batch that is alive goes on: its queries are local, the retry loop of the generator is bounded, and the chat
  client gives up on a request after 90 s (chatgpt/client.go:44). Nights need not start, kills need not come, and sessions and ingests need not go on.
* `LoginFlow!LoginSpec`: `WF(LoginStep(p))`. Each step has its bound: the login's own timeout, the HTTP client's
  timeout, two seconds for the shutdown, and file operations. Callbacks have none: a browser need not
  call, and a goroutine that blocks on the channel is never assumed to go on.
* `Quiz!Spec`: `WF(GoNext)` and `WF(Answering(c))`. The actor is the learner, who answers a question that shows and presses the
  button that shows. The stream has no fairness; `QuizFinishes` starts from a `done` that has arrived.
* `Stream!FairSpec`: weak fairness of each goroutine. A write returns, since a stream is a few kilobytes, which a socket takes unread,
  and a broken connection fails it; the handler's own calls end with its context. Ticks and the deadline have none.
* `Serve!FairSpec`: weak fairness of `Proceed(p)`, the steps a process takes by itself, the deadline of its shutdown among them. Requests need
  not finish, and clients and users need not act.

The other specifications state safety only and need no fairness.

## 5. Proofs

Eight modules hold theorems, checked by TLAPS for every value of the constants: any number of requests, sessions, processes, clicks and
answers, any latencies, items, keys, windows and thresholds, and any value of the `Max...` bounds. What is assumed of a constant is a named
`ASSUME` of the module that declares it, and TLC evaluates each in the runs of that module:

* `AttemptsAssumption`, `PlacementAssumption`, `QuizAssumption`, `RateLimiterAssumption`, `SessionAssumption`, `ContentCacheAssumption`, `StreamAssumption`,
  `TokenStoreAssumption`, `ChatOutcomeAssumption`, `ServeAssumption`: bounds are natural numbers, latencies integers, ids positive (as SQLite's are), the bank is not
  empty, values that stand for "none" differ from the others;
* `ChatCallAssumption`: a reply is a value of the Go type `Response` and a status outside 2xx one of 300 to 599; which replies and
  statuses occur is left open;
* `SupplyAssumption`: a user has a level, a file of words is a map from lemmas to rows, the batch's limit is not 0, and whatever words
  a plan or a list names have a key and can be generated for;
* `FilesAssumption`: there are finitely many processes and more files than processes, so that a name that does not exist can always
  get a file nobody has open. A file system has no such limit; the model's `Files` must not introduce one.

| theorem | states |
|---|---|
| `OperatorProofs!GradeTellsCorrectness` | the quality derived from a latency is a lapse exactly when the answer was wrong |
| `OperatorProofs!SlowerNeverBetter` | a slower correct answer earns no better quality |
| `OperatorProofs!NextCardStep` | `Next` returns a card in range with exactly one counter moved |
| `OperatorProofs!BetterGradeWins` | a better quality yields no lower easiness and no shorter interval, from any card in range |
| `OperatorProofs!FilterAppend` | what `Filter` computes, for every sequence and set |
| `OperatorProofs!FilterTwice` | filtering for one set and then for another is filtering for their intersection |
| `AttemptsProofs!TypeCorrect`, `RowsAreSM2Steps`, `StoredCardsCorrect`, `LatestCorrect`, `CountersCorrect` | `Spec => []Inv` for `TypeOK`, `RowsFollowSM2`, `StoredCardsInRange`, `LatestIsLastInserted`, `CountersNeverInvented` |
| `AttemptsProofs!LedgerRefinement` | `SerialSpec => ImplementsLedger`, that is `SerialSpec => Ledger!Spec` |
| `AttemptsProofs!CountersCountHistory`, `IntervalsGrow` | `SerialSpec => []CountersTellHistory`, `SerialSpec => IntervalGrowth` |
| `SessionProofs!AnswersStayServable`, `StreamsAreWellFormed`, `ShownContentIsServable` | `Spec => []Inv` for `AnsweredKeysStayServable`, `StreamWellFormed`, `ShownIsServable` |
| `SessionProofs!WindowRefinement` | `Spec => ImplementsWindow`: lazy collection implements the sliding window |
| `SessionProofs!GateHoldsUntilGeneration` | `Spec => NoGenerationWhenThrottled` |
| `LoginFlowProofs!LoginsAlone`, `RefreshTokenKept`, `AuthStaysWhole` | `LoginSpec => []Inv` for `LoginsSaveAlone`, `RefreshTokenNeverLost`, `AuthIsWholeWhenApart` |
| `LoginFlowProofs!PublishedTokens` | `LoginSpec => SavesPublishTheirToken` |
| `SessionProofs!ContentTakenIsWhole`, `EveryRetryEarned` | `ChatSpec => []Inv` for `ContentIsWhole`, `RetriesAreEarned` |
| `SessionProofs!SignalsAreAnswers` | `ChatSpec => SignalsAreThrottles` |
| `StreamProofs!FramesStayWhole` | `Spec => []FramesNeverMix` |
| `StreamProofs!StreamRefinement` | `Spec => ImplementsEventStream` |
| `QuizProofs!QuizTypeCorrect`, `QueueKeepsOrder`, `VerdictsFit` | `Spec => []Inv` for `TypeOK`, `QueueFollowsStreams`, `VerdictIsOfTheQuestionShown` |
| `PlacementProofs!NoItemTwice`, `CalmLearnersTest` | `Spec => []Inv` for `AsksEachItemOnce`, `CalmTestIsExact` |
| `CommandProofs!StoredServes`, `ServableBesideTheBatch`, `HitsWereFound` | `SupplySpec => []Inv` for `StoredIsServed`, `AnsweredKeysStayServable`, `HitsNeverInvented` |
| `CommandProofs!PlansFit` | `FitsPromises` of `PostProcess`, for every list of named words, set of recent words and absence |
| `CommandProofs!PlansKeepPromises` | `SupplySpec => []PlanKeepsPromises` |
| `CommandProofs!BankStaysWhole` | `Spec => []BankIsWhole` |
| `CommandProofs!SeededAtMostOnce` | `Spec => SeededOnce` |

### The inductive invariants

Each was checked by TLC before it was proved. Hardly any property is inductive as it stands.

**Attempts.** `LatestForWord` is a `CHOOSE` of the first row of the `ORDER BY`; for the card a handler loads even to have a type, such a
row must exist. So `IInv` carries

* `Ordered`: `created_at` never decreases along the ids and is never in the future, so the tie-break of the
  query and the order of insertion agree. It holds because `created_at` is taken by the insert itself;
* `HasLast`: a pair with rows has a last one;
* `HandlersSound`: a handler about to grade holds the card of a row of its own pair, or the fresh card, and a
  handler about to insert holds one SM-2 step from such a card. This survives the inserts of others because
  the table only grows (`Bases` is monotone);
* `RowsInRange`, `CardsInRange`: the floor of the easiness and of the interval, for stored rows and for
  those about to be stored.

`RowsFollowSM2` at an insert is `HandlersSound`; `LatestIsLastInserted` follows
from `Ordered` and the definition of the order; `CountersNeverInvented` follows by comparing a row with the base of its
step, one case for a lapse and one for a success.

**The ledger.** Without overlap the three steps of a handler are one event of the ledger, because what it holds is the card its pair has *now*:
`SerialInv` adds `CardIsCurrent` to the invariant above, and `RoomIsLeft`, without which the bound on the table could stop a handler
between its steps. The insert is the only step the ledger sees; the log of the pair grows by its grade, by the lemmas on `Filter`.
The two properties of the ledger follow from its own steps: `CountersTellHistory` by one case for a lapse and one for a
success, `IntervalGrowth` by what `NextCardStep` says of rounding.

**Session.** Three programs meet in a request. `CallsSound` says what a call of `WithCache` holds at each of its queries and that its key has a
payload once it has found or stored one; `StagesSound` ties the stages of the handler to those of its call; `StreamSound` says that nothing is
written before the send stage and that a stream that begins with a plan belongs to a call that answered. `ImplementsWindow` needs none of
them: it rests on `FilterTwice` (collecting what has been collected changes nothing) and on the step of the clock, which moves an age out of
`Fresh` when the ideal window forgets it. For `NoGenerationWhenThrottled` the invariant `GateHolds` says that a call that has passed the gate still finds it open;
it is kept by whatever does not record a signal, since collecting and ageing only take signals away.
`SeenSound` says that what a call has found or stored is in the table until another call stores its own, which is what lets `ShownIsServable` compare the questions shown with the stored payload.

**LoginFlow.** `NamesDiffer`, `TokensKept` (no token that is stored or about to be lacks its refresh token) and `LoginsHoldPort` always hold.
`SaverOwnsTmp` is the part that depends on `apart`: the saver that is alone writes the file behind the temporary name, opened
empty, and finds its own token there when it renames. The mutex between two logins in that argument is the port.

**Stream.** `MutexHeld` says that being inside a write is holding the mutex; `Shape` that the wire is pairs of fragments, but for the last;
`FrameUnderWay` whose the unpaired fragment is; `Flushed` and `EventsWhole` what has been passed on and which events are complete. In the refinement
the step that completes an event is the one the reader sees.

**Quiz.** `ScriptLeft` says that what the server still has to send is the rest of one session from some place on (`Rest`), and that whatever can be read before
that place has arrived (`Arrived`), which also bounds the queue (`QueueFits`). The event that arrives is the one at that place, so a question is behind
everything that is queued of its session and ahead of the rest, whether it is read or dropped. `DoneCloses`: after a done no other session starts. `VerdictsSound` is `VerdictIsOfTheQuestionShown` with what makes it inductive: at most one answer is being hashed, it is for the question
shown, and no verdict shows meanwhile.

**Placement.** `RequestsSound` says that requests and replies name sessions that exist and items these have asked; `PageSound` that the item shown was asked by some session.
`CalmPage` adds where the learner is who waits: at most one request is under way, and the page, that request and the session agree on the item that is being
answered (`Awaits`).

**ChatCall.** `AttemptsSound` says that a call under way has attempts left and that each attempt so far earned the next one; `AnswerSound` ties the step to what was
read. `BudgetSound` compares the budget with `GrownBudget`, a recursive function of the number of truncations: the proof shows first that its recursion has a
solution of every length, so that an attempt that is cut off moves the budget one line down and a refusal leaves it. `ContentIsWhole` is about the reply
alone: `Judge` takes a reply for content only if it decodes, is neither an error, refused nor incomplete at the top, and, unless a top-level text hides its parts, no part
refuses and no item is incomplete, whatever the shape of the reply.

**Supply.** Two programs call `WithCache`, and a call of either moves by the same relation, `Moves`, from which the rest is proved once for both. `HoldsPayload` says that
what a call holds at each of its queries is a payload and that its key has one once it has answered; `ServedSound` that a call which has seen its row generates only where
there is no payload, which the other program keeps because a store of the same key takes the others out of `seen`. `JobSound` ties the batch's key to its call and `UsersSound` counts the users that are
left. `HitsNeverInvented` is not inductive, since both programs count after they have found: `HitsSound` adds that a hit the batch `Owes` leaves room for its
count. A session owes the same, but has not answered yet when it counts and has when it is compared, in one step.

**Plans.** `PlansFit` is about a function, not a behaviour: `Dedup`, by induction on the sequence, keeps the first of each word at the place the number of
firsts before it gives, so trimming after it costs no repeated word a place. `PlansKeepPromises` follows for every state.

**Serve.** `OwnersSound` says who has the write lock and who the port; `BankSound` that the table is a whole number of copies, which is what `%` in `BankIsWhole` says,
and that whoever is past its seed has one. For `SeededOnce`, `SeedSound` says that a process on its way to insert has found the table empty and that it still is;
that two processes that run at a time are the same needs the set of running ones to be finite, which is part of the invariant because `Processes` need not be.

**Induction over data.** The induction theorems of the library take an operator, which no installed prover can instantiate. `OperatorProofs` proves
induction on a *set* of numbers instead, from the fact that a non-empty set of naturals has a least element, and so induction on a *set* of sequences.
That gives what the recursive functions in `Filter`, `Dedup` and `GrownBudget` compute for every input. It is why they are functions and why `Filter` takes a set and not a test.

### What is only model-checked

* Liveness (`EveryRequestEnds`, `DegradationHeals`, `NightReachesEveryUser`, `LoginReturns`, `QuizFinishes`, `BothGoroutinesEnd`, `SignalStops`), which needs `ENABLED`. Every other
  property of a passing run is a theorem.

## 6. Findings and observations

### Findings, each shown by a run

* **The batch prepares what no session asks for** (`PregeneratedIsServed`, sessions.go:199). The batch's words carry the gloss of
  the table into the hashed input, the session's words do not; the keys differ whenever a gloss is there.
* **A word just reviewed is offered as due** (`OfferedWordsAreDue`, repo/attempts.go:66). `ListDue` looks at every row, not at the newest of each
  word, while curriculum.go:29 calls a `DueWord` an SRS-due word. Rows are never removed and the oldest come first, so once 20 of them lie in
  the past a session is given the same 20 for ever, and words that come due later are not offered at all.

### Observations without a run of their own

The first four are the conditions under which a property above is stated; without the condition TLC refutes it.

* Two overlapping wrong answers to one word both load the same card and both store `lapses` 1 (attempts.go:55), while sm2.go:22 calls the field the
  "total number of lapses". `RowsFollowSM2` and `CountersNeverInvented` say how bad it can get: no row is wrong, one step is missing.
* All saves of the token use `auth.json.tmp` (store.go:113). One save opens it with O_TRUNC after another has written it and before that one
  renames it, so a refresh beside another save may publish a torn file, although store.go:100 promises an atomic write.
* Count and insert of the seed are apart (seed.go:16): processes that start together seed the bank twice. The copies have ids of their own, so a
  placement test may then ask a prompt twice.
* With overlapping sessions one may generate at a level that forbids it (sessions.go:119).

The others were met while reading.

* The heartbeat may begin a keepalive after the handler has returned (sse.go:102): `Heartbeat` neither prefers the done context to a tick nor looks
  again once it has the mutex, and nobody waits for it. net/http forbids the use of a ResponseWriter whose handler has returned. `Stream` has the
  step and remembers it in `late`, so `~late` fails after a few steps: a tick that waits when the handler returns. The comment of
  `Heartbeat` has it write "until ctx is canceled". A panic there would end the whole process.
* The quiz page posts `word_id: 0` (Quiz.tsx:113), which the handler refuses with 400 (attempts.go:50): none of its answers is recorded.
* The candidates for new words are the first 20 words of the level by frequency, answered or not (sessions.go:178); no other word of the level is ever offered.
* The upsert leaves `hit_count` alone (content.go:43), while the comment above `Put` has it reset.
* The generator retries a refusal as often as a truncation, twice (generator.go:86), where the comment above `Generate` says once.
* A good model lowers the sampling rate of the reviewer (reviewer.go:185), where the design has it climb (docs/design.md:113).
* Items are stored before they are reviewed and the review changes nothing (sessions.go:134), while docs/plan.md:97-99
  orders them the other way.
* At level 3 the cache is not consulted either (sessions.go:119 against degrade.go:7), and level 4 has no
  static pool behind it (degrade.go:8).
* A refresh in flight overwrites a logout or a newer login (oauth.go:379, 382).
* The stop rule of the placement test and its single user row (docs/design.md:97, 98) hold only when requests do not
  overlap; `CalmTestIsExact` makes that precise.
* `EventSource` reconnects after an error event, so a session that fails is started again, with its model calls, until
  the page is left. A session of zero questions never reaches "finished".
* The probe of the batch takes a row that does not decode for a hit and never repairs it (pregenerate.go:145).
* `DaysSinceLastSession` is always 0 and recent lemmas are never passed, so the circuit breaker of the
  curriculum never trips from a session; `PlanKeepsPromises` covers the function, not that use.
* `days_since_review` of a due word is the number of days it is overdue (sessions.go:163).
* A top-level `output_text` hides the refusals and incomplete marks of the parts (client.go:271).
* The report counts the answers of all users (stats.go:45, 55), and its streak is 0 until the first answer of the day.
* Words without a level are compared with those of A2, and only the 500 most frequent words of a level are candidates for
  neighbours (handler/words.go:109-113).
* docs/design.md:126 stops new words when reviews pile up; no code does.
* The foreign-key pragma is set on one connection of a pool (serve.go:49).

## 7. Assumptions and what is left out

* **SQLite**: one statement is atomic and durable, and may fail; nothing more is assumed. Texts of times are not modelled, a
  time is a day number, and the ids of a day's rows give their order.
* **Clocks** do not go back.
* **Easiness** is exact where the code has a float64. The code's values are hundredths up to rounding errors far below the
  half day at which `math.Round` decides, except where the product lies exactly on a half.
* **A model's answer** is a member of a small set: it succeeds, is cut off, refused, throttled (429 or 5xx) or fails.
  Prompts, JSON and masking are left out, and a payload is what the properties tell apart of it.
* **A key** hashes level and words; the per-word CEFR field of the code's input, equal to the level here, is left out, and
  SHA-256 is assumed injective on the keys that occur.
* **A login** brings a refresh token (the scope asks for one). A process ends after `app login`.
* **Bounds** are the `Max...` constants, each in the guard of the action it bounds, and are described
  where they are declared. `MaxCount` saturates a counter instead of stopping it.
* **Symmetry** is used in runs without liveness properties only; its sets are permutations of requests or items that no other constant mentions.
* **net/http**: a response is over when its handler has returned. What is written to it afterwards is not on this response; the write may fail or panic. What it does
  to another response of the same connection no model follows.
  The response may pass on bytes before a flush.
* **Migrations** belong to goose; `Serve!StartServer` begins after them.
* **Left out of modelled parts**: `ListByUser`, in-memory counters, `Reset`, `Tripped`, `AllowOnlyCache`, `UseStaticPool` and `SetSeed` (called by tests
  only), the reviewer's window and rate (`Session` lets it review or not at each item), the candidates for new words (one query), PKCE and URLs, `buildRequest`, the arithmetic of `irt`, vectors and
  file parsing of `ingest`, the hint and the flash of the quiz page.
* **Not modelled at all**: licence check, words, statistics and friction handlers, router, static pool, schemas and masking, middleware,
  configuration, migrations, vector search, other pages and scripts. They keep no state, or read a list or insert a row in one statement; a model
  of them would restate one query. The static pool is not on the serving path. The component list of PROJECT.json gives each its reason.
* **Hazards without a property** (PROJECT.json): the range of dates after a very long streak (attempts.go:66), texts of times in two zones
  (sessions.go:152), the refresh that overwrites a logout or a newer login (oauth.go:379), and the hit count of a replaced row (content.go:43). Each has its reason there.

## 8. Plan

Done, in the order of the importance of what they model: `SRS`, `ReviewLedger`, `Attempts` with proofs; `RateLimiter`,
`Degrade`, `ContentCache`, `Session`; `TokenStore`, `LoginFlow`; `Supply`; `Placement`; `Quiz`.

Then `Stream` with `EventStream`, `ChatCall` and `Serve`. Nothing that is left keeps state that another part depends on; a further model would
compose what is here: `Stream` as the channel between `Session` and `Quiz`.

Proved: all safety properties of the passing runs, with the three refinements `ImplementsLedger`, `ImplementsWindow` and `ImplementsEventStream` (section 5).

What a next step could add:

1. The composition: `EventStream` between `Session` and `Quiz`, in the place of the script, whose form `StreamsAreWellFormed` proves and `Quiz` assumes.
2. The window of verdicts of the reviewer, if something comes to depend on its rate.

## Running it

```
tlc -workers 2 -config MCAttempts.cfg MCAttempts.tla
tlapm AttemptsProofs.tla
```

PROJECT.json lists each run with its module, configuration and properties, the mutants, the source lines of
every definition, the hazards and the theorems.
