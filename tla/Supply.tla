------------------------------- MODULE Supply -------------------------------
(***************************************************************************)
(* Who fills the content cache: the sessions of the server, and the nightly *)
(* batch `app pregenerate` (cmd/app/pregenerate.go), a process of its own  *)
(* that works through the users while the server goes on, and that may die *)
(* and be started again.  The words come from `app ingest`                 *)
(* (internal/ingest/words.go), a third process.                            *)
(*                                                                         *)
(* A key is what cache.Key hashes and these processes tell apart: the      *)
(* learner's level and the words, each with its gloss.  A payload is        *)
(* whatever decodes: the generator accepts any list of items.              *)
(***************************************************************************)
EXTENDS ContentCache, SequencesExt, SeqFilter

CONSTANTS
    Lemmas,                 \* the words
    Levels,                 \* CEFR levels
    NoGloss,                \* gloss_ja is empty
    NoEntry,                \* a lemma that is not in the words table
    WordFiles,              \* the files ingest can be run on
    UserLevels,             \* the level of each user, in the order of their ids
    MaxTargets,             \* curriculum.MaxTargets
    CircuitBreakTargets,    \* curriculum.CircuitBreakTargets
    ListLimit,              \* the limit the batch gives ListByCEFR
    MaxAnswer,              \* bound on the targets a model names in a session
    MaxNights,              \* bound on the runs of the batch
    Job                     \* the batch as a caller of the cache

CEFRKey(words, level) == [words |-> words, level |-> level]

LemmasOf(key) == [i \in DOMAIN key.words |-> key.words[i].lemma]

\* A word as a file of ingest or the words table describes it.
Glosses ==
    {NoGloss} \cup UNION {{file[l].gloss : l \in DOMAIN file} : file \in WordFiles}

Entry == [cefr : Levels, gloss : Glosses, rank : Nat]

Target == [lemma : Lemmas, gloss : Glosses]

\* No list of words is longer.
MaxWords == IF MaxAnswer > ListLimit THEN MaxAnswer ELSE ListLimit

\* Whatever words a key is made from it is a key.
ASSUME SupplyAssumption ==
    /\ CircuitBreakTargets \in Nat /\ MaxTargets \in Nat
    /\ ListLimit \in Nat \ {0}    \* 0 would be no limit
    /\ MaxAnswer \in Nat /\ MaxNights \in Nat
    /\ UserLevels \in Seq(Levels)
    /\ Levels # {}
    /\ Job \notin Callers
    /\ \A file \in WordFiles : file \in [DOMAIN file -> Entry] /\ DOMAIN file \subseteq Lemmas
    /\ NoEntry \notin Entry
    /\ \A words \in BoundedSeq(Target, MaxWords), level \in Levels :
         CEFRKey(words, level) \in Keys

VARIABLES
    vocabulary,     \* the words table: an entry of each lemma
    nights,         \* how often the batch was started
    night,          \* the batch: where it is, and for which user
    outcomes,       \* what the batch did for the users it has finished
    probed,         \* history: the hits of the batch's probe of each key
    jobCall         \* the batch's call of WithCache

nightVars == <<nights, night, outcomes, probed, jobCall>>

supplyVars == <<cacheVars, vocabulary, nightVars>>

Night == INSTANCE ContentCache WITH Callers <- {Job}, call <- jobCall

EmptyKey == CEFRKey(<<>>, CHOOSE level \in Levels : TRUE)

Outcomes == {"failed", "skipped", "hit", "saved"}

SupplyTypeOK ==
    /\ CacheTypeOK
    /\ Night!CacheTypeOK
    /\ nights \in 0..MaxNights
    /\ night \in [pc : {"off", "list", "probe", "count", "call", "over"},
                  key : Keys]
    /\ outcomes \in Seq(Outcomes)
    /\ probed \in [Keys -> 0..MaxCount]
    /\ seen \in SUBSET ((Callers \cup {Job}) \X Keys)
    /\ vocabulary \in [Lemmas -> Entry \cup {NoEntry}]

-----------------------------------------------------------------------------
\* curriculum.postProcess, of the lemmas a model names.

Dedup(seq) ==
    LET kept[i \in 0..Len(seq)] ==
            IF i = 0 THEN <<>>
            ELSE IF seq[i] \in ToSet(kept[i - 1]) THEN kept[i - 1]
            ELSE Append(kept[i - 1], seq[i])
    IN  kept[Len(seq)]

CircuitBreakDaysCutoff == 3

TargetLimit(days) ==
    IF days >= CircuitBreakDaysCutoff THEN CircuitBreakTargets ELSE MaxTargets

TrimTo(seq, n) == IF Len(seq) > n THEN SubSeq(seq, 1, n) ELSE seq

PostProcess_FaultyTrimsFirst(named, recent, days) ==
    Dedup(TrimTo(Filter(named, Lemmas \ recent), TargetLimit(days)))

PostProcess(named, recent, days) ==
    TrimTo(Dedup(Filter(named, Lemmas \ recent)), TargetLimit(days))

Answers == BoundedSeq(Lemmas, MaxAnswer)

-----------------------------------------------------------------------------
\* The words table.

\* Ingest upserts a whole file in one transaction.
Ingest(file) ==
    /\ vocabulary' = [l \in Lemmas |-> IF l \in DOMAIN file THEN file[l] ELSE vocabulary[l]]
    /\ UNCHANGED <<cacheVars, nightVars>>

\* ORDER BY freq_rank, id LIMIT: the lists this may give.  Ids are left out, so
\* which of two words of the same rank comes first is left open; a word without
\* a rank has one above all others.
ListByCEFR(level) ==
    LET listed == {l \in Lemmas : vocabulary[l] # NoEntry /\ vocabulary[l].cefr = level}
        rank(l) == vocabulary[l].rank
    IN  {list \in BoundedSeq(listed, ListLimit) :
            /\ IsInjective(list)
            /\ \A i, j \in DOMAIN list : i < j => rank(list[i]) <= rank(list[j])
            /\ \A l \in listed \ ToSet(list) :
                 Len(list) = ListLimit /\ \A i \in DOMAIN list : rank(list[i]) <= rank(l)}

\* The batch keeps the gloss of the table.
BatchTargets(lemmas) ==
    [i \in DOMAIN lemmas |-> [lemma |-> lemmas[i], gloss |-> vocabulary[lemmas[i]].gloss]]

\* targetWordsFromPlan drops it.
SessionTargets(lemmas) ==
    [i \in DOMAIN lemmas |-> [lemma |-> lemmas[i], gloss |-> NoGloss]]

-----------------------------------------------------------------------------
SupplyInit ==
    /\ \E old \in [Keys -> {NoRow, Undecodable}] :
         /\ Cardinality({k \in Keys : old[k] # NoRow}) <= 1
         /\ content = old
    /\ hitCount = [k \in Keys |-> 0]
    /\ seen = {}
    /\ call = [c \in Callers |-> NewCall(EmptyKey)]
    /\ vocabulary = [l \in Lemmas |-> NoEntry]
    /\ nights = 0
    /\ night = [pc |-> "off", key |-> EmptyKey]
    /\ outcomes = <<>>
    /\ probed = [k \in Keys |-> 0]
    /\ jobCall = [j \in {Job} |-> NewCall(EmptyKey)]

\* A session's plan becomes its key; sessions.go passes no recent lemmas and
\* no days away.
PlanReady(c, level, named) ==
    /\ At(c, "new")
    /\ call' = [call EXCEPT ![c] =
                  [NewCall(CEFRKey(SessionTargets(PostProcess(named, {}, 0)), level))
                     EXCEPT !.pc = "lookup"]]
    /\ UNCHANGED <<tableVars, vocabulary, nightVars>>

\* The generator refuses an empty list of words before it calls a model, and
\* takes any answer that decodes.
SessionGenerates(c) ==
    /\ \/ call[c].key.words # <<>> /\ \E v \in Payloads : Generated(c, v)
       \/ GenFails(c)
    /\ UNCHANGED <<vocabulary, nightVars>>

SessionQueries(c) ==
    /\ ~At(c, "new")
    /\ QueryStep(c)
    /\ UNCHANGED <<vocabulary, nightVars>>

-----------------------------------------------------------------------------
\* The batch.

User == Len(outcomes) + 1

\* runPregenerate begins, as far as the loop over the users; without users it
\* is over.
NightStarts ==
    /\ night.pc \in {"off", "over"}
    /\ nights < MaxNights
    /\ nights' = nights + 1
    /\ night' = [pc |-> IF UserLevels = <<>> THEN "over" ELSE "list", key |-> EmptyKey]
    /\ outcomes' = <<>>
    /\ jobCall' = [jobCall EXCEPT ![Job] = NewCall(EmptyKey)]
    /\ UNCHANGED <<cacheVars, vocabulary, probed>>

EndsUser_FaultyStops(outcome) ==
    /\ outcomes' = Append(outcomes, outcome)
    /\ night' = [pc |-> IF User = Len(UserLevels) \/ outcome = "failed" THEN "over" ELSE "list",
                 key |-> EmptyKey]

\* pregenerateForUser returns; an error is printed and the loop goes on.
EndsUser(outcome) ==
    /\ outcomes' = Append(outcomes, outcome)
    /\ night' = [pc |-> IF User = Len(UserLevels) THEN "over" ELSE "list",
                 key |-> EmptyKey]

\* The words are listed, and the curriculum is asked but not heard.
NightLists ==
    /\ night.pc = "list"
    /\ \E listed \in ListByCEFR(UserLevels[User]) :
         IF listed = <<>>
         THEN EndsUser("skipped")
         ELSE /\ night' = [pc |-> "probe", key |-> CEFRKey(BatchTargets(listed), UserLevels[User])]
              /\ UNCHANGED outcomes
    /\ UNCHANGED <<cacheVars, vocabulary, nights, probed, jobCall>>

ListFails ==
    /\ night.pc = "list"
    /\ EndsUser("failed")
    /\ UNCHANGED <<cacheVars, vocabulary, nights, probed, jobCall>>

\* Any text that is not empty is a hit of the probe, also one that does not
\* decode.
ProbeHits ==
    /\ night.pc = "probe"
    /\ content[night.key] # NoRow
    /\ night' = [night EXCEPT !.pc = "count"]
    /\ probed' = [probed EXCEPT ![night.key] = Bumped(@)]
    /\ UNCHANGED <<cacheVars, vocabulary, nights, outcomes, jobCall>>

\* There is no row, its text is empty, or Get fails.
ProbeMisses ==
    /\ night.pc = "probe"
    /\ night' = [night EXCEPT !.pc = "call"]
    /\ jobCall' = [jobCall EXCEPT ![Job] = NewCall(night.key)]
    /\ UNCHANGED <<cacheVars, vocabulary, nights, outcomes, probed>>

\* The error of IncHit is dropped.
ProbeCounted ==
    /\ night.pc = "count"
    /\ IncHit(night.key) \/ UNCHANGED hitCount
    /\ EndsUser("hit")
    /\ UNCHANGED <<content, seen, call, vocabulary, nights, probed, jobCall>>

JobStep ==
    /\ night.pc = "call"
    /\ \/ Night!QueryStep(Job)
       \/ \E v \in Payloads : Night!Generated(Job, v)
       \/ Night!GenFails(Job)
    /\ probed' = IF Night!FindHit(Job)
                 THEN [probed EXCEPT ![night.key] = Bumped(@)] ELSE probed
    /\ UNCHANGED <<call, vocabulary, nights, night, outcomes>>

JobEnds ==
    /\ night.pc = "call"
    /\ jobCall[Job].pc = "returned"
    /\ EndsUser(IF jobCall[Job].result \in {"hit", "miss"} THEN "saved" ELSE "failed")
    /\ jobCall' = [jobCall EXCEPT ![Job] = NewCall(EmptyKey)]
    /\ Forgets(Job)
    /\ UNCHANGED <<call, vocabulary, nights, probed>>

\* The process is killed; what it stored stays.
NightDies ==
    /\ night.pc \notin {"off", "over"}
    /\ night' = [pc |-> "off", key |-> EmptyKey]
    /\ outcomes' = <<>>
    /\ jobCall' = [jobCall EXCEPT ![Job] = NewCall(EmptyKey)]
    /\ Forgets(Job)
    /\ UNCHANGED <<call, vocabulary, nights, probed>>

\* What the batch does while it is alive.
NightWorks ==
    \/ NightLists \/ ListFails
    \/ ProbeHits \/ ProbeMisses \/ ProbeCounted
    \/ JobStep \/ JobEnds

NightStep == NightStarts \/ NightWorks \/ NightDies

SupplyNext ==
    \/ \E file \in WordFiles : Ingest(file)
    \/ NightStep
    \/ \E c \in Callers :
         \/ \E level \in Levels, named \in Answers : PlanReady(c, level, named)
         \/ SessionQueries(c) \/ SessionGenerates(c)

SupplySpec == SupplyInit /\ [][SupplyNext]_supplyVars

\* A batch that is alive goes on: its queries are local, and the chat client
\* gives up on a request after 90 s.
FairSupplySpec == SupplySpec /\ WF_supplyVars(NightWorks)

-----------------------------------------------------------------------------
\* Neither a session nor the batch generates over a payload that it could have
\* found: what one of them stored, in this night or an earlier one, is served
\* or replaced in a race, whoever dies and whatever fails but Get
\* (cache.go:136-148, pregenerate.go:145-156).
StoredIsServed == PayloadsAreServed /\ Night!PayloadsAreServed

\* The hits of the statistics page are not invented: a row's hit_count never
\* exceeds how often the two processes found the row, although both count
\* after the fact and may fail to (stats.go:61, cache.go:141,
\* pregenerate.go:143).
HitsNeverInvented ==
    \A k \in Keys :
        hitCount[k] <= Cardinality(With({"hit"}) \cap OfKey(k)) + probed[k]

\* The positions at which an allowed word is named for the first time.
FirstNamed(named, recent) ==
    {i \in DOMAIN named : named[i] \notin recent /\ \A j \in 1..(i - 1) : named[j] # named[i]}

\* The plan is the first allowed words in the order they were named, each once,
\* and as many as the limit admits.
FitsPromises(plan, named, recent, limit) ==
    LET firsts == FirstNamed(named, recent)
    IN  /\ Len(plan) = IF Cardinality(firsts) < limit THEN Cardinality(firsts) ELSE limit
        /\ \A i \in firsts :
             LET place == Cardinality({j \in firsts : j <= i})
             IN  place <= limit => plan[place] = named[i]

Known == {l \in Lemmas : vocabulary[l] # NoEntry}

\* Whatever words of the table a model names, in whatever order and however
\* often, the plan keeps its promises: a repetition or a word shown recently
\* costs no place (curriculum.go:102-146).  It is asked before any session is
\* planned, since the rest of the state has no part in it.
PlanKeepsPromises ==
    (\A c \in Callers : At(c, "new")) /\ night.pc = "off" =>
        \A named \in BoundedSeq(Known, MaxTargets + 2),
           recent \in SUBSET Known, days \in {0, CircuitBreakDaysCutoff} :
            FitsPromises(PostProcess(named, recent, days), named, recent, TargetLimit(days))

\* A night that is not killed deals with every user: neither a user it fails
\* for nor what the server or an ingest does meanwhile ends it early or keeps
\* it from its end, and after a kill the next one begins with the first user
\* again (pregenerate.go:87-100).
NightReachesEveryUser ==
    night.pc = "list" /\ outcomes = <<>> ~>
        \/ night.pc = "off"
        \/ night.pc = "over" /\ Len(outcomes) = Len(UserLevels)

\* "前夜23時バッチで全ユーザー分のセッション素材を事前生成しキャッシュへ保存する"
\* (pregenerate.go:29-30): a session for words that the batch has prepared is
\* served from the cache.
PregeneratedIsServed ==
    [][\A c \in Callers : FindMiss(c) =>
        \A k \in Keys :
            /\ k.level = call[c].key.level
            /\ LemmasOf(k) = LemmasOf(call[c].key)
            => content[k] \notin Payloads]_supplyVars

=============================================================================
