--------------------------- MODULE SessionProofs ---------------------------
(***************************************************************************)
(* The session pipeline for every number of concurrent requests, every set *)
(* of cache keys and payload sizes, and every window and threshold of the  *)
(* rate limiter.                                                           *)
(*                                                                         *)
(* The invariant ties three programs together: what a call of WithCache    *)
(* holds at each of its steps (CallsSound), which stage of the handler     *)
(* such a call belongs to (StagesSound), and what has been written to the  *)
(* stream by then (StreamSound).  The calls of the language model behind   *)
(* the handler (ChatCall) have an invariant of their own (ChatInv); both   *)
(* rest on what is proved of the limiter's list.                           *)
(***************************************************************************)
EXTENDS Session, ChatCall, OperatorProofs, FiniteSetTheorems

\* A call that holds a value holds a payload, and one that found a payload
\* leaves its key with one.
CallsSound ==
    \A s \in Callers :
        /\ call[s].pc \in {"countHit", "save"} => call[s].value \in Payloads
        /\ call[s].pc = "countHit" => content[call[s].key] \in Payloads
        /\ call[s].result # "none" <=> call[s].pc = "returned"
        /\ call[s].result \in {"hit", "miss"} =>
             call[s].value \in Payloads /\ content[call[s].key] \in Payloads

\* The payload a call has found or stored is in the table until another call
\* stores its own.
Holds(s) == call[s].pc = "countHit" \/ call[s].result \in {"hit", "miss"}

SeenSound ==
    \A s \in Callers : Sees(s) /\ Holds(s) => content[call[s].key] = call[s].value

StagesSound ==
    \A s \in Callers :
        /\ call[s].pc \in {"lookup", "countHit", "generate", "save"} => stage[s] = "cache"
        /\ stage[s] \in {"load", "plan", "gate"} => call[s].pc = "new"
        /\ stage[s] = "cache" => call[s].pc # "new"
        /\ stage[s] \in {"reviewGate", "review", "send"} => call[s].result \in {"hit", "miss"}

\* Nothing is written before the send stage, and a stream that begins with
\* the plan is one of a call that answered.
StreamSound ==
    \A s \in Callers :
        /\ stage[s] \notin {"send", "idle"} => sent[s] = <<>>
        /\ sent[s] # <<>> /\ sent[s] # <<"error">> => call[s].result \in {"hit", "miss"}

IInv ==
    /\ TypeOK
    /\ CallsSound
    /\ StagesSound
    /\ StreamSound
    /\ StreamWellFormed
    /\ SeenSound

-----------------------------------------------------------------------------
\* The limiter keeps a sequence of ages, whatever it is asked.
LEMMA LimiterType ==
    ASSUME LimiterTypeOK,
           Record \/ Collect \/ Tick \/ UNCHANGED events
    PROVE  LimiterTypeOK'
<1> USE RateLimiterAssumption DEF RateLimiterAssumption, LimiterTypeOK
<1>1. ASSUME NEW list \in Seq(Ages)
      PROVE  Collected(list) \in Seq(Ages)
  <2>1. Collected(list) \in Seq(Ages \cap Fresh)
    BY FilterType DEF Collected
  <2> QED
    BY <2>1
<1>2. CASE Record
  <2>1. 0 \in Ages
    BY DEF Ages
  <2>2. Append(events, 0) \in Seq(Ages)
    BY <2>1
  <2> QED
    BY <1>1, <1>2, <2>2 DEF Record
<1>3. CASE Collect
  BY <1>1, <1>3 DEF Collect
<1>4. CASE Tick
  <2>1. \A age \in Ages : Older(age) \in Ages
    BY DEF Ages, Older
  <2>2. \A i \in DOMAIN events : events[i] \in Ages
    OBVIOUS
  <2> QED
    BY <1>4, <2>1, <2>2 DEF Tick
<1>5. CASE UNCHANGED events
  BY <1>5
<1> QED
  BY <1>2, <1>3, <1>4, <1>5

\* The invariant holds at the start.
LEMMA InitEstablishes == Init => IInv
<1> SUFFICES ASSUME Init PROVE IInv
  OBVIOUS
<1> USE SessionAssumption, ChatOutcomeAssumption, ContentCacheAssumption, RateLimiterAssumption
    DEF SessionAssumption, ChatOutcomeAssumption, ContentCacheAssumption, RateLimiterAssumption
<1>1. TypeOK
  BY DEF Init, TypeOK, CacheInit, LimiterInit, CacheTypeOK, LimiterTypeOK, Call, NewCall,
         Stored, NoValue, Stages, EventNames
<1>2. \A s \in Callers : call[s].pc = "new" /\ call[s].result = "none"
  BY DEF Init, CacheInit, NewCall
<1>3. \A s \in Callers : stage[s] = "idle" /\ sent[s] = <<>>
  BY DEF Init
<1> QED
  BY <1>1, <1>2, <1>3
     DEF IInv, CallsSound, SeenSound, Holds, StagesSound, StreamSound, StreamWellFormed

\* The call of s has moved, and no other has.
Moved(s, pc, value, result) ==
    /\ call' \in [Callers -> Call]
    /\ call'[s].pc = pc
    /\ call'[s].key = call[s].key
    /\ call'[s].value = value
    /\ call'[s].result = result
    /\ \A t \in Callers \ {s} : call'[t] = call[t]

\* What moving to another stage changes.
LEMMA GotoMoves ==
    ASSUME call \in [Callers -> Call], NEW s \in Callers,
           NEW pc \in {"lookup", "generate"}, Goto(s, pc)
    PROVE  Moved(s, pc, call[s].value, call[s].result)
BY DEF Goto, Moved, Call

\* What carrying a payload to the next query changes.
LEMMA TakeMoves ==
    ASSUME call \in [Callers -> Call], NEW s \in Callers,
           NEW pc \in {"countHit", "save"}, NEW value \in Payloads,
           call' = [call EXCEPT ![s].pc = pc, ![s].value = value]
    PROVE  Moved(s, pc, value, call[s].result)
BY DEF Moved, Call

\* What a call that returns changes.
LEMMA ReturnMoves ==
    ASSUME call \in [Callers -> Call], NEW s \in Callers,
           NEW value \in Payloads \cup {NoValue},
           NEW result \in {"hit", "miss", "genError", "putError"},
           Return(s, value, result)
    PROVE  Moved(s, "returned", value, result)
BY DEF Return, Moved, Call

\* A call of WithCache does one query.
LEMMA QueryStepKeeps ==
    ASSUME IInv, NEW s \in Callers, Query(s)
    PROVE  /\ CacheTypeOK' /\ seen' \in SUBSET (Callers \X Keys)
           /\ CallsSound' /\ StagesSound' /\ StreamSound'
<1> USE SessionAssumption, ChatOutcomeAssumption, ContentCacheAssumption
    DEF SessionAssumption, ChatOutcomeAssumption, ContentCacheAssumption
<1>1. UNCHANGED <<events, stage, expired, attempt, unreviewed, sent>>
  BY DEF Query, sessionVars
<1>2. \/ FindHit(s) \/ FindMiss(s) \/ GetFails(s) \/ CountHit(s) \/ CountHitFails(s)
      \/ Save(s) \/ PutFails(s)
  BY DEF Query
<1>3. /\ call \in [Callers -> Call] /\ call[s].key \in Keys
      /\ content \in [Keys -> Stored \cup {NoRow}]
      /\ hitCount \in [Keys -> 0..MaxCount]
      /\ seen \in SUBSET (Callers \X Keys)
  BY DEF IInv, TypeOK, CacheTypeOK, Call
<1> USE DEF IInv, CallsSound, StagesSound, StreamSound, CacheTypeOK, At
<1>4. CASE FindHit(s)
  <2>1. /\ call[s].pc = "lookup" /\ UNCHANGED <<content, hitCount>>
        /\ content[call[s].key] \in Payloads
        /\ seen' = SeenByOthers(s) \cup {<<s, call[s].key>>}
    BY <1>4 DEF FindHit, Reads
  <2>2. Moved(s, "countHit", content[call[s].key], call[s].result)
    BY <1>3, <1>4, <2>1, TakeMoves DEF FindHit
  <2>3. seen' \in SUBSET (Callers \X Keys)
    BY <1>3, <2>1 DEF SeenByOthers
  <2> QED
    BY <1>1, <1>3, <2>1, <2>2, <2>3 DEF Moved
<1>5. CASE FindMiss(s) \/ GetFails(s)
  <2>1. /\ call[s].pc = "lookup" /\ UNCHANGED <<content, hitCount>> /\ Goto(s, "generate")
        /\ \/ seen' = SeenByOthers(s) \cup {<<s, call[s].key>>}
           \/ seen' = SeenByOthers(s)
    BY <1>5 DEF FindMiss, GetFails, Reads, Forgets
  <2>2. Moved(s, "generate", call[s].value, call[s].result)
    BY <1>3, <2>1, GotoMoves
  <2>3. seen' \in SUBSET (Callers \X Keys)
    BY <1>3, <2>1 DEF SeenByOthers
  <2> QED
    BY <1>1, <1>3, <2>1, <2>2, <2>3 DEF Moved
<1>6. CASE CountHit(s) \/ CountHitFails(s)
  <2>1. /\ call[s].pc = "countHit" /\ UNCHANGED <<content, seen>>
        /\ Return(s, call[s].value, "hit")
    BY <1>6 DEF CountHit, CountHitFails, tableVars
  <2>2. hitCount' \in [Keys -> 0..MaxCount]
    BY <1>3, <1>6 DEF CountHit, CountHitFails, IncHit, Bumped, tableVars
  <2>3. Moved(s, "returned", call[s].value, "hit")
    BY <1>3, <2>1, ReturnMoves
  <2> QED
    BY <1>1, <1>3, <2>1, <2>2, <2>3 DEF Moved
<1>7. ASSUME Stores(s), call[s].pc = "save", NEW result \in {"miss", "putError"},
             Return(s, call[s].value, result)
      PROVE  /\ CacheTypeOK' /\ seen' \in SUBSET (Callers \X Keys)
             /\ CallsSound' /\ StagesSound' /\ StreamSound'
  <2>1. /\ UNCHANGED hitCount /\ call[s].value \in Payloads
        /\ content' = [content EXCEPT ![call[s].key] = call[s].value]
        /\ seen' = {x \in seen : x[2] # call[s].key} \cup {<<s, call[s].key>>}
    BY <1>7 DEF Stores, Put
  <2>2. Moved(s, "returned", call[s].value, result)
    BY <1>3, <1>7, <2>1, ReturnMoves
  <2>3. /\ content' \in [Keys -> Stored \cup {NoRow}]
        /\ \A k \in Keys : content[k] \in Payloads => content'[k] \in Payloads
        /\ content'[call[s].key] = call[s].value
    BY <1>3, <2>1 DEF Stored
  <2>4. \A t \in Callers : call[t].key \in Keys
    BY <1>3 DEF Call
  <2>5. CacheTypeOK' /\ seen' \in SUBSET (Callers \X Keys)
    BY <1>3, <2>1, <2>2, <2>3 DEF Moved
  <2>6. CallsSound'
    BY <1>7, <2>1, <2>2, <2>3, <2>4 DEF Moved
  <2>7. StagesSound' /\ StreamSound'
    BY <1>1, <1>7, <2>2 DEF Moved
  <2> QED
    BY <2>5, <2>6, <2>7
<1>8. CASE Save(s)
  BY <1>7, <1>8 DEF Save
<1>9. CASE PutFails(s)
  <2>1. call[s].pc = "save" /\ Return(s, call[s].value, "putError") /\ call[s].value \in Payloads
    BY <1>9 DEF PutFails
  <2>2. CASE Stores(s)
    BY <1>7, <2>1, <2>2
  <2>3. CASE UNCHANGED tableVars
    <3>1. UNCHANGED <<content, hitCount, seen>>
      BY <2>3 DEF tableVars
    <3>2. Moved(s, "returned", call[s].value, "putError")
      BY <1>3, <2>1, ReturnMoves
    <3> QED
      BY <1>1, <1>3, <2>1, <3>1, <3>2 DEF Moved
  <2> QED
    BY <1>9, <2>2, <2>3 DEF PutFails
<1> QED
  BY <1>2, <1>4, <1>5, <1>6, <1>8, <1>9

\* The generator is asked: what the cached call becomes.
LEMMA GenerateKeeps ==
    ASSUME IInv, NEW s \in Callers, Generate(s)
    PROVE  TypeOK' /\ CallsSound' /\ StagesSound' /\ StreamSound'
<1> USE SessionAssumption, ChatOutcomeAssumption, ContentCacheAssumption
    DEF SessionAssumption, ChatOutcomeAssumption, ContentCacheAssumption
<1>1. /\ call \in [Callers -> Call] /\ call[s].key \in Keys
      /\ call[s].pc \in {"new", "lookup", "countHit", "generate", "save", "returned"}
      /\ stage \in [Callers -> Stages] /\ attempt \in [Callers -> 0..maxRetries]
  BY DEF IInv, TypeOK, CacheTypeOK, Call
<1>2. ASSUME NEW outcome, Chat(s, outcome)
      PROVE  LimiterTypeOK'
  BY <1>2, LimiterType DEF Chat, IInv, TypeOK
<1> USE DEF IInv, TypeOK, CallsSound, StagesSound, StreamSound, CacheTypeOK, At
<1>3. ASSUME NEW v \in Payloads, GeneratorAnswers(s, v)
      PROVE  TypeOK' /\ CallsSound' /\ StagesSound' /\ StreamSound'
  <2>1. /\ call[s].pc = "generate" /\ UNCHANGED <<content, hitCount, seen>> /\ Chat(s, "ok")
        /\ attempt' = [attempt EXCEPT ![s] = 0]
        /\ UNCHANGED <<stage, expired, unreviewed, sent>>
    BY <1>3 DEF GeneratorAnswers, Generated, tableVars
  <2>2. Moved(s, "save", v, call[s].result)
    BY <1>1, <1>3, TakeMoves DEF GeneratorAnswers, Generated
  <2>3. attempt' \in [Callers -> 0..maxRetries]
    BY <1>1, <2>1
  <2>4. TypeOK'
    BY <1>2, <2>1, <2>2, <2>3 DEF Moved
  <2>5. CallsSound'
    BY <2>1, <2>2 DEF Moved
  <2>6. StagesSound' /\ StreamSound'
    BY <2>1, <2>2 DEF Moved
  <2> QED
    BY <2>4, <2>5, <2>6
<1>4. ASSUME NEW outcome \in Outcomes, GeneratorRetries(s, outcome)
      PROVE  TypeOK' /\ CallsSound' /\ StagesSound' /\ StreamSound'
  <2>1. /\ UNCHANGED <<content, hitCount, seen, call, stage, expired, unreviewed, sent>>
        /\ Chat(s, outcome) /\ attempt[s] < maxRetries
        /\ attempt' = [attempt EXCEPT ![s] = @ + 1]
    BY <1>4 DEF GeneratorRetries, cacheVars, tableVars
  <2>2. attempt' \in [Callers -> 0..maxRetries]
    BY <1>1, <2>1
  <2> QED
    BY <1>2, <2>1, <2>2
<1>5. ASSUME GenFails(s), LimiterTypeOK', attempt' \in [Callers -> 0..maxRetries],
             UNCHANGED <<stage, expired, unreviewed, sent>>
      PROVE  TypeOK' /\ CallsSound' /\ StagesSound' /\ StreamSound'
  <2>1. call[s].pc = "generate" /\ UNCHANGED <<content, hitCount, seen>>
    BY <1>5 DEF GenFails, tableVars
  <2>2. Moved(s, "returned", NoValue, "genError")
    BY <1>1, <1>5, ReturnMoves DEF GenFails
  <2> QED
    BY <1>5, <2>1, <2>2 DEF Moved
<1>6. ASSUME NEW outcome \in Outcomes, GeneratorGivesUp(s, outcome)
      PROVE  TypeOK' /\ CallsSound' /\ StagesSound' /\ StreamSound'
  <2>1. attempt' \in [Callers -> 0..maxRetries]
    BY <1>1, <1>6 DEF GeneratorGivesUp
  <2> HIDE DEF IInv, TypeOK, CallsSound, StagesSound, StreamSound
  <2> QED
    BY <1>2, <1>5, <1>6, <2>1 DEF GeneratorGivesUp
<1>7. CASE NothingToGenerate(s)
  <2>1. LimiterTypeOK' /\ attempt' \in [Callers -> 0..maxRetries]
    BY <1>1, <1>7, LimiterType DEF NothingToGenerate, sessionVars
  <2> HIDE DEF IInv, TypeOK, CallsSound, StagesSound, StreamSound
  <2> QED
    BY <1>5, <1>7, <2>1 DEF NothingToGenerate, sessionVars
<1> QED
  <2> HIDE DEF IInv, TypeOK, CallsSound, StagesSound, StreamSound
  <2> QED
    BY <1>3, <1>4, <1>6, <1>7 DEF Generate

\* A new plan, or a new request, starts a call of its own.
LEMMA NewCallType ==
    ASSUME NEW k \in Keys
    PROVE  /\ NewCall(k) \in Call
           /\ NewCall(k).pc = "new" /\ NewCall(k).result = "none"
BY DEF NewCall, Call, NoValue

\* A step of the handler itself, before the send stage.
LEMMA StageStepKeeps ==
    ASSUME IInv, NEW s \in Callers,
           \/ Open(s) \/ Expire(s) \/ LoadCandidates(s) \/ LoadFails(s)
           \/ \E k \in Keys : PlanReady(s, k)
           \/ PlanFails(s) \/ GateOpens(s) \/ GateDenies(s)
           \/ ContentReady(s) \/ ContentFails(s) \/ ReviewGate(s)
           \/ SkipItem(s) \/ ReviewItem(s) \/ ReviewEnds(s)
    PROVE  TypeOK' /\ CallsSound' /\ StagesSound' /\ StreamSound'
<1> USE SessionAssumption, ChatOutcomeAssumption, ContentCacheAssumption
    DEF SessionAssumption, ChatOutcomeAssumption, ContentCacheAssumption
<1>1. /\ call \in [Callers -> Call] /\ stage \in [Callers -> Stages]
      /\ sent \in [Callers -> Seq(EventNames)] /\ unreviewed \in [Callers -> Nat]
      /\ attempt \in [Callers -> 0..maxRetries] /\ expired \in [Callers -> BOOLEAN]
  BY DEF IInv, TypeOK, CacheTypeOK
<1>2. ASSUME NEW outcome, Chat(s, outcome)
      PROVE  LimiterTypeOK'
  BY <1>2, LimiterType DEF Chat, IInv, TypeOK
<1>3. Collect => LimiterTypeOK'
  BY LimiterType DEF IInv, TypeOK
<1>4. UNCHANGED events => LimiterTypeOK'
  BY LimiterType DEF IInv, TypeOK
<1>5. ASSUME Fail(s), stage[s] # "send", stage[s] # "idle", LimiterTypeOK',
             UNCHANGED <<content, hitCount, seen, call, expired, attempt, unreviewed>>,
             call[s].pc \in {"new", "returned"}
      PROVE  TypeOK' /\ CallsSound' /\ StagesSound' /\ StreamSound'
  <2>1. sent[s] = <<>>
    BY <1>1, <1>5 DEF IInv, StreamSound
  <2>2. /\ sent' = [sent EXCEPT ![s] = <<"error">>]
        /\ stage' = [stage EXCEPT ![s] = "idle"]
    BY <1>1, <1>5, <2>1 DEF Fail, Emit, Enter
  <2>3. <<"error">> \in Seq(EventNames)
    BY DEF EventNames
  <2>4. TypeOK'
    BY <1>1, <1>5, <2>2, <2>3 DEF IInv, TypeOK, CacheTypeOK, Stages
  <2>5. CallsSound' /\ StagesSound' /\ StreamSound'
    BY <1>1, <1>5, <2>2 DEF IInv, CallsSound, StagesSound, StreamSound
  <2> QED
    BY <2>4, <2>5
<1>6. CASE Open(s)
  <2>1. /\ stage' = [stage EXCEPT ![s] = "load"] /\ sent' = [sent EXCEPT ![s] = <<>>]
        /\ call' = [call EXCEPT ![s] = NewCall(EmptyPlan)]
        /\ seen' = SeenByOthers(s) /\ UNCHANGED <<content, hitCount, events>>
    BY <1>6 DEF Open, Enter, Forgets
  <2>2. TypeOK'
    BY <1>1, <1>4, <1>6, <2>1, NewCallType
       DEF Open, SeenByOthers, IInv, TypeOK, CacheTypeOK, Stages
  <2>3. CallsSound' /\ StagesSound' /\ StreamSound'
    BY <1>1, <2>1, NewCallType DEF SeenByOthers, IInv, CallsSound, StagesSound, StreamSound
  <2> QED
    BY <2>2, <2>3
<1>7. CASE Expire(s)
  BY <1>1, <1>4, <1>7
     DEF Expire, cacheVars, tableVars, IInv, TypeOK, CacheTypeOK, CallsSound, StagesSound, StreamSound
<1>8. CASE LoadCandidates(s)
  BY <1>1, <1>4, <1>8
     DEF LoadCandidates, Enter, cacheVars, tableVars, IInv, TypeOK, CacheTypeOK, Stages,
         CallsSound, StagesSound, StreamSound
<1>9. CASE LoadFails(s)
  <2>1. call[s].pc = "new"
    BY <1>9 DEF LoadFails, IInv, StagesSound
  <2> QED
    BY <1>4, <1>5, <1>9, <2>1 DEF LoadFails, cacheVars, tableVars
<1>10. ASSUME NEW k \in Keys, PlanReady(s, k)
       PROVE  TypeOK' /\ CallsSound' /\ StagesSound' /\ StreamSound'
  <2>1. /\ stage' = [stage EXCEPT ![s] = "gate"] /\ stage[s] = "plan"
        /\ call' = [call EXCEPT ![s] = NewCall(k)]
        /\ UNCHANGED <<content, hitCount, seen, expired, attempt, unreviewed, sent>>
    BY <1>10 DEF PlanReady, Enter, tableVars
  <2>2. TypeOK'
    BY <1>1, <1>2, <1>10, <2>1, NewCallType
       DEF PlanReady, IInv, TypeOK, CacheTypeOK, Stages
  <2>3. CallsSound' /\ StagesSound' /\ StreamSound'
    BY <1>1, <2>1, NewCallType DEF IInv, CallsSound, StagesSound, StreamSound
  <2> QED
    BY <2>2, <2>3
<1>11. CASE PlanFails(s)
  <2>1. call[s].pc = "new"
    BY <1>11 DEF PlanFails, IInv, StagesSound
  <2>2. LimiterTypeOK'
    BY <1>2, <1>11 DEF PlanFails
  <2> QED
    BY <1>5, <1>11, <2>1, <2>2 DEF PlanFails, cacheVars, tableVars
<1>12. CASE GateOpens(s)
  <2>1. /\ stage' = [stage EXCEPT ![s] = "cache"] /\ stage[s] = "gate"
        /\ call[s].pc = "new"
        /\ UNCHANGED <<content, hitCount, seen, expired, attempt, unreviewed, sent>>
    BY <1>12 DEF GateOpens, Enter, Start, tableVars, At
  <2>2. Moved(s, "lookup", call[s].value, call[s].result)
    BY <1>1, <1>12, GotoMoves DEF GateOpens, Start
  <2>3. TypeOK'
    BY <1>1, <1>3, <1>12, <2>1, <2>2
       DEF GateOpens, Moved, IInv, TypeOK, CacheTypeOK, Stages
  <2>4. CallsSound' /\ StagesSound' /\ StreamSound'
    BY <1>1, <2>1, <2>2 DEF Moved, IInv, CallsSound, StagesSound, StreamSound
  <2> QED
    BY <2>3, <2>4
<1>13. CASE GateDenies(s)
  <2>1. call[s].pc = "new"
    BY <1>13 DEF GateDenies, IInv, StagesSound
  <2> QED
    BY <1>3, <1>5, <1>13, <2>1 DEF GateDenies, cacheVars, tableVars
<1>14. CASE ContentReady(s)
  BY <1>1, <1>4, <1>14
     DEF ContentReady, Enter, cacheVars, tableVars, IInv, TypeOK, CacheTypeOK, Stages,
         CallsSound, StagesSound, StreamSound
<1>15. CASE ContentFails(s)
  <2>1. call[s].pc = "returned"
    BY <1>15 DEF ContentFails, IInv, CallsSound
  <2> QED
    BY <1>4, <1>5, <1>15, <2>1 DEF ContentFails, cacheVars, tableVars
<1>16. CASE ReviewGate(s)
  <2>1. call[s].value \in Nat
    BY <1>16 DEF ReviewGate, IInv, CallsSound, StagesSound
  <2>2. /\ UNCHANGED <<content, hitCount, seen, call, expired, attempt, sent>> /\ Collect
        /\ stage[s] = "reviewGate"
        /\ \/ stage' = [stage EXCEPT ![s] = "review"]
           \/ stage' = [stage EXCEPT ![s] = "send"]
    BY <1>16 DEF ReviewGate, Enter, cacheVars, tableVars
  <2>3. unreviewed' \in [Callers -> Nat]
    BY <1>1, <1>16, <2>1 DEF ReviewGate
  <2>4. TypeOK'
    BY <1>1, <1>3, <2>2, <2>3 DEF IInv, TypeOK, CacheTypeOK, Stages
  <2>5. CallsSound' /\ StagesSound' /\ StreamSound'
    BY <1>1, <2>2 DEF IInv, CallsSound, StagesSound, StreamSound
  <2> QED
    BY <2>4, <2>5
<1>17. CASE SkipItem(s) \/ ReviewItem(s)
  <2>1. /\ UNCHANGED <<content, hitCount, seen, call, stage, expired, attempt, sent>>
        /\ unreviewed[s] > 0 /\ unreviewed' = [unreviewed EXCEPT ![s] = @ - 1]
    BY <1>17 DEF SkipItem, ReviewItem, Visit, cacheVars, tableVars
  <2>2. LimiterTypeOK'
    BY <1>2, <1>4, <1>17 DEF SkipItem, ReviewItem
  <2>3. unreviewed' \in [Callers -> Nat]
    BY <1>1, <2>1
  <2> QED
    BY <2>1, <2>2, <2>3
       DEF IInv, TypeOK, CacheTypeOK, CallsSound, StagesSound, StreamSound
<1>18. CASE ReviewEnds(s)
  BY <1>1, <1>4, <1>18
     DEF ReviewEnds, Enter, cacheVars, tableVars, IInv, TypeOK, CacheTypeOK, Stages,
         CallsSound, StagesSound, StreamSound
<1> QED
  BY <1>6, <1>7, <1>8, <1>9, <1>10, <1>11, <1>12, <1>13, <1>14, <1>15, <1>16, <1>17, <1>18

-----------------------------------------------------------------------------
\* A stream stays well formed when it is left alone, emptied, or ended with an
\* error before anything was written.
LEMMA StreamLeftAlone ==
    ASSUME StreamWellFormed,
           \A t \in Callers :
             \/ sent'[t] = <<>>
             \/ sent'[t] = <<"error">> /\ stage'[t] = "idle"
             \/ /\ sent'[t] = sent[t]
                /\ call'[t].value = call[t].value
                /\ stage'[t] = "idle" <=> stage[t] = "idle"
    PROVE  StreamWellFormed'
BY DEF StreamWellFormed

\* Before its content is ready a request has written nothing.
LEMMA NothingWrittenYet ==
    ASSUME IInv, NEW s \in Callers, stage[s] # "send", stage[s] # "idle"
    PROVE  sent[s] = <<>>
BY DEF IInv, StreamSound

\* A query or a generation moves the value of a call that has written nothing.
LEMMA CallStepStream ==
    ASSUME IInv, NEW s \in Callers, Query(s) \/ Generate(s)
    PROVE  StreamWellFormed'
<1>1. UNCHANGED <<stage, sent>>
  BY DEF Query, Generate, GeneratorAnswers, GeneratorRetries, GeneratorGivesUp,
         NothingToGenerate, sessionVars
<1>2. /\ call \in [Callers -> Call]
      /\ call[s].pc \in {"lookup", "countHit", "generate", "save", "new"}
  BY DEF IInv, TypeOK, CacheTypeOK, Query, FindHit, FindMiss, GetFails, CountHit,
         CountHitFails, Save, PutFails, At, Generate, GeneratorAnswers, GeneratorRetries,
         GeneratorGivesUp, NothingToGenerate, Generated, GenFails
<1>3. call[s].pc # "new"
  BY <1>2 DEF Query, FindHit, FindMiss, GetFails, CountHit,
         CountHitFails, Save, PutFails, At, Generate, GeneratorAnswers, GeneratorRetries,
         GeneratorGivesUp, NothingToGenerate, Generated, GenFails
<1>4. stage[s] = "cache"
  BY <1>2, <1>3 DEF IInv, StagesSound
<1>5. sent[s] = <<>>
  BY <1>4, NothingWrittenYet
<1>6. \A t \in Callers \ {s} : call'[t] = call[t]
  BY <1>2 DEF Query, FindHit, FindMiss, GetFails, CountHit, CountHitFails,
         Save, PutFails, Generate, GeneratorAnswers, GeneratorRetries, GeneratorGivesUp,
         NothingToGenerate, Generated, GenFails, Goto, Return, cacheVars, tableVars
<1> QED
  BY <1>1, <1>5, <1>6, StreamLeftAlone DEF IInv

\* A step that writes nothing keeps the stream well formed.
LEMMA StageStepStream ==
    ASSUME IInv, NEW s \in Callers,
           \/ Open(s) \/ Expire(s) \/ LoadCandidates(s) \/ LoadFails(s)
           \/ \E k \in Keys : PlanReady(s, k)
           \/ PlanFails(s) \/ GateOpens(s) \/ GateDenies(s)
           \/ ContentReady(s) \/ ContentFails(s) \/ ReviewGate(s)
           \/ SkipItem(s) \/ ReviewItem(s) \/ ReviewEnds(s)
    PROVE  StreamWellFormed'
<1>1. /\ call \in [Callers -> Call] /\ stage \in [Callers -> Stages]
      /\ sent \in [Callers -> Seq(EventNames)]
  BY DEF IInv, TypeOK, CacheTypeOK
<1>2. stage[s] # "send" /\ stage[s] # "idle" => sent[s] = <<>>
  BY NothingWrittenYet
<1>3. CASE Fail(s) /\ UNCHANGED call /\ stage[s] # "send" /\ stage[s] # "idle"
  <2>1. /\ sent' = [sent EXCEPT ![s] = <<"error">>]
        /\ stage' = [stage EXCEPT ![s] = "idle"]
    BY <1>1, <1>2, <1>3 DEF Fail, Emit, Enter
  <2> QED
    BY <1>1, <1>3, <2>1, StreamLeftAlone DEF IInv
<1>4. CASE LoadFails(s) \/ PlanFails(s) \/ GateDenies(s) \/ ContentFails(s)
  BY <1>3, <1>4 DEF LoadFails, PlanFails, GateDenies, ContentFails, cacheVars, tableVars
<1>5. CASE Open(s)
  <2>1. /\ sent' = [sent EXCEPT ![s] = <<>>] /\ stage' = [stage EXCEPT ![s] = "load"]
        /\ call' = [call EXCEPT ![s] = NewCall(EmptyPlan)]
    BY <1>5 DEF Open, Enter
  <2> QED
    BY <1>1, <2>1, StreamLeftAlone DEF IInv
<1>6. CASE Expire(s) \/ SkipItem(s) \/ ReviewItem(s)
  BY <1>6, StreamLeftAlone
     DEF Expire, SkipItem, ReviewItem, Visit, cacheVars, tableVars, IInv
<1>7. CASE \/ LoadCandidates(s) \/ (\E k \in Keys : PlanReady(s, k)) \/ GateOpens(s)
           \/ ContentReady(s) \/ ReviewGate(s) \/ ReviewEnds(s)
  <2>1. /\ stage[s] # "send" /\ stage[s] # "idle" /\ UNCHANGED sent
        /\ \E next : Enter(s, next)
        /\ UNCHANGED call \/ Goto(s, "lookup") \/ \E k : call' = [call EXCEPT ![s] = NewCall(k)]
    BY <1>7 DEF LoadCandidates, PlanReady, GateOpens, ContentReady, ReviewGate, ReviewEnds,
                Start, cacheVars, tableVars
  <2>2. \A t \in Callers \ {s} : call'[t] = call[t] /\ stage'[t] = stage[t]
    BY <1>1, <2>1 DEF Enter, Goto
  <2> QED
    BY <1>2, <2>1, <2>2, StreamLeftAlone DEF IInv
<1> QED
  BY <1>4, <1>5, <1>6, <1>7

\* The send stage writes the next event.
LEMMA SendNextKeeps ==
    ASSUME IInv, NEW s \in Callers, SendNext(s)
    PROVE  TypeOK' /\ CallsSound' /\ StagesSound' /\ StreamSound' /\ StreamWellFormed'
<1> USE SessionAssumption DEF SessionAssumption
<1>1. /\ call \in [Callers -> Call] /\ stage \in [Callers -> Stages]
      /\ sent \in [Callers -> Seq(EventNames)]
  BY DEF IInv, TypeOK, CacheTypeOK
<1>2. /\ stage[s] = "send" /\ call[s].result \in {"hit", "miss"} /\ call[s].value \in Payloads
      /\ call[s].value \in Nat /\ call[s].pc = "returned"
      /\ UNCHANGED <<cacheVars, content, hitCount, seen, call, events, expired, attempt, unreviewed>>
  BY DEF SendNext, IInv, StagesSound, CallsSound, cacheVars, tableVars
<1>3. PICK event \in EventNames, next \in {"send", "idle"} :
        /\ sent' = [sent EXCEPT ![s] = Append(sent[s], event)]
        /\ stage' = [stage EXCEPT ![s] = next]
        /\ \/ sent[s] = <<>> /\ event = "plan" /\ next = "send"
           \/ /\ sent[s] # <<>> /\ Questions(s) < call[s].value
              /\ event = "question" /\ next = "send"
           \/ /\ sent[s] # <<>> /\ ~(Questions(s) < call[s].value)
              /\ event = "done" /\ next = "idle"
  <2>1. stage = [stage EXCEPT ![s] = "send"]
    BY <1>1, <1>2
  <2> QED
    BY <1>1, <2>1 DEF SendNext, Emit, Enter, EventNames
<1>4. TypeOK'
  <2>1. sent' \in [Callers -> Seq(EventNames)] /\ stage' \in [Callers -> Stages]
    BY <1>1, <1>3 DEF Stages
  <2>2. LimiterTypeOK'
    BY <1>2, LimiterType DEF IInv, TypeOK
  <2> QED
    BY <1>2, <2>1, <2>2 DEF IInv, TypeOK, CacheTypeOK
<1>5. CallsSound' /\ StagesSound' /\ StreamSound'
  BY <1>1, <1>2, <1>3 DEF IInv, CallsSound, StagesSound, StreamSound
<1>6. StreamWellFormed'
  <2> DEFINE before == sent[s]
             after == sent'[s]
             n == call[s].value
  <2>1. /\ before \in Seq(EventNames) /\ after = Append(before, event)
        /\ Len(after) = Len(before) + 1 /\ Len(before) \in Nat
        /\ after[Len(before) + 1] = event
        /\ \A i \in 1..Len(before) : after[i] = before[i]
        /\ before = <<>> <=> Len(before) = 0
    BY <1>1, <1>3
  <2>2. before # <<>> =>
          /\ before[1] = "plan"
          /\ \A i \in 2..Len(before) : before[i] = IF i <= n + 1 THEN "question" ELSE "done"
          /\ Len(before) <= n + 2
          /\ Len(before) # n + 2
    BY <1>2 DEF IInv, StreamWellFormed
  <2>3. /\ after # <<>> /\ after[1] = "plan"
        /\ \A i \in 2..Len(after) : after[i] = IF i <= n + 1 THEN "question" ELSE "done"
        /\ Len(after) <= n + 2
        /\ next = "idle" <=> Len(after) = n + 2
    <3>1. CASE before = <<>>
      BY <1>2, <1>3, <2>1, <3>1
    <3>2. CASE before # <<>> /\ event = "question"
      <4>1. Len(before) - 1 < n /\ next = "send"
        BY <1>3, <3>2 DEF Questions
      <4>2. n \in Nat
        BY <1>2
      <4> HIDE DEF before, after, n
      <4>3. Len(before) <= n /\ Len(after) <= n + 1 /\ Len(before) >= 1
        BY <2>1, <3>2, <4>1, <4>2
      <4>4. after # <<>> /\ after[1] = "plan"
        BY <2>1, <2>2, <3>2, <4>3
      <4>5. ASSUME NEW i \in 2..Len(after)
            PROVE  after[i] = IF i <= n + 1 THEN "question" ELSE "done"
        <5>1. CASE i = Len(before) + 1
          BY <2>1, <3>2, <4>2, <4>3, <5>1
        <5>2. CASE i # Len(before) + 1
          <6>1. i \in 2..Len(before) /\ i \in 1..Len(before)
            BY <2>1, <5>2
          <6> QED
            BY <2>1, <2>2, <3>2, <6>1
        <5> QED
          BY <5>1, <5>2
      <4> QED
        BY <4>1, <4>2, <4>3, <4>4, <4>5
    <3>3. CASE before # <<>> /\ event = "done"
      <4>1. ~(Len(before) - 1 < n) /\ next = "idle"
        BY <1>3, <3>3 DEF Questions
      <4>2. n \in Nat /\ "plan" # "done"
        BY <1>2
      <4> HIDE DEF before, after, n
      <4>3. Len(before) = n + 1 /\ Len(after) = n + 2 /\ Len(before) >= 1
        BY <2>1, <2>2, <3>3, <4>1, <4>2
      <4>4. after # <<>> /\ after[1] = "plan"
        BY <2>1, <2>2, <3>3, <4>3
      <4>5. ASSUME NEW i \in 2..Len(after)
            PROVE  after[i] = IF i <= n + 1 THEN "question" ELSE "done"
        <5>1. CASE i = n + 2
          BY <2>1, <3>3, <4>2, <4>3, <5>1
        <5>2. CASE i # n + 2
          <6>1. i \in 2..Len(before) /\ i \in 1..Len(before)
            BY <4>2, <4>3, <5>2
          <6> QED
            BY <2>1, <2>2, <3>3, <6>1
        <5> QED
          BY <5>1, <5>2
      <4> QED
        BY <4>1, <4>2, <4>3, <4>4, <4>5
    <3> QED
      BY <1>3, <3>1, <3>2, <3>3
  <2>4. \A t \in Callers \ {s} : sent'[t] = sent[t] /\ stage'[t] = stage[t]
    BY <1>1, <1>3
  <2>5. stage'[s] = next
    BY <1>1, <1>3
  <2> HIDE DEF after, before, n
  <2> QED
    BY <1>2, <2>3, <2>4, <2>5 DEF IInv, StreamWellFormed, after, n
<1> QED
  BY <1>4, <1>5, <1>6

\* The pairs a step leaves, and what it leaves in the table.
LEMMA SeenStays ==
    ASSUME SeenSound,
           \A t \in Callers :
             \/ ~Holds(t)'
             \/ ~Sees(t)'
             \/ content'[call'[t].key] = call'[t].value
             \/ /\ call'[t].key = call[t].key /\ call'[t].value = call[t].value
                /\ Holds(t) /\ Sees(t)
                /\ content'[call[t].key] = content[call[t].key]
    PROVE  SeenSound'
BY DEF SeenSound

\* Only a query of the cache writes its table.
LEMMA SeenStepKeeps ==
    ASSUME IInv, [Next]_vars
    PROVE  SeenSound'
<1>1. /\ call \in [Callers -> Call] /\ content \in [Keys -> Stored \cup {NoRow}]
      /\ \A t \in Callers : call[t].key \in Keys
      /\ SeenSound
  BY DEF IInv, TypeOK, CacheTypeOK, Call
<1>2. ASSUME UNCHANGED <<content, call>>, seen' \subseteq seen
      PROVE  SeenSound'
  BY <1>1, <1>2, SeenStays DEF Sees, Holds
<1>3. ASSUME NEW s \in Callers, UNCHANGED content, seen' \subseteq seen,
             ~Holds(s)', \A t \in Callers \ {s} : call'[t] = call[t]
      PROVE  SeenSound'
  BY <1>1, <1>3, SeenStays DEF Sees, Holds
<1>4. ASSUME NEW s \in Callers, Query(s)
      PROVE  SeenSound'
  <2>1. CallsSound
    BY DEF IInv
  <2>2. CASE FindHit(s)
    <3>1. /\ UNCHANGED content /\ content[call[s].key] \in Payloads
          /\ seen' = SeenByOthers(s) \cup {<<s, call[s].key>>}
          /\ call[s].pc = "lookup"
      BY <2>2 DEF FindHit, Reads, At
    <3>2. Moved(s, "countHit", content[call[s].key], call[s].result)
      BY <1>1, <2>2, <3>1, TakeMoves DEF FindHit
    <3> QED
      BY <1>1, <3>1, <3>2, SeenStays DEF Moved, SeenByOthers, Sees, Holds
  <2>3. CASE FindMiss(s) \/ GetFails(s)
    <3>1. /\ call[s].pc = "lookup" /\ UNCHANGED content /\ Goto(s, "generate")
          /\ seen' \subseteq SeenByOthers(s) \cup {<<s, call[s].key>>}
      BY <2>3 DEF FindMiss, GetFails, Reads, Forgets, At
    <3>2. Moved(s, "generate", call[s].value, call[s].result)
      BY <1>1, <3>1, GotoMoves
    <3>3. call[s].result = "none"
      BY <1>1, <2>1, <3>1 DEF CallsSound, Call
    <3>4. ~Holds(s)'
      BY <3>2, <3>3 DEF Moved, Holds
    <3> QED
      BY <1>1, <3>1, <3>2, <3>4, SeenStays DEF Moved, SeenByOthers, Sees, Holds
  <2>4. CASE CountHit(s) \/ CountHitFails(s)
    <3>1. call[s].pc = "countHit" /\ UNCHANGED <<content, seen>> /\ Return(s, call[s].value, "hit")
      BY <2>4 DEF CountHit, CountHitFails, At, tableVars
    <3>2. call[s].value \in Payloads
      BY <2>1, <3>1 DEF CallsSound
    <3>3. Moved(s, "returned", call[s].value, "hit")
      BY <1>1, <3>1, <3>2, ReturnMoves
    <3> QED
      BY <1>1, <3>1, <3>3, SeenStays DEF Moved, Sees, Holds
  <2>5. ASSUME Stores(s), call[s].pc = "save", NEW result \in {"miss", "putError"},
               Return(s, call[s].value, result)
        PROVE  SeenSound'
    <3>1. /\ call[s].value \in Payloads
          /\ content' = [content EXCEPT ![call[s].key] = call[s].value]
          /\ seen' = {x \in seen : x[2] # call[s].key} \cup {<<s, call[s].key>>}
      BY <2>1, <2>5 DEF CallsSound, Stores, Put
    <3>2. Moved(s, "returned", call[s].value, result)
      BY <1>1, <2>5, <3>1, ReturnMoves
    <3>3. content'[call'[s].key] = call'[s].value
      BY <1>1, <3>1, <3>2 DEF Moved
    <3>4. ASSUME NEW t \in Callers \ {s}, Sees(t)'
          PROVE  Sees(t) /\ call'[t] = call[t] /\ content'[call[t].key] = content[call[t].key]
      BY <1>1, <3>1, <3>2, <3>4 DEF Moved, Sees
    <3> QED
      BY <1>1, <3>3, <3>4, SeenStays DEF Holds
  <2>6. CASE Save(s)
    BY <2>5, <2>6 DEF Save, At
  <2>7. CASE PutFails(s)
    <3>1. call[s].pc = "save" /\ Return(s, call[s].value, "putError")
      BY <2>7 DEF PutFails, At
    <3>2. CASE Stores(s)
      BY <2>5, <3>1, <3>2
    <3>3. CASE UNCHANGED tableVars
      <4>1. call[s].value \in Payloads
        BY <2>1, <3>1 DEF CallsSound
      <4>2. Moved(s, "returned", call[s].value, "putError")
        BY <1>1, <3>1, <4>1, ReturnMoves
      <4> QED
        BY <1>3, <3>3, <4>2 DEF Moved, Holds, tableVars
    <3> QED
      BY <2>7, <3>2, <3>3 DEF PutFails
  <2> QED
    BY <1>4, <2>2, <2>3, <2>4, <2>6, <2>7 DEF Query
<1>5. ASSUME NEW s \in Callers, NEW v \in Payloads, GeneratorAnswers(s, v)
      PROVE  SeenSound'
  <2>1. call[s].pc = "generate" /\ UNCHANGED <<content, seen>>
    BY <1>5 DEF GeneratorAnswers, Generated, At, tableVars
  <2>2. Moved(s, "save", v, call[s].result)
    BY <1>1, <1>5, TakeMoves DEF GeneratorAnswers, Generated
  <2>3. call[s].result = "none"
    BY <1>1, <2>1 DEF IInv, CallsSound, Call
  <2> QED
    BY <1>3, <2>1, <2>2, <2>3 DEF Moved, Holds
<1>6. ASSUME NEW s \in Callers, GenFails(s)
      PROVE  SeenSound'
  <2>1. Moved(s, "returned", NoValue, "genError")
    BY <1>1, <1>6, ReturnMoves DEF GenFails
  <2> QED
    BY <1>3, <1>6, <2>1 DEF GenFails, Moved, Holds, tableVars
<1>7. ASSUME NEW s \in Callers, Open(s) \/ GateOpens(s) \/ \E k \in Keys : PlanReady(s, k)
      PROVE  SeenSound'
  <2>1. /\ UNCHANGED content /\ seen' \subseteq seen
        /\ \/ \E k \in Keys \cup {EmptyPlan} : call' = [call EXCEPT ![s] = NewCall(k)]
           \/ call[s].pc = "new" /\ Goto(s, "lookup")
    BY <1>7 DEF Open, Forgets, SeenByOthers, PlanReady, GateOpens, Start, At, tableVars
  <2>2. ~Holds(s)' /\ \A t \in Callers \ {s} : call'[t] = call[t]
    BY <1>1, <2>1 DEF NewCall, Goto, Holds, Call, IInv, CallsSound
  <2> QED
    BY <1>3, <2>1, <2>2
<1>8. ASSUME UNCHANGED cacheVars
      PROVE  SeenSound'
  BY <1>2, <1>8 DEF cacheVars, tableVars
<1> QED
  BY <1>4, <1>5, <1>6, <1>7, <1>8
     DEF Next, Handler, vars, TickOfClock, Expire, LoadCandidates, LoadFails, PlanFails,
         GateDenies, Generate, GeneratorRetries, GeneratorGivesUp, NothingToGenerate,
         ContentReady, ContentFails, ReviewGate, SkipItem, ReviewItem, Visit, ReviewEnds, SendNext

\* Every step keeps the invariant.
LEMMA StepKeeps == IInv /\ [Next]_vars => IInv'
<1> SUFFICES ASSUME IInv, [Next]_vars PROVE IInv'
  OBVIOUS
<1>4. SeenSound'
  BY SeenStepKeeps
<1>1. CASE UNCHANGED vars
  <2>1. LimiterTypeOK'
    BY <1>1, LimiterType DEF vars, IInv, TypeOK
  <2> QED
    BY <1>1, <1>4, <2>1 DEF vars, cacheVars, tableVars, sessionVars, IInv, TypeOK, CacheTypeOK, CallsSound,
       StagesSound, StreamSound, StreamWellFormed
<1>2. CASE TickOfClock
  <2>1. LimiterTypeOK'
    BY <1>2, LimiterType DEF TickOfClock, IInv, TypeOK
  <2> QED
    BY <1>2, <1>4, <2>1 DEF TickOfClock, cacheVars, tableVars, sessionVars, IInv, TypeOK, CacheTypeOK, CallsSound,
       StagesSound, StreamSound, StreamWellFormed
<1>3. ASSUME NEW s \in Callers, Open(s) \/ Expire(s) \/ Handler(s)
      PROVE  IInv'
  <2>1. CASE Query(s)
    <3>1. UNCHANGED <<events, sessionVars>>
      BY <2>1 DEF Query
    <3>2. LimiterTypeOK'
      BY <3>1, LimiterType DEF IInv, TypeOK
    <3>3. TypeOK'
      BY <2>1, <3>1, <3>2, QueryStepKeeps DEF IInv, TypeOK, sessionVars
    <3> QED
      BY <1>4, <2>1, <3>3, QueryStepKeeps, CallStepStream DEF IInv
  <2>2. CASE Generate(s)
    BY <1>4, <2>2, GenerateKeeps, CallStepStream DEF IInv
  <2>3. CASE SendNext(s)
    BY <1>4, <2>3, SendNextKeeps DEF IInv
  <2>4. CASE ~Query(s) /\ ~Generate(s) /\ ~SendNext(s)
    BY <1>3, <1>4, <2>4, StageStepKeeps, StageStepStream DEF Handler, IInv
  <2> QED
    BY <2>1, <2>2, <2>3, <2>4
<1> QED
  BY <1>1, <1>2, <1>3 DEF Next

\* The invariant of the pipeline.
LEMMA Inductive == Spec => []IInv
BY InitEstablishes, StepKeeps, PTL DEF Spec

-----------------------------------------------------------------------------
\* The content table: a key that answered a call has a payload for ever.
THEOREM AnswersStayServable == Spec => []AnsweredKeysStayServable
<1>1. IInv => AnsweredKeysStayServable
  BY DEF IInv, CallsSound, AnsweredKeysStayServable, With
<1> QED
  BY <1>1, Inductive, PTL

\* The stream a client reads: an error alone, or a plan, its questions, a done.
THEOREM StreamsAreWellFormed == Spec => []StreamWellFormed
<1>1. IInv => StreamWellFormed
  BY DEF IInv
<1> QED
  BY <1>1, Inductive, PTL

\* What a learner is shown is in the cache: the key of a stream that has begun
\* holds a payload, and the one shown unless another request stored its own.
THEOREM ShownContentIsServable == Spec => []ShownIsServable
<1>1. IInv => ShownIsServable
  <2> SUFFICES ASSUME IInv, NEW s \in Callers, sent[s] # <<>>, sent[s][1] = "plan"
               PROVE  /\ content[call[s].key] \in Payloads
                      /\ Sees(s) => content[call[s].key] = call[s].value
    BY DEF ShownIsServable
  <2>1. sent[s] # <<"error">>
    OBVIOUS
  <2>2. call[s].result \in {"hit", "miss"}
    BY <2>1 DEF IInv, StreamSound
  <2> QED
    BY <2>2 DEF IInv, CallsSound, SeenSound, Holds
<1> QED
  BY <1>1, Inductive, PTL

-----------------------------------------------------------------------------
\* The limiter's list, one age at a time.
LEMMA CollectedAppend ==
    ASSUME NEW list \in Seq(Ages), NEW age \in Ages
    PROVE  Collected(Append(list, age)) =
             IF age \in Fresh THEN Append(Collected(list), age) ELSE Collected(list)
BY FilterAppend DEF Collected

\* Collection returns a list of ages.
LEMMA CollectedType ==
    ASSUME NEW list \in Seq(Ages)
    PROVE  /\ Collected(list) \in Seq(Fresh)
           /\ Collected(list) \in Seq(Ages)
           /\ Len(Collected(list)) <= Len(list)
<1>1. Collected(list) \in Seq(Ages \cap Fresh) /\ Len(Collected(list)) <= Len(list)
  BY FilterType DEF Collected
<1> QED
  BY <1>1

Aged(list) == [i \in DOMAIN list |-> Older(list[i])]

OneLater(list) == [i \in DOMAIN list |-> list[i] + 1]

\* Time passes for an appended age as for the others.
LEMMA AgedAppend ==
    ASSUME NEW list \in Seq(Ages), NEW age \in Ages
    PROVE  /\ Aged(list) \in Seq(Ages) /\ Older(age) \in Ages
           /\ Aged(Append(list, age)) = Append(Aged(list), Older(age))
<1> USE RateLimiterAssumption DEF RateLimiterAssumption
<1>1. \A a \in Ages : Older(a) \in Ages
  BY DEF Ages, Older
<1>2. Aged(list) \in Seq(Ages)
  BY <1>1 DEF Aged
<1>3. Aged(Append(list, age)) = Append(Aged(list), Older(age))
  BY <1>1 DEF Aged
<1> QED
  BY <1>1, <1>2, <1>3

\* The same for the list of the window.
LEMMA OneLaterAppend ==
    ASSUME NEW list \in Seq(Fresh), NEW age \in Fresh
    PROVE  /\ OneLater(list) \in Seq(Ages) /\ age + 1 \in Ages
           /\ OneLater(Append(list, age)) = Append(OneLater(list), age + 1)
<1> USE RateLimiterAssumption DEF RateLimiterAssumption
<1>1. \A a \in Fresh : a + 1 \in Ages
  BY DEF Ages, Fresh
<1>2. OneLater(list) \in Seq(Ages)
  BY <1>1 DEF OneLater
<1>3. OneLater(Append(list, age)) = Append(OneLater(list), age + 1)
  BY <1>1 DEF OneLater
<1> QED
  BY <1>1, <1>2, <1>3

\* Ageing the whole list and collecting later counts the same signals as
\* collecting first and ageing what is left: lazy collection is invisible.
LEMMA AgeThenCollect ==
    \A list \in Seq(Ages) : Collected(Aged(list)) = Collected(OneLater(Collected(list)))
<1> DEFINE G == {s \in Seq(Ages) : Collected(Aged(s)) = Collected(OneLater(Collected(s)))}
<1> USE RateLimiterAssumption DEF RateLimiterAssumption
<1>1. <<>> \in G
  <2>1. Collected(<<>>) = <<>>
    BY FilterEmpty DEF Collected
  <2>2. Aged(<<>>) = <<>> /\ OneLater(<<>>) = <<>>
    BY DEF Aged, OneLater
  <2> QED
    BY <2>1, <2>2
<1>2. ASSUME NEW s \in Seq(Ages), NEW age \in Ages, s \in G
      PROVE  Append(s, age) \in G
  <2>1. Append(s, age) \in Seq(Ages)
    OBVIOUS
  <2>2. Collected(Aged(s)) = Collected(OneLater(Collected(s)))
    BY <1>2
  <2>3. Collected(Aged(Append(s, age))) =
          IF Older(age) \in Fresh THEN Append(Collected(Aged(s)), Older(age))
          ELSE Collected(Aged(s))
    BY AgedAppend, CollectedAppend
  <2>4. CASE age \in Fresh
    <3>1. Collected(Append(s, age)) = Append(Collected(s), age)
      BY <2>4, CollectedAppend
    <3>2. /\ OneLater(Append(Collected(s), age)) = Append(OneLater(Collected(s)), age + 1)
          /\ OneLater(Collected(s)) \in Seq(Ages) /\ age + 1 \in Ages
      BY <2>4, CollectedType, OneLaterAppend
    <3>3. Older(age) = age + 1
      BY <2>4 DEF Older, Fresh
    <3>4. Collected(Append(OneLater(Collected(s)), age + 1)) =
            IF age + 1 \in Fresh THEN Append(Collected(OneLater(Collected(s))), age + 1)
            ELSE Collected(OneLater(Collected(s)))
      BY <3>2, CollectedAppend
    <3> QED
      BY <2>1, <2>2, <2>3, <3>1, <3>2, <3>3, <3>4
  <2>5. CASE age \notin Fresh
    <3>1. Collected(Append(s, age)) = Collected(s)
      BY <2>5, CollectedAppend
    <3>2. Older(age) \notin Fresh
      BY <2>5 DEF Older, Fresh, Ages
    <3> QED
      BY <2>1, <2>2, <2>3, <3>1, <3>2
  <2> QED
    BY <2>4, <2>5
<1> HIDE DEF G
<1>3. \A s \in Seq(Ages) : s \in G
  BY <1>1, <1>2, SequenceInduction
<1> QED
  BY <1>3 DEF G

\* The three ways the list changes, seen through Collected.
LEMMA LimiterSteps ==
    ASSUME LimiterTypeOK
    PROVE  /\ Record => /\ Collected(events') = Append(Collected(events), 0)
                        /\ Len(Collected(events)) < MaxEvents
           /\ Collect => Collected(events') = Collected(events)
           /\ Tick => Collected(events') = Collected(OneLater(Collected(events)))
<1> USE RateLimiterAssumption DEF RateLimiterAssumption, LimiterTypeOK
<1>1. \A list \in Seq(Ages) : Collected(Collected(list)) = Collected(list)
  <2>1. Fresh \cap Fresh = Fresh
    OBVIOUS
  <2> QED
    BY <2>1, FilterTwice DEF Collected
<1>2. ASSUME Record
      PROVE  /\ Collected(events') = Append(Collected(events), 0)
             /\ Len(Collected(events)) < MaxEvents
  <2>1. 0 \in Ages /\ 0 \in Fresh
    BY DEF Ages, Fresh
  <2>2. Collected(Append(events, 0)) = Append(Collected(events), 0)
    BY <2>1, CollectedAppend
  <2>3. Append(events, 0) \in Seq(Ages) /\ Len(events) \in Nat
    BY <2>1
  <2>4. Len(Collected(events)) <= Len(events) /\ Len(Collected(events)) \in Nat
    BY CollectedType
  <2>5. Len(events) < MaxEvents /\ events' = Collected(Append(events, 0))
    BY <1>2 DEF Record
  <2>6. Collected(events') = Append(Collected(events), 0)
    BY <1>1, <2>2, <2>3, <2>5
  <2>7. Len(Collected(events)) < MaxEvents
    BY <2>3, <2>4, <2>5
  <2> QED
    BY <2>6, <2>7
<1>3. Tick => events' = Aged(events)
  BY DEF Tick, Aged
<1> QED
  BY <1>1, <1>2, <1>3, AgeThenCollect DEF Collect

\* What a step of the pipeline does to the limiter.
LEMMA EventsStep ==
    ASSUME [Next]_vars
    PROVE  Record \/ Collect \/ Tick \/ UNCHANGED events
<1>1. CASE UNCHANGED vars
  BY <1>1 DEF vars
<1>2. CASE TickOfClock
  BY <1>2 DEF TickOfClock
<1>3. ASSUME NEW s \in Callers, Open(s) \/ Expire(s) \/ Handler(s)
      PROVE  Record \/ Collect \/ UNCHANGED events
  BY <1>3 DEF Open, Expire, Handler, LoadCandidates, LoadFails, PlanReady, PlanFails, GateOpens,
     GateDenies, Query, Generate, GeneratorAnswers, GeneratorRetries, GeneratorGivesUp,
     NothingToGenerate, ContentReady, ContentFails, ReviewGate, SkipItem, ReviewItem,
     ReviewEnds, SendNext, Chat, sessionVars
<1> QED
  BY <1>1, <1>2, <1>3 DEF Next

\* The lazily collected list implements the ideal sliding window.
THEOREM WindowRefinement == Spec => ImplementsWindow
<1>1. Init => Ideal!Init
  BY FilterEmpty DEF Init, LimiterInit, Ideal!Init, Collected
<1>2. IInv /\ [Next]_vars => [Ideal!Next]_(Collected(events))
  <2> SUFFICES ASSUME IInv, [Next]_vars
               PROVE  Ideal!Next \/ Collected(events') = Collected(events)
    OBVIOUS
  <2>1. LimiterTypeOK
    BY DEF IInv, TypeOK
  <2>2. CASE Record
    BY <2>1, <2>2, LimiterSteps DEF Ideal!Next, Ideal!Signal
  <2>3. CASE Collect \/ UNCHANGED events
    BY <2>1, <2>3, LimiterSteps
  <2>4. CASE Tick
    <3>1. Collected(events') = Filter(OneLater(Collected(events)), Fresh)
      BY <2>1, <2>4, LimiterSteps DEF Collected
    <3>2. \A list, keep : Ideal!Filter(list, keep) = Filter(list, keep)
      BY DEF Filter, Ideal!Filter
    <3> QED
      BY <3>1, <3>2 DEF Ideal!Next, Ideal!Tick, Ideal!Live, Fresh, OneLater
  <2>5. Record \/ Collect \/ Tick \/ UNCHANGED events
    BY EventsStep
  <2> QED
    BY <2>2, <2>3, <2>4, <2>5
<1> QED
  BY <1>1, <1>2, Inductive, PTL DEF Spec, ImplementsWindow, Ideal!Spec

-----------------------------------------------------------------------------
\* The level of a list is the last one reached, and the generator is allowed
\* while neither of the upper two is.
LEMMA LevelOfList ==
    ASSUME NEW list
    PROVE  LevelOf(list) <= 2 <=> ~Reached(3, list) /\ ~Reached(4, list)
<1>1. \E l \in Levels : IsLastReached(l, list)
  <2>1. CASE Reached(4, list)
    BY <2>1 DEF IsLastReached, Levels
  <2>2. CASE ~Reached(4, list) /\ Reached(3, list)
    BY <2>2 DEF IsLastReached, Levels
  <2>3. CASE ~Reached(4, list) /\ ~Reached(3, list) /\ Reached(2, list)
    BY <2>3 DEF IsLastReached, Levels
  <2>4. CASE ~Reached(4, list) /\ ~Reached(3, list) /\ ~Reached(2, list)
    BY <2>4 DEF IsLastReached, Levels
  <2> QED
    BY <2>1, <2>2, <2>3, <2>4
<1>2. LevelOf(list) \in Levels /\ IsLastReached(LevelOf(list), list)
  BY <1>1 DEF LevelOf
<1> QED
  BY <1>2 DEF IsLastReached, Levels

\* Fewer signals never raise the level.
LEMMA FewerSignalsAllow ==
    ASSUME NEW one, NEW two, Count(one) \in Nat, Count(two) \in Nat,
           Count(two) <= Count(one), LevelOf(one) <= 2
    PROVE  LevelOf(two) <= 2
<1> USE RateLimiterAssumption DEF RateLimiterAssumption
<1>1. ~Reached(3, one) /\ ~Reached(4, one)
  BY LevelOfList
<1>2. /\ DefaultThresholds[3] * Threshold \in Nat
      /\ DefaultThresholds[4] * Threshold \in Nat
  BY DEF DefaultThresholds
<1>3. ~Reached(3, two) /\ ~Reached(4, two)
  <2> DEFINE b3 == DefaultThresholds[3] * Threshold
             b4 == DefaultThresholds[4] * Threshold
  <2>1. b3 \in Nat /\ b4 \in Nat
    BY <1>2
  <2>2. ~(100 * Count(one) >= b3) /\ ~(100 * Count(one) >= b4)
    BY <1>1 DEF Reached
  <2> HIDE DEF b3, b4
  <2>3. ~(100 * Count(two) >= b3) /\ ~(100 * Count(two) >= b4)
    BY <2>1, <2>2
  <2> QED
    BY <2>3 DEF Reached, b3, b4
<1> QED
  BY <1>3, LevelOfList

\* Only a recorded signal raises the count.
LEMMA CountSteps ==
    ASSUME LimiterTypeOK, Collect \/ Tick \/ UNCHANGED events
    PROVE  Count(events) \in Nat /\ Count(events') \in Nat /\ Count(events') <= Count(events)
<1> USE RateLimiterAssumption DEF RateLimiterAssumption, LimiterTypeOK
<1>1. /\ Collected(events) \in Seq(Fresh) /\ Collected(events) \in Seq(Ages)
      /\ Count(events) \in Nat
  BY CollectedType DEF Count
<1>2. CASE Collect \/ UNCHANGED events
  BY <1>1, <1>2, LimiterSteps DEF Count
<1>3. CASE Tick
  <2> DEFINE aged == OneLater(Collected(events))
  <2>1. Collected(events') = Collected(aged)
    BY <1>3, LimiterSteps
  <2>2. aged \in Seq(Ages) /\ Len(aged) = Len(Collected(events))
    <3>1. \A a \in Fresh : a + 1 \in Ages
      BY DEF Fresh, Ages
    <3> QED
      BY <1>1, <3>1 DEF OneLater
  <2> HIDE DEF aged
  <2>3. Len(Collected(aged)) \in Nat /\ Len(Collected(aged)) <= Len(aged)
    BY <2>2, CollectedType
  <2> QED
    BY <1>1, <2>1, <2>2, <2>3 DEF Count
<1> QED
  BY <1>2, <1>3

\* A call that is on its way to the generator, or waits for it, has passed the
\* gate at a level that still holds.
GateHolds ==
    \A s \in Callers : call[s].pc \in {"lookup", "generate"} => AllowGenerator

\* The gate of a request stays true while it is alone.
LEMMA GateStays ==
    ASSUME IInv, OneAtATime, GateHolds, [Next]_vars
    PROVE  GateHolds'
<1>1. LimiterTypeOK /\ call \in [Callers -> Call]
  BY DEF IInv, TypeOK, CacheTypeOK
<1>2. ASSUME Collect \/ Tick \/ UNCHANGED events, AllowGenerator
      PROVE  AllowGenerator'
  BY <1>1, <1>2, CountSteps, FewerSignalsAllow DEF AllowGenerator, LevelNow
<1>3. ASSUME Collect \/ Tick \/ UNCHANGED events, UNCHANGED call
      PROVE  GateHolds'
  BY <1>2, <1>3 DEF GateHolds
<1>4. CASE UNCHANGED vars \/ TickOfClock
  BY <1>3, <1>4 DEF vars, TickOfClock, cacheVars, tableVars
<1>5. ASSUME NEW s \in Callers, Open(s) \/ Expire(s) \/ Handler(s)
      PROVE  GateHolds'
  <2>1. ASSUME NEW t \in Callers, t # s, stage[s] # "idle"
        PROVE  call[t].pc \notin {"lookup", "generate"}
    BY <2>1 DEF IInv, StagesSound, OneAtATime
  <2>2. ASSUME Collect \/ UNCHANGED events,
               \A t \in Callers \ {s} : call'[t] = call[t],
               call'[s].pc \in {"lookup", "generate"} =>
                  call[s].pc \in {"lookup", "generate"} \/ AllowGenerator
        PROVE  GateHolds'
    BY <1>2, <2>2 DEF GateHolds
  <2>3. ASSUME stage[s] # "idle",
               \A t \in Callers \ {s} : call'[t] = call[t],
               call'[s].pc \notin {"lookup", "generate"}
        PROVE  GateHolds'
    BY <2>1, <2>3 DEF GateHolds
  <2>4. CASE Open(s)
    BY <1>1, <2>2, <2>4 DEF Open, NewCall
  <2>5. CASE Expire(s) \/ LoadCandidates(s) \/ LoadFails(s) \/ GateDenies(s) \/ ContentReady(s)
             \/ ContentFails(s) \/ ReviewGate(s) \/ SkipItem(s) \/ ReviewEnds(s) \/ SendNext(s)
    BY <1>3, <2>5 DEF Expire, LoadCandidates, LoadFails, GateDenies, ContentReady, ContentFails,
       ReviewGate, SkipItem, Visit, ReviewEnds, SendNext, cacheVars, tableVars
  <2>6. ASSUME NEW k \in Keys, PlanReady(s, k)
        PROVE  GateHolds'
    BY <1>1, <2>3, <2>6 DEF PlanReady, NewCall
  <2>7. CASE PlanFails(s) \/ ReviewItem(s)
    <3>1. stage[s] \in {"plan", "review"} /\ UNCHANGED call
      BY <2>7 DEF PlanFails, ReviewItem, Visit, cacheVars, tableVars
    <3>2. call[s].pc \notin {"lookup", "generate"}
      BY <3>1 DEF IInv, StagesSound
    <3> QED
      BY <2>3, <3>1, <3>2
  <2>8. CASE GateOpens(s)
    <3>1. AllowGenerator /\ Collect /\ Goto(s, "lookup")
      BY <2>8 DEF GateOpens, Start
    <3> QED
      BY <1>1, <2>2, <3>1 DEF Goto
  <2>9. CASE Query(s)
    <3>1. UNCHANGED events
      BY <2>9 DEF Query
    <3>2. CASE FindMiss(s) \/ GetFails(s)
      BY <1>1, <2>2, <3>1, <3>2 DEF FindMiss, GetFails, At, Goto
    <3>3. CASE FindHit(s)
      BY <1>1, <2>2, <3>1, <3>3 DEF FindHit, Call
    <3>4. CASE CountHit(s) \/ CountHitFails(s) \/ Save(s) \/ PutFails(s)
      BY <1>1, <2>2, <3>1, <3>4 DEF CountHit, CountHitFails, Save, PutFails, Return, Call
    <3> QED
      BY <2>9, <3>2, <3>3, <3>4 DEF Query
  <2>10. ASSUME NEW v \in Payloads, GeneratorAnswers(s, v)
         PROVE  GateHolds'
    BY <1>1, <2>2, <2>10 DEF GeneratorAnswers, Generated, Chat, Call
  <2>11. ASSUME NEW outcome, GeneratorRetries(s, outcome)
         PROVE  GateHolds'
    BY <1>3, <2>11 DEF GeneratorRetries, Retryable, Chat, cacheVars, tableVars
  <2>12. CASE GenFails(s)
    <3>1. stage[s] # "idle"
      BY <2>12 DEF GenFails, At, IInv, StagesSound
    <3> QED
      BY <1>1, <2>3, <2>12, <3>1 DEF GenFails, Return, Call
  <2> QED
    BY <1>5, <2>4, <2>5, <2>6, <2>7, <2>8, <2>9, <2>10, <2>11, <2>12
       DEF Handler, Generate, GeneratorGivesUp, NothingToGenerate
<1> QED
  BY <1>4, <1>5 DEF Next

\* Requests that do not overlap generate only at a level that allows it.
THEOREM GateHoldsUntilGeneration == Spec => NoGenerationWhenThrottled
<1>1. Init => GateHolds
  BY DEF Init, CacheInit, NewCall, GateHolds
<1>2. IInv /\ OneAtATime /\ GateHolds /\ [Next]_vars => GateHolds'
  BY GateStays
<1>3. GateHolds => \A s \in Callers : At(s, "generate") /\ HasWords(s) => AllowGenerator
  BY DEF GateHolds, At
<1> QED
  BY <1>1, <1>2, <1>3, Inductive, PTL DEF Spec, NoGenerationWhenThrottled

-----------------------------------------------------------------------------
\* A call of the language model (ChatCall), for every number of retries, every
\* first budget and every set of replies.

\* What a call holds at each of its steps.  The outcomes before the last one
\* earned a retry, and so did the last one of a call that goes on.
AttemptsSound ==
    /\ step # "idle" => Len(outcomes) <= retries
    /\ \A i \in DOMAIN outcomes : i < Len(outcomes) \/ step # "idle" => Retryable(outcomes[i])
    /\ step = "idle" /\ Len(outcomes) \in 1..retries => ~Retryable(outcomes[Len(outcomes)])

AnswerSound ==
    /\ step = "send" => status = 0
    /\ step = "judge" => status = 200 /\ reply \in Replies

BudgetSound ==
    step # "idle" /\ retries = maxRetries =>
        /\ Cardinality(Attempts("truncated")) \in 0..Len(outcomes)
        /\ maxTokens = GrownBudget[Cardinality(Attempts("truncated"))]

ChatInv ==
    /\ ChatTypeOK
    /\ AttemptsSound
    /\ AnswerSound
    /\ BudgetSound
    /\ ContentIsWhole

\* One line of the recursion.
BudgetLine(g, i) == IF i = 0 THEN FirstBudget ELSE Grown(g[i - 1])

BudgetSolves(g, n) == g = [i \in 0..n |-> BudgetLine(g, i)]

\* The recursion of GrownBudget has a solution of every length.
LEMMA BudgetHasSolution == \A n \in Nat : \E g : BudgetSolves(g, n)
<1> DEFINE S == {n \in Nat : \E g : BudgetSolves(g, n)}
<1>1. 0 \in S
  <2> DEFINE g0 == [i \in 0..0 |-> FirstBudget]
  <2>1. BudgetSolves(g0, 0)
    BY DEF BudgetSolves, BudgetLine
  <2> QED
    BY <2>1
<1>2. ASSUME NEW n \in Nat, n \in S
      PROVE  n + 1 \in S
  <2>1. PICK g : BudgetSolves(g, n)
    BY <1>2
  <2> DEFINE h == [i \in 0..(n + 1) |-> IF i <= n THEN g[i] ELSE Grown(g[n])]
  <2>2. ASSUME NEW i \in 0..(n + 1)
        PROVE  h[i] = BudgetLine(h, i)
    <3>1. CASE i = 0
      <4>1. h[0] = g[0] /\ g[0] = FirstBudget
        BY <2>1 DEF BudgetSolves, BudgetLine
      <4> QED
        BY <3>1, <4>1 DEF BudgetLine
    <3>2. CASE i \in 1..n
      <4>1. i - 1 \in 0..(n + 1) /\ i - 1 <= n /\ i \in 0..n /\ i <= n /\ i # 0
        BY <3>2
      <4>2. h[i - 1] = g[i - 1] /\ h[i] = g[i]
        BY <4>1
      <4>3. g[i] = Grown(g[i - 1])
        BY <2>1, <4>1 DEF BudgetSolves, BudgetLine
      <4> QED
        BY <4>1, <4>2, <4>3 DEF BudgetLine
    <3>3. CASE i = n + 1
      <4>1. i - 1 = n /\ n \in 0..(n + 1) /\ n + 1 \in 0..(n + 1) /\ ~(n + 1 <= n) /\ i # 0
        BY <3>3
      <4>2. h[n] = g[n] /\ h[n + 1] = Grown(g[n])
        BY <4>1
      <4> QED
        BY <3>3, <4>1, <4>2 DEF BudgetLine
    <3> QED
      BY <3>1, <3>2, <3>3
  <2>3. BudgetSolves(h, n + 1)
    <3>1. h = [i \in 0..(n + 1) |-> h[i]]
      OBVIOUS
    <3> HIDE DEF h
    <3> QED
      BY <2>2, <3>1 DEF BudgetSolves
  <2> QED
    BY <2>3
<1> HIDE DEF S
<1>3. \A n \in Nat : n \in S
  BY <1>1, <1>2, SetInduction
<1> QED
  BY <1>3 DEF S

\* GrownBudget is its recursion.
LEMMA GrownBudgetSteps ==
    /\ GrownBudget[0] = FirstBudget
    /\ \A n \in Nat : n + 1 <= maxRetries => GrownBudget[n + 1] = Grown(GrownBudget[n])
<1> USE ChatOutcomeAssumption DEF ChatOutcomeAssumption
<1>1. BudgetSolves(GrownBudget, maxRetries)
  <2>1. \E g : BudgetSolves(g, maxRetries)
    BY BudgetHasSolution
  <2> QED
    BY <2>1 DEF GrownBudget, BudgetSolves, BudgetLine
<1>2. 0 \in 0..maxRetries
  OBVIOUS
<1>3. ASSUME NEW n \in Nat, n + 1 <= maxRetries
      PROVE  GrownBudget[n + 1] = Grown(GrownBudget[n])
  <2>1. n + 1 \in 0..maxRetries /\ n + 1 # 0 /\ (n + 1) - 1 = n
    BY <1>3
  <2> QED
    BY <1>1, <2>1 DEF BudgetSolves, BudgetLine
<1> QED
  BY <1>1, <1>2, <1>3 DEF BudgetSolves, BudgetLine

\* The truncations of a call that makes another attempt, counted.
LEMMA TruncationsAppend ==
    ASSUME outcomes \in Seq(Outcomes), NEW outcome \in Outcomes,
           outcomes' = Append(outcomes, outcome)
    PROVE  /\ Cardinality(Attempts("truncated")) \in 0..Len(outcomes)
           /\ Cardinality(Attempts("truncated")') =
                IF outcome = "truncated" THEN Cardinality(Attempts("truncated")) + 1
                ELSE Cardinality(Attempts("truncated"))
<1> DEFINE n == Len(outcomes)
           T == Attempts("truncated")
<1>1. n \in Nat /\ Len(outcomes') = n + 1 /\ outcomes'[n + 1] = outcome
      /\ \A i \in 1..n : outcomes'[i] = outcomes[i]
  OBVIOUS
<1>2. T \subseteq 1..n
  BY DEF Attempts
<1>3. IsFiniteSet(1..n) /\ Cardinality(1..n) = n
  <2>1. ASSUME NEW k \in Nat
        PROVE  IsFiniteSet(1..k) /\ Cardinality(1..k) = k
    <3>1. IsFiniteSet(1..k) /\ Cardinality(1..k) = IF 1 > k THEN 0 ELSE k - 1 + 1
      BY FS_Interval
    <3> QED
      BY <3>1
  <2> QED
    BY <1>1, <2>1
<1>4. IsFiniteSet(T) /\ Cardinality(T) <= n /\ Cardinality(T) \in Nat
  BY <1>2, <1>3, FS_Subset, FS_CardinalityType
<1>5. T' = IF outcome = "truncated" THEN T \cup {n + 1} ELSE T
  <2>1. T' = {i \in 1..(n + 1) : outcomes'[i] = "truncated"}
    BY <1>1 DEF Attempts
  <2>2. T = {i \in 1..n : outcomes[i] = "truncated"}
    BY DEF Attempts
  <2>3. 1..(n + 1) = (1..n) \cup {n + 1}
    BY <1>1
  <2> HIDE DEF T, n
  <2> QED
    BY <1>1, <2>1, <2>2, <2>3
<1>6. n + 1 \notin T
  BY <1>1, <1>2
<1>7. Cardinality(T \cup {n + 1}) = Cardinality(T) + 1
  BY <1>4, <1>6, FS_AddElement
<1>8. Cardinality(T') = IF outcome = "truncated" THEN Cardinality(T) + 1 ELSE Cardinality(T)
  BY <1>5, <1>7
<1>9. Cardinality(T) \in 0..n
  BY <1>1, <1>4
<1> QED
  BY <1>8, <1>9

\* An attempt that is over keeps the history of its call sound.
LEMMA ConcludeKeeps ==
    ASSUME ChatInv, step # "idle", NEW outcome \in Outcomes, Conclude(outcome)
    PROVE  /\ step' \in {"idle", "token"} /\ retries' = retries
           /\ maxTokens' \in Nat
           /\ outcomes' \in Seq(Outcomes) /\ Len(outcomes') <= retries' + 1
           /\ AttemptsSound'
           /\ BudgetSound'
           /\ outcomes' # <<>> /\ outcomes'[Len(outcomes')] = outcome
<1> USE ChatOutcomeAssumption, ChatCallAssumption DEF ChatOutcomeAssumption, ChatCallAssumption
<1>1. /\ outcomes \in Seq(Outcomes) /\ retries \in Nat /\ retries \in {0, maxRetries}
      /\ maxTokens \in Nat /\ Len(outcomes) <= retries
  BY DEF ChatInv, ChatTypeOK, AttemptsSound
<1>2. outcomes' = Append(outcomes, outcome) /\ retries' = retries
  BY DEF Conclude
<1>3. /\ outcomes' \in Seq(Outcomes) /\ Len(outcomes') = Len(outcomes) + 1
      /\ outcomes' # <<>> /\ outcomes'[Len(outcomes')] = outcome
      /\ DOMAIN outcomes' = 1..(Len(outcomes) + 1) /\ DOMAIN outcomes = 1..Len(outcomes)
      /\ \A i \in DOMAIN outcomes : outcomes'[i] = outcomes[i] /\ Retryable(outcomes[i])
  BY <1>1, <1>2 DEF ChatInv, AttemptsSound
<1>4. Grown(maxTokens) \in Nat
  <2>1. maxTokens * 3 \in Nat
    BY <1>1
  <2> QED
    BY <2>1 DEF Grown
<1>5. /\ step' \in {"idle", "token"} /\ maxTokens' \in Nat
      /\ step' # "idle" => Retryable(outcome) /\ Len(outcomes) < retries
      /\ step' = "idle" => ~(Retryable(outcome) /\ Len(outcomes) < retries)
  BY <1>1, <1>4 DEF Conclude
<1>6. AttemptsSound'
  <2>1. step' # "idle" => Len(outcomes') <= retries'
    BY <1>1, <1>2, <1>3, <1>5
  <2>2. ASSUME NEW i \in DOMAIN outcomes', i < Len(outcomes') \/ step' # "idle"
        PROVE  Retryable(outcomes'[i])
    BY <1>1, <1>3, <1>5, <2>2
  <2>3. step' = "idle" /\ Len(outcomes') \in 1..retries' => ~Retryable(outcomes'[Len(outcomes')])
    BY <1>1, <1>2, <1>3, <1>5
  <2> QED
    BY <2>1, <2>2, <2>3 DEF AttemptsSound
<1>7. BudgetSound'
  <2> SUFFICES ASSUME step' # "idle", retries' = maxRetries
               PROVE  /\ Cardinality(Attempts("truncated")') \in 0..Len(outcomes')
                      /\ maxTokens' = GrownBudget[Cardinality(Attempts("truncated")')]
    BY DEF BudgetSound, Attempts
  <2> DEFINE c == Cardinality(Attempts("truncated"))
             d == Cardinality(Attempts("truncated")')
  <2>1. /\ c \in 0..Len(outcomes)
        /\ d = IF outcome = "truncated" THEN c + 1 ELSE c
    BY <1>1, <1>2, TruncationsAppend
  <2>2. maxTokens = GrownBudget[c]
    BY <1>2 DEF ChatInv, BudgetSound
  <2>3. Len(outcomes) < maxRetries
    BY <1>2, <1>5
  <2>4. maxTokens' = IF outcome = "truncated" THEN Grown(maxTokens) ELSE maxTokens
    BY <1>5 DEF Conclude
  <2> HIDE DEF c, d
  <2>5. c \in Nat /\ c + 1 <= maxRetries
    BY <1>1, <2>1, <2>3
  <2>6. GrownBudget[c + 1] = Grown(GrownBudget[c])
    BY <2>5, GrownBudgetSteps
  <2>7. maxTokens' = GrownBudget[d]
    BY <2>1, <2>2, <2>4, <2>6
  <2>8. d \in 0..Len(outcomes')
    BY <1>1, <1>3, <2>1
  <2> QED
    BY <2>7, <2>8 DEF d
<1> QED
  BY <1>1, <1>2, <1>3, <1>5, <1>6, <1>7

\* Content that is taken is a whole answer.
LEMMA JudgedOkIsWhole ==
    ASSUME NEW r \in Response, Judged(r) = "ok"
    PROVE  /\ ~r.error /\ ~r.refusal /\ ~r.incomplete
           /\ r.outputText = "none" =>
                \A i \in DOMAIN r.output :
                    /\ ~r.output[i].incomplete
                    /\ \A j \in DOMAIN r.output[i].content :
                         LET part == r.output[i].content[j]
                         IN  ~part.refusal /\ (part.type = "refusal" => part.text = "none")
<1>1. ~r.error /\ ~r.refusal /\ ~r.incomplete
  BY DEF Judged, Response
<1>2. ~extractText(r).refusal /\ ~extractText(r).truncated
  BY <1>1 DEF Judged
<1>3. ASSUME r.outputText = "none", NEW i \in DOMAIN r.output
      PROVE  /\ ~r.output[i].incomplete
             /\ \A j \in DOMAIN r.output[i].content :
                  LET part == r.output[i].content[j]
                  IN  ~part.refusal /\ (part.type = "refusal" => part.text = "none")
  <2>1. /\ ~(\E p \in Parts(r) : Refuses(Part(r, p)))
        /\ ~(\E k \in DOMAIN r.output : r.output[k].incomplete)
    BY <1>2, <1>3 DEF extractText
  <2>2. ASSUME NEW j \in DOMAIN r.output[i].content
        PROVE  ~Refuses(r.output[i].content[j])
    <3>1. <<i, j>> \in Parts(r)
      BY <1>3 DEF Parts
    <3>2. Part(r, <<i, j>>) = r.output[i].content[j]
      BY DEF Part
    <3> QED
      BY <2>1, <3>1, <3>2
  <2> QED
    BY <1>3, <2>1, <2>2 DEF Refuses
<1> QED
  BY <1>1, <1>3

\* Reading a reply gives an outcome.
LEMMA JudgedType ==
    ASSUME NEW r
    PROVE  Judged(r) \in Outcomes
BY DEF Judged, Outcomes

\* The limiter as the calls use it.
LEMMA ChatEvents ==
    ASSUME [ChatNext]_chatVars
    PROVE  Record \/ Tick \/ UNCHANGED events
BY DEF ChatNext, chatVars, Begin, TokenFound, TokenMissing, SendFails, Answers, AnswersOK, Judge,
   ClockTicks

\* A call begins with an empty history.
LEMMA BeginKeeps ==
    ASSUME ChatInv, NEW n \in {0, maxRetries}, Begin(n), LimiterTypeOK'
    PROVE  ChatInv'
<1> USE ChatOutcomeAssumption, ChatCallAssumption DEF ChatOutcomeAssumption, ChatCallAssumption
<1>1. /\ step' = "token" /\ retries' = n /\ outcomes' = <<>> /\ status' = 0 /\ reply' = NoReply
      /\ maxTokens' = IF n = maxRetries THEN FirstBudget ELSE 0
  BY DEF Begin
<1>2. <<>> \in Seq(Outcomes) /\ Len(<<>>) = 0 /\ DOMAIN <<>> = {}
  OBVIOUS
<1>3. ChatTypeOK'
  BY <1>1, <1>2 DEF ChatTypeOK
<1>4. AttemptsSound' /\ AnswerSound'
  BY <1>1, <1>2 DEF AttemptsSound, AnswerSound
<1>5. BudgetSound'
  <2>1. Attempts("truncated")' = {}
    BY <1>1, <1>2 DEF Attempts
  <2>2. Cardinality(Attempts("truncated")') = 0
    BY <2>1, FS_EmptySet
  <2> QED
    BY <1>1, <1>2, <2>2, GrownBudgetSteps DEF BudgetSound, Attempts
<1>6. ContentIsWhole'
  BY <1>1 DEF ContentIsWhole
<1> QED
  BY <1>3, <1>4, <1>5, <1>6 DEF ChatInv

\* An attempt ends: with no answer, with a status outside 2xx, or with what its
\* reply is judged to be.
LEMMA AttemptEndsKeeps ==
    ASSUME ChatInv, LimiterTypeOK', step # "idle",
           NEW outcome \in Outcomes, Conclude(outcome),
           status' \in OtherStatuses \cup {0, 200}, UNCHANGED reply,
           outcome = "ok" => step = "judge" /\ Judged(reply) = "ok" /\ UNCHANGED status
    PROVE  ChatInv'
<1>1. /\ step' \in {"idle", "token"} /\ retries' = retries
      /\ maxTokens' \in Nat
      /\ outcomes' \in Seq(Outcomes) /\ Len(outcomes') <= retries' + 1
      /\ AttemptsSound'
      /\ BudgetSound'
      /\ outcomes' # <<>> /\ outcomes'[Len(outcomes')] = outcome
  BY ConcludeKeeps
<1>2. ChatTypeOK'
  BY <1>1 DEF ChatInv, ChatTypeOK
<1>3. AnswerSound'
  BY <1>1 DEF AnswerSound
<1>4. ContentIsWhole'
  <2> SUFFICES ASSUME outcome = "ok" PROVE ContentIsWhole'
    BY <1>1 DEF ContentIsWhole
  <2>1. reply \in Response /\ Judged(reply) = "ok" /\ status' = 200 /\ reply' = reply
    BY ChatCallAssumption DEF ChatCallAssumption, ChatInv, AnswerSound
  <2>2. /\ ~reply.error /\ ~reply.refusal /\ ~reply.incomplete
        /\ reply.outputText = "none" =>
             \A i \in DOMAIN reply.output :
                 /\ ~reply.output[i].incomplete
                 /\ \A j \in DOMAIN reply.output[i].content :
                      LET part == reply.output[i].content[j]
                      IN  ~part.refusal /\ (part.type = "refusal" => part.text = "none")
    BY <2>1, JudgedOkIsWhole
  <2> QED
    BY <2>1, <2>2 DEF ContentIsWhole
<1> QED
  BY <1>1, <1>2, <1>3, <1>4 DEF ChatInv

\* A step inside an attempt leaves its history alone.
LEMMA WithinAttemptKeeps ==
    ASSUME ChatInv, LimiterTypeOK', step # "idle", step' \in {"send", "judge"},
           UNCHANGED <<retries, maxTokens, outcomes>>,
           step' = "send" => status' = 0 /\ reply' = NoReply,
           step' = "judge" => status' = 200 /\ reply' \in Replies
    PROVE  ChatInv'
<1>1. ChatTypeOK'
  BY DEF ChatInv, ChatTypeOK
<1>2. AttemptsSound' /\ AnswerSound' /\ ContentIsWhole'
  BY DEF ChatInv, AttemptsSound, AnswerSound, ContentIsWhole
<1>3. BudgetSound'
  BY DEF ChatInv, BudgetSound, Attempts
<1> QED
  BY <1>1, <1>2, <1>3 DEF ChatInv

\* Every step of a call preserves the invariant.
LEMMA ChatStepKeeps == ChatInv /\ [ChatNext]_chatVars => ChatInv'
<1> SUFFICES ASSUME ChatInv, [ChatNext]_chatVars PROVE ChatInv'
  OBVIOUS
<1>1. LimiterTypeOK'
  BY ChatEvents, LimiterType DEF ChatInv, ChatTypeOK
<1>2. CASE UNCHANGED callVars
  <2>1. ChatTypeOK'
    BY <1>1, <1>2 DEF ChatInv, ChatTypeOK, callVars
  <2>2. AttemptsSound' /\ AnswerSound' /\ ContentIsWhole' /\ BudgetSound'
    BY <1>2 DEF ChatInv, callVars, AttemptsSound, AnswerSound, ContentIsWhole, BudgetSound,
       Attempts
  <2> QED
    BY <2>1, <2>2 DEF ChatInv
<1>3. ASSUME NEW n \in {0, maxRetries}, Begin(n)
      PROVE  ChatInv'
  BY <1>1, <1>3, BeginKeeps
<1>4. CASE TokenFound
  BY <1>1, <1>4, WithinAttemptKeeps DEF TokenFound
<1>5. ASSUME NEW r \in Replies, AnswersOK(r)
      PROVE  ChatInv'
  BY <1>1, <1>5, WithinAttemptKeeps DEF AnswersOK
<1>6. CASE TokenMissing \/ SendFails
  <2>1. /\ step # "idle" /\ Conclude("failed") /\ UNCHANGED <<status, reply>>
        /\ "failed" \in Outcomes
    BY <1>6 DEF TokenMissing, SendFails, Outcomes
  <2>2. status' \in OtherStatuses \cup {0, 200}
    BY <2>1 DEF ChatInv, ChatTypeOK
  <2> QED
    BY <1>1, <2>1, <2>2, AttemptEndsKeeps
<1>7. ASSUME NEW code \in OtherStatuses, Answers(code)
      PROVE  ChatInv'
  <2> DEFINE outcome == IF RateSignal(code) THEN "throttled" ELSE "failed"
  <2>1. outcome \in Outcomes /\ outcome # "ok"
    BY DEF Outcomes
  <2>2. step # "idle" /\ Conclude(outcome) /\ status' = code /\ UNCHANGED reply
    BY <1>7 DEF Answers
  <2> HIDE DEF outcome
  <2> QED
    BY <1>1, <2>1, <2>2, AttemptEndsKeeps
<1>8. CASE Judge
  <2>1. step = "judge" /\ Conclude(Judged(reply)) /\ UNCHANGED <<status, reply>>
    BY <1>8 DEF Judge
  <2>2. Judged(reply) \in Outcomes
    BY JudgedType
  <2>3. status' \in OtherStatuses \cup {0, 200}
    BY <2>1 DEF ChatInv, ChatTypeOK
  <2> QED
    BY <1>1, <2>1, <2>2, <2>3, AttemptEndsKeeps
<1> QED
  BY <1>2, <1>3, <1>4, <1>5, <1>6, <1>7, <1>8 DEF ChatNext, chatVars, ClockTicks

\* The invariant holds in every reachable state of a call.
LEMMA ChatInvariance == ChatSpec => []ChatInv
<1>1. ChatInit => ChatInv
  <2> SUFFICES ASSUME ChatInit PROVE ChatInv
    OBVIOUS
  <2> USE ChatOutcomeAssumption, RateLimiterAssumption DEF ChatOutcomeAssumption, RateLimiterAssumption
  <2>1. step = "idle" /\ outcomes = <<>> /\ retries = 0
    BY DEF ChatInit
  <2>2. ChatTypeOK
    BY DEF ChatInit, ChatTypeOK, LimiterInit, LimiterTypeOK
  <2>3. AttemptsSound /\ AnswerSound /\ BudgetSound /\ ContentIsWhole
    BY <2>1 DEF AttemptsSound, AnswerSound, BudgetSound, ContentIsWhole
  <2> QED
    BY <2>2, <2>3 DEF ChatInv
<1> QED
  BY <1>1, ChatStepKeeps, PTL DEF ChatSpec

\* Content is a whole answer of the provider, whatever shape its replies have.
THEOREM ContentTakenIsWhole == ChatSpec => []ContentIsWhole
<1>1. ChatInv => ContentIsWhole
  BY DEF ChatInv
<1> QED
  BY <1>1, ChatInvariance, PTL

\* Every retry is earned, and its budget is the first one grown by half for
\* each truncation, for every number of retries.
THEOREM EveryRetryEarned == ChatSpec => []RetriesAreEarned
<1>1. ASSUME ChatInv
      PROVE  RetriesAreEarned
  <2>1. outcomes \in Seq(Outcomes) /\ retries \in Nat
    BY <1>1, ChatOutcomeAssumption DEF ChatOutcomeAssumption, ChatInv, ChatTypeOK
  <2>2. \A i \in DOMAIN outcomes :
          i < Len(outcomes) \/ step # "idle" => outcomes[i] \in {"truncated", "refused"}
    BY <1>1 DEF ChatInv, AttemptsSound, Retryable
  <2>3. ASSUME step = "idle", Len(outcomes) \in 1..retries
        PROVE  outcomes[Len(outcomes)] # "truncated"
    BY <1>1, <2>3 DEF ChatInv, AttemptsSound, Retryable
  <2>4. step # "idle" /\ retries = maxRetries =>
          maxTokens = GrownBudget[Cardinality(Attempts("truncated"))]
    BY <1>1 DEF ChatInv, BudgetSound
  <2> QED
    BY <2>2, <2>3, <2>4 DEF RetriesAreEarned
<1> QED
  BY <1>1, ChatInvariance, PTL

\* A recorded signal raises the count by one.
LEMMA RecordCounts ==
    ASSUME LimiterTypeOK, Record
    PROVE  Count(events') > Count(events)
<1>1. Collected(events) \in Seq(Fresh) /\ Collected(events') = Append(Collected(events), 0)
  BY CollectedType, LimiterSteps DEF LimiterTypeOK
<1>2. 0 \in Fresh
  BY RateLimiterAssumption DEF RateLimiterAssumption, Fresh
<1>3. Len(Collected(events)) \in Nat /\ Len(Append(Collected(events), 0)) = Len(Collected(events)) + 1
  BY <1>1, <1>2
<1> QED
  BY <1>1, <1>3 DEF Count

\* The limiter gains a signal exactly when the provider answers 429 or 5xx.
THEOREM SignalsAreAnswers == ChatSpec => SignalsAreThrottles
<1> DEFINE signal == /\ step = "send" /\ step' # "send"
                     /\ status' = 429 \/ status' \in 500..599
<1>1. ASSUME ChatInv, [ChatNext]_chatVars
      PROVE  Count(events') > Count(events) <=> signal
  <2>1. LimiterTypeOK /\ AnswerSound
    BY <1>1 DEF ChatInv, ChatTypeOK
  <2>2. ASSUME Tick \/ UNCHANGED events, ~signal
        PROVE  Count(events') > Count(events) <=> signal
    BY <2>1, <2>2, CountSteps
  <2>3. ASSUME NEW code \in OtherStatuses, Answers(code)
        PROVE  Count(events') > Count(events) <=> signal
    <3>1. step = "send" /\ step' # "send" /\ status' = code
      BY <2>3 DEF Answers, Conclude
    <3>2. signal <=> RateSignal(code)
      BY <3>1 DEF RateSignal
    <3>3. CASE RateSignal(code)
      BY <2>1, <2>3, <3>2, <3>3, RecordCounts DEF Answers
    <3>4. CASE ~RateSignal(code)
      BY <2>2, <2>3, <3>2, <3>4 DEF Answers
    <3> QED
      BY <3>3, <3>4
  <2>4. CASE ClockTicks \/ UNCHANGED chatVars
    BY <2>2, <2>4 DEF ClockTicks, chatVars, callVars
  <2>5. CASE TokenFound \/ TokenMissing \/ Judge
    BY <2>2, <2>5 DEF TokenFound, TokenMissing, Judge
  <2>6. CASE SendFails
    BY <2>1, <2>2, <2>6 DEF SendFails, AnswerSound
  <2>7. ASSUME NEW r \in Replies, AnswersOK(r)
        PROVE  Count(events') > Count(events) <=> signal
    BY <2>2, <2>7 DEF AnswersOK
  <2>8. ASSUME NEW n \in {0, maxRetries}, Begin(n)
        PROVE  Count(events') > Count(events) <=> signal
    BY <2>2, <2>8 DEF Begin
  <2> QED
    BY <1>1, <2>3, <2>4, <2>5, <2>6, <2>7, <2>8 DEF ChatNext
<1> QED
  BY <1>1, ChatInvariance, PTL DEF ChatSpec, SignalsAreThrottles
=============================================================================
