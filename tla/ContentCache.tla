---------------------------- MODULE ContentCache ----------------------------
(***************************************************************************)
(* cache.WithCache (internal/cache/cache.go) over the generated_content    *)
(* table (internal/repo/content.go), called by several goroutines at once. *)
(* Every query is a step of its own and nothing ties them together: two    *)
(* calls may miss the same key and both generate and store.                *)
(*                                                                         *)
(* A Caller is one call.  A payload is what the JSON decodes to;           *)
(* Undecodable is a stored text that is empty or does not decode.  Session *)
(* and Supply put the generator and the callers around it.                 *)
(***************************************************************************)
EXTENDS Integers, FiniteSets

CONSTANTS
    Callers,        \* the calls
    Keys,           \* the cache keys they use
    Payloads,       \* what a generator can return
    Undecodable,    \* a stored text that is not a payload
    NoRow,          \* sql.ErrNoRows
    MaxCount        \* bound (saturation) of the counters

ASSUME ContentCacheAssumption ==
    /\ Undecodable \notin Payloads
    /\ NoRow \notin Payloads \cup {Undecodable}
    /\ MaxCount \in Nat

VARIABLES
    content,        \* payload_json of each key, or NoRow
    hitCount,       \* hit_count of each row
    seen,           \* history: <<c, k>> when c has read or stored the row of
                    \* k and nobody has stored it since
    call            \* the calls: program counter, key, value, result

tableVars == <<content, hitCount, seen>>

cacheVars == <<tableVars, call>>

Stored == Payloads \cup {Undecodable}

NoValue == NoRow

Call == [pc : {"new", "lookup", "countHit", "generate", "save", "returned"},
         key : Keys,
         value : Payloads \cup {NoValue},
         result : {"none", "hit", "miss", "genError", "putError"}]

CacheTypeOK ==
    /\ content \in [Keys -> Stored \cup {NoRow}]
    /\ hitCount \in [Keys -> 0..MaxCount]
    /\ call \in [Callers -> Call]

Bumped(n) == IF n < MaxCount THEN n + 1 ELSE n

At(c, label) == call[c].pc = label

Goto(c, label) == call' = [call EXCEPT ![c].pc = label]

Return(c, value, result) ==
    call' = [call EXCEPT ![c].pc = "returned", ![c].value = value, ![c].result = result]

-----------------------------------------------------------------------------
Sees(c) == <<c, call[c].key>> \in seen

\* What the calls other than c have seen.
SeenByOthers(c) == {s \in seen : s[1] # c}

\* The caller is gone, and what it has seen with it.
Forgets(c) ==
    /\ seen' = SeenByOthers(c)
    /\ UNCHANGED <<content, hitCount>>

NewCall(k) == [pc |-> "new", key |-> k, value |-> NoValue, result |-> "none"]

\* The table may hold a row that an older build wrote.
CacheInit ==
    /\ content \in [Keys -> {NoRow, Undecodable}]
    /\ hitCount = [k \in Keys |-> 0]
    /\ seen = {}
    /\ call \in [Callers -> {NewCall(k) : k \in Keys}]

Start(c) ==
    /\ At(c, "new")
    /\ Goto(c, "lookup")
    /\ UNCHANGED tableVars

\* What Get answers is what the row holds now.
Reads(c) ==
    /\ seen' = SeenByOthers(c) \cup {<<c, call[c].key>>}
    /\ UNCHANGED <<content, hitCount>>

\* Get answers with a payload that decodes.
FindHit(c) ==
    /\ At(c, "lookup")
    /\ content[call[c].key] \in Payloads
    /\ call' = [call EXCEPT ![c].pc = "countHit",
                            ![c].value = content[call[c].key]]
    /\ Reads(c)

\* No row, or a text that is empty or does not decode.
FindMiss(c) ==
    /\ At(c, "lookup")
    /\ content[call[c].key] \notin Payloads
    /\ Goto(c, "generate")
    /\ Reads(c)

\* An error of Get is a miss, whatever the row holds.
GetFails(c) ==
    /\ At(c, "lookup")
    /\ Goto(c, "generate")
    /\ Forgets(c)

IncHit_FaultyNoWhere(k) == hitCount' = [q \in Keys |-> Bumped(hitCount[q])]

\* UPDATE generated_content SET hit_count = hit_count + 1 WHERE cache_key = ?
IncHit(k) == hitCount' = [hitCount EXCEPT ![k] = Bumped(@)]

CountHit(c) ==
    /\ At(c, "countHit")
    /\ IncHit(call[c].key)
    /\ Return(c, call[c].value, "hit")
    /\ UNCHANGED <<content, seen>>

CountHitFails_FaultyGenerates(c) ==
    /\ At(c, "countHit")
    /\ Goto(c, "generate")
    /\ UNCHANGED tableVars

\* The error of IncHit is dropped.
CountHitFails(c) ==
    /\ At(c, "countHit")
    /\ Return(c, call[c].value, "hit")
    /\ UNCHANGED tableVars

Generated(c, v) ==
    /\ At(c, "generate")
    /\ call' = [call EXCEPT ![c].pc = "save", ![c].value = v]
    /\ UNCHANGED tableVars

GenFails_FaultyStores(c) ==
    /\ At(c, "generate")
    /\ content' = [content EXCEPT ![call[c].key] = Undecodable]
    /\ Return(c, NoValue, "genError")
    /\ UNCHANGED <<hitCount, seen>>

GenFails(c) ==
    /\ At(c, "generate")
    /\ Return(c, NoValue, "genError")
    /\ UNCHANGED tableVars

\* INSERT ... ON CONFLICT DO UPDATE leaves the hit_count of an existing row.
Put(k, v) ==
    /\ content' = [content EXCEPT ![k] = v]
    /\ UNCHANGED hitCount

\* The row of the call's key holds its value.
Stores(c) ==
    /\ Put(call[c].key, call[c].value)
    /\ seen' = {s \in seen : s[2] # call[c].key} \cup {<<c, call[c].key>>}

Save(c) ==
    /\ At(c, "save")
    /\ Stores(c)
    /\ Return(c, call[c].value, "miss")

\* Put returns an error, also one that comes once the statement has run (a
\* context that ends then).  The value is returned with it, and the caller
\* drops it.
PutFails(c) ==
    /\ At(c, "save")
    /\ Stores(c) \/ UNCHANGED tableVars
    /\ Return(c, call[c].value, "putError")

\* A step of WithCache that is not the generator's.
QueryStep(c) ==
    \/ Start(c)
    \/ FindHit(c) \/ FindMiss(c) \/ GetFails(c)
    \/ CountHit(c) \/ CountHitFails(c)
    \/ Save(c) \/ PutFails(c)

-----------------------------------------------------------------------------
With(results) == {c \in Callers : call[c].result \in results}

OfKey(k) == {c \in Callers : call[c].key = k}

\* What a call returned without an error can be served again: its key holds a
\* payload from then on, whatever other calls of the key fail to generate or
\* to store (cache.go:148-159).
AnsweredKeysStayServable ==
    \A c \in With({"hit", "miss"}) : content[call[c].key] \in Payloads

\* A payload that is there is served and not generated again: a call generates
\* and stores over a payload only if Get failed, or if another call stored it
\* after this one had looked (cache.go:136-148).
PayloadsAreServed ==
    \A c \in Callers :
        Sees(c) /\ call[c].pc \in {"generate", "save"}
            => content[call[c].key] \notin Payloads
=============================================================================
