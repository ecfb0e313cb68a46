------------------------------ MODULE ChatCall ------------------------------
(***************************************************************************)
(* A call of an agent to the language model: chatgpt.Client.Chat with its  *)
(* token, its HTTP request and its reading of the answer, inside the retry *)
(* loop of generator.Generate or the single attempt of llm.ChatStructured. *)
(*                                                                         *)
(* The provider may answer anything; of a text only matters whether there  *)
(* is one and whether it decodes into what was asked for.                  *)
(***************************************************************************)
EXTENDS RateLimiter, ChatOutcome, FiniteSets

CONSTANTS
    FirstBudget,    \* the first maxTokens of the generator
    Replies,        \* the bodies a 2xx answer can have
    OtherStatuses,  \* the status codes of other answers
    NoReply         \* no 2xx answer was read

\* A text of a reply: whether there is one, and whether it decodes into what
\* was asked for.
Texts == {"none", "valid", "invalid"}

ContentPart == [type : STRING, text : Texts, refusal : BOOLEAN]

OutputItem == [incomplete : BOOLEAN, content : Seq(ContentPart)]

Response == [error : BOOLEAN, refusal : BOOLEAN, incomplete : BOOLEAN,
             outputText : Texts, output : Seq(OutputItem)]

ASSUME ChatCallAssumption ==
    /\ FirstBudget \in Nat
    /\ Replies \subseteq Response
    /\ OtherStatuses \subseteq (300..599)
    /\ NoReply \notin Replies

VARIABLES
    step,           \* what the call does next
    retries,        \* how often the caller retries: maxRetries or 0
    maxTokens,      \* the budget of the next attempt; 0 is none
    status,         \* the status code of the last answer, 0 before it
    reply,          \* the last 2xx body
    outcomes        \* history: what each attempt of this call came to

callVars == <<step, retries, maxTokens, status, reply, outcomes>>

chatVars == <<events, callVars>>

ChatTypeOK ==
    /\ LimiterTypeOK
    /\ step \in {"idle", "token", "send", "judge"}
    /\ retries \in {0, maxRetries}
    /\ maxTokens \in Nat
    /\ status \in OtherStatuses \cup {0, 200}
    /\ reply \in Replies \cup {NoReply}
    /\ outcomes \in Seq(Outcomes)
    /\ Len(outcomes) <= retries + 1

ChatInit ==
    /\ LimiterInit
    /\ step = "idle"
    /\ retries = 0
    /\ maxTokens = 0
    /\ status = 0
    /\ reply = NoReply
    /\ outcomes = <<>>

-----------------------------------------------------------------------------
\* Reading a reply.  A part has a text and a refusal of its own; the text of a
\* part of type "refusal" is a refusal too.

Parts(r) == UNION {{<<i, j>> : j \in DOMAIN r.output[i].content} : i \in DOMAIN r.output}

Part(r, p) == r.output[p[1]].content[p[2]]

Precedes(p, q) == p[1] < q[1] \/ (p[1] = q[1] /\ p[2] <= q[2])

TextParts(r) ==
    {p \in Parts(r) : Part(r, p).text # "none" /\ Part(r, p).type # "refusal"}

Refuses(part) == part.refusal \/ (part.type = "refusal" /\ part.text # "none")

\* The last text wins.
LastText(r) ==
    IF TextParts(r) = {} THEN "none"
    ELSE Part(r, CHOOSE p \in TextParts(r) : \A q \in TextParts(r) : Precedes(q, p)).text

extractText_FaultyStopsAtText(r) ==
    IF r.outputText # "none"
    THEN [text |-> r.outputText, refusal |-> FALSE, truncated |-> FALSE]
    ELSE [text |-> LastText(r),
          refusal |-> TextParts(r) = {} /\ \E p \in Parts(r) : Refuses(Part(r, p)),
          truncated |-> \E i \in DOMAIN r.output : r.output[i].incomplete]

\* A top-level output_text hides whatever the parts say.
extractText(r) ==
    IF r.outputText # "none"
    THEN [text |-> r.outputText, refusal |-> FALSE, truncated |-> FALSE]
    ELSE [text |-> LastText(r),
          refusal |-> \E p \in Parts(r) : Refuses(Part(r, p)),
          truncated |-> \E i \in DOMAIN r.output : r.output[i].incomplete]

\* What Chat and the decoding of its content make of a 2xx reply.
Judged(r) ==
    LET x == extractText(r)
    IN  IF r.error THEN "failed"
        ELSE IF r.refusal THEN "refused"
        ELSE IF r.incomplete THEN "truncated"
        ELSE IF x.refusal THEN "refused"
        ELSE IF x.truncated THEN "truncated"
        ELSE IF x.text = "valid" THEN "ok" ELSE "failed"

\* int(float64(maxTokens) * 1.5) after a truncation.
Grown(budget) == (budget * 3) \div 2

\* An attempt is over: another one, or the call returns.
Conclude(outcome) ==
    /\ outcomes' = Append(outcomes, outcome)
    /\ IF Retryable(outcome) /\ Len(outcomes) < retries
       THEN /\ step' = "token"
            /\ maxTokens' = IF outcome = "truncated" THEN Grown(maxTokens) ELSE maxTokens
       ELSE step' = "idle" /\ UNCHANGED maxTokens
    /\ UNCHANGED retries

-----------------------------------------------------------------------------
\* The generator starts its loop, or another agent makes its only attempt.
Begin(n) ==
    /\ step = "idle"
    /\ step' = "token"
    /\ retries' = n
    /\ maxTokens' = IF n = maxRetries THEN FirstBudget ELSE 0
    /\ status' = 0
    /\ reply' = NoReply
    /\ outcomes' = <<>>
    /\ UNCHANGED events

TokenFound ==
    /\ step = "token"
    /\ step' = "send"
    /\ status' = 0
    /\ reply' = NoReply
    /\ UNCHANGED <<events, retries, maxTokens, outcomes>>

\* Ensure fails, or gives an empty token: nobody is logged in.
TokenMissing ==
    /\ step = "token"
    /\ Conclude("failed")
    /\ UNCHANGED <<events, status, reply>>

\* No answer, or one that breaks off: a timeout, a lost connection, a context
\* that is done.
SendFails ==
    /\ step = "send"
    /\ Conclude("failed")
    /\ UNCHANGED <<events, status, reply>>

RateSignal_FaultyServerErrors(code) == code = 429 \/ code \in 501..599

\* Which codes the limiter records.
RateSignal(code) == code = 429 \/ code \in 500..599

\* A status outside 2xx is shown to the limiter and ends the call.
Answers(code) ==
    /\ step = "send"
    /\ status' = code
    /\ IF RateSignal(code) THEN Record ELSE UNCHANGED events
    /\ Conclude(IF RateSignal(code) THEN "throttled" ELSE "failed")
    /\ UNCHANGED reply

AnswersOK(r) ==
    /\ step = "send"
    /\ step' = "judge"
    /\ status' = 200
    /\ reply' = r
    /\ UNCHANGED <<events, retries, maxTokens, outcomes>>

Judge ==
    /\ step = "judge"
    /\ Conclude(Judged(reply))
    /\ UNCHANGED <<events, status, reply>>

ClockTicks == Tick /\ UNCHANGED callVars

ChatNext ==
    \/ \E n \in {0, maxRetries} : Begin(n)
    \/ TokenFound \/ TokenMissing \/ SendFails
    \/ (\E code \in OtherStatuses : Answers(code))
    \/ (\E r \in Replies : AnswersOK(r))
    \/ Judge
    \/ ClockTicks

ChatSpec == ChatInit /\ [][ChatNext]_chatVars

-----------------------------------------------------------------------------
Attempts(outcome) == {i \in DOMAIN outcomes : outcomes[i] = outcome}

\* The first budget, grown n times.
GrownBudget[n \in 0..maxRetries] ==
    IF n = 0 THEN FirstBudget ELSE Grown(GrownBudget[n - 1])

\* Another attempt is made only after a truncation or a refusal, so never
\* against a provider that throttles or for a user who is logged out; a call
\* never gives up on a truncation with attempts left (of refusals, of which
\* generator.go:54-56 speaks, nothing is said here); and the budget of an
\* attempt grows by half with every truncation before it, and with nothing
\* else, however truncations and refusals alternate (generator.go:76-93).
RetriesAreEarned ==
    /\ \A i \in DOMAIN outcomes :
        i < Len(outcomes) \/ step # "idle" => outcomes[i] \in {"truncated", "refused"}
    /\ step = "idle" /\ Len(outcomes) \in 1..retries =>
        outcomes[Len(outcomes)] # "truncated"
    /\ step # "idle" /\ retries = maxRetries =>
        maxTokens = GrownBudget[Cardinality(Attempts("truncated"))]

\* What an agent takes for content is a whole answer: a 2xx reply that decodes,
\* with no refusal and no incomplete item anywhere in it.  The exception is a
\* reply with a top-level output_text, whose parts nobody looks at
\* (client.go:197-216, 270-291).
ContentIsWhole ==
    step = "idle" /\ outcomes # <<>> /\ outcomes[Len(outcomes)] = "ok" =>
        /\ status = 200
        /\ ~reply.error /\ ~reply.refusal /\ ~reply.incomplete
        /\ reply.outputText = "none" =>
            \A i \in DOMAIN reply.output :
                /\ ~reply.output[i].incomplete
                /\ \A j \in DOMAIN reply.output[i].content :
                    LET part == reply.output[i].content[j]
                    IN  ~part.refusal /\ (part.type = "refusal" => part.text = "none")

\* ratelimit.go:47-48: "429 and 5xx are treated as rate signals; other codes
\* are ignored", and so are answers that never came: the limiter gains a
\* signal with exactly those answers, one each.
SignalsAreThrottles ==
    [][Count(events') > Count(events)
        <=> /\ step = "send" /\ step' # "send"
            /\ status' = 429 \/ status' \in 500..599]_chatVars

============================================================================
