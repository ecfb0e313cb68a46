----------------------------- MODULE LoginFlow -----------------------------
(***************************************************************************)
(* `app login` (cmd/app/login.go, Flow.Login in internal/oauth/oauth.go)   *)
(* beside the refreshes, logouts and crashes of TokenStore.                *)
(*                                                                         *)
(* A login listens on the one callback port, opens a browser and waits for *)
(* the first callback or its timeout.  Each callback is served by a        *)
(* goroutine that hands its result over a channel of capacity one, which   *)
(* the login reads once: later callbacks fill the channel and then block.  *)
(***************************************************************************)
EXTENDS TokenStore, Sequences

CONSTANTS
    NoProc,         \* nobody listens
    MaxCallbacks    \* bound on the callbacks of a login that block at once

ASSUME LoginAssumption ==
    /\ NoProc \notin Procs
    /\ MaxCallbacks \in Nat

VARIABLES
    port,           \* who listens on LocalCallbackPort
    stage,          \* where each process is in Login
    handlers,       \* callback goroutines that have their result to send
    resultCh,       \* the channel of each login
    apart           \* history: no refresh has saved while another call did

loginVars == <<port, stage, handlers, resultCh>>

allVars == <<vars, loginVars, apart>>

\* A callback brings the code the login waits for, or something it refuses: an
\* error, no code, or the state of another login.
Results == {"code", "refused"}

NoHandlers == [result \in Results |-> 0]

Running(p) == handlers[p]["code"] + handlers[p]["refused"]

LoginTypeOK ==
    /\ TypeOK
    /\ port \in Procs \cup {NoProc}
    /\ stage \in [Procs -> {"none", "browser", "wait", "exchange", "shutdown"}]
    /\ handlers \in [Procs -> [Results -> 0..MaxCallbacks]]
    /\ resultCh \in [Procs -> Seq(Results)]
    /\ apart \in BOOLEAN
    /\ \A p \in Procs : Len(resultCh[p]) <= 1 /\ Running(p) <= MaxCallbacks

LoginInit ==
    /\ Init
    /\ port = NoProc
    /\ stage = [p \in Procs |-> "none"]
    /\ handlers = [p \in Procs |-> NoHandlers]
    /\ resultCh = [p \in Procs |-> <<>>]
    /\ apart = TRUE

Enter(p, next) == stage' = [stage EXCEPT ![p] = next]

\* The process ends, and its goroutines with it.
Exit(p) ==
    /\ Enter(p, "none")
    /\ handlers' = [handlers EXCEPT ![p] = NoHandlers]
    /\ resultCh' = [resultCh EXCEPT ![p] = <<>>]

\* Login returns: the deferred Shutdown begins by closing the listener.
Leave(p) ==
    /\ Enter(p, "shutdown")
    /\ port' = NoProc

\* A second login fails here, while the port is taken, and changes nothing.
Listen(p) ==
    /\ pc[p] = "idle"
    /\ stage[p] = "none"
    /\ port = NoProc
    /\ port' = p
    /\ Enter(p, "browser")
    /\ UNCHANGED <<vars, handlers, resultCh>>

OpenBrowser(p) ==
    /\ stage[p] = "browser"
    /\ Enter(p, "wait")
    /\ UNCHANGED <<vars, port, handlers, resultCh>>

BrowserFails(p) ==
    /\ stage[p] = "browser"
    /\ Leave(p)
    /\ UNCHANGED <<vars, handlers, resultCh>>

\* A browser calls the redirect URI, as often as its user reloads the page.
Callback(p, result) ==
    /\ port = p
    /\ Running(p) < MaxCallbacks
    /\ handlers' = [handlers EXCEPT ![p][result] = @ + 1]
    /\ UNCHANGED <<vars, port, stage, resultCh>>

\* resultCh <- callbackResult{...}, once there is room.
SendResult(p, result) ==
    /\ handlers[p][result] > 0
    /\ resultCh[p] = <<>>
    /\ resultCh' = [resultCh EXCEPT ![p] = <<result>>]
    /\ handlers' = [handlers EXCEPT ![p][result] = @ - 1]
    /\ UNCHANGED <<vars, port, stage>>

Receive_FaultyClosesEarly(p) ==
    /\ stage[p] = "wait"
    /\ resultCh[p] # <<>>
    /\ resultCh' = [resultCh EXCEPT ![p] = <<>>]
    /\ IF resultCh[p] = <<"code">>
       THEN Enter(p, "exchange") /\ port' = NoProc
       ELSE Leave(p)
    /\ UNCHANGED <<vars, handlers>>

\* case res := <-resultCh
Receive(p) ==
    /\ stage[p] = "wait"
    /\ resultCh[p] # <<>>
    /\ resultCh' = [resultCh EXCEPT ![p] = <<>>]
    /\ IF resultCh[p] = <<"code">>
       THEN Enter(p, "exchange") /\ UNCHANGED port
       ELSE Leave(p)
    /\ UNCHANGED <<vars, handlers>>

\* case <-ctx.Done()
LoginTimesOut(p) ==
    /\ stage[p] = "wait"
    /\ Leave(p)
    /\ UNCHANGED <<vars, handlers, resultCh>>

\* The provider answers the code with a token, which is saved next.
Exchange(p) ==
    /\ stage[p] = "exchange"
    /\ Login(p)
    /\ UNCHANGED loginVars

ExchangeFails(p) ==
    /\ stage[p] = "exchange"
    /\ pc[p] = "idle"
    /\ Leave(p)
    /\ UNCHANGED <<vars, handlers, resultCh>>

\* A step of Refresh or Save.  When the save of a login ends, so does Login.
StoreStep(p) ==
    /\ \/ RefreshAnswers(p) \/ GivesUp(p)
       \/ OpenTmp(p) \/ WriteTmp(p) \/ WriteFails(p)
       \/ Rename(p) \/ RenameFails(p)
    /\ IF stage[p] = "exchange" /\ pc'[p] = "idle" THEN Leave(p) ELSE UNCHANGED <<port, stage>>
    /\ UNCHANGED <<handlers, resultCh>>

ShutdownEnds_FaultyWaits(p) ==
    /\ stage[p] = "shutdown"
    /\ Running(p) = 0
    /\ Exit(p)
    /\ UNCHANGED <<vars, port>>

\* The goroutines are done, or two seconds have passed.
ShutdownEnds(p) ==
    /\ stage[p] = "shutdown"
    /\ Exit(p)
    /\ UNCHANGED <<vars, port>>

\* Ensure and Logout are calls of processes that are not logging in.
StoreCall(p) ==
    /\ stage[p] = "none"
    /\ Ensure(p) \/ Logout(p)
    /\ UNCHANGED loginVars

Die(p) ==
    /\ IF pc[p] # "idle" THEN Crash(p) ELSE stage[p] # "none" /\ UNCHANGED vars
    /\ port' = IF port = p THEN NoProc ELSE port
    /\ Exit(p)

LoginStep(p) ==
    \/ OpenBrowser(p) \/ BrowserFails(p)
    \/ Receive(p) \/ LoginTimesOut(p)
    \/ Exchange(p) \/ ExchangeFails(p)
    \/ StoreStep(p)
    \/ ShutdownEnds(p)

CallbackStep(p) == \E result \in Results : Callback(p, result) \/ SendResult(p, result)

LoginNext ==
    \/ TokenExpires /\ UNCHANGED loginVars
    \/ \E p \in Procs :
         Listen(p) \/ LoginStep(p) \/ CallbackStep(p) \/ StoreCall(p) \/ Die(p)

Saving == {p \in Procs : pc[p] \in {"write", "rename"}}

\* A refresh does not save while another call does; logins are not told apart.
RefreshesApart == \A p, q \in Saving : p = q \/ (byLogin[p] /\ byLogin[q])

Remembered == apart' = (apart /\ RefreshesApart')

\* Every step of a login is bounded by a timeout of its own, so a login that
\* can move does.
LoginSpec ==
    /\ LoginInit
    /\ [][LoginNext /\ Remembered]_allVars
    /\ \A p \in Procs : WF_allVars(LoginStep(p) /\ Remembered)

-----------------------------------------------------------------------------
\* Two logins never save at once: the callback port, held from Listen until
\* the save is over, is the only lock around the token file (oauth.go:127-131
\* and 215), and so the file stays whole whatever the logins do.
LoginsSaveAlone == \A p, q \in Saving : byLogin[p] /\ byLogin[q] => p = q

\* "Save writes the token atomically" (store.go:100), as far as that is true:
\* while no refresh has saved beside another call, the file can be parsed
\* whenever it is there, across crashes, failed saves and what they leave.
AuthIsWholeWhenApart == apart => AuthIsWhole

\* Under the same condition a save that succeeds has published its own token,
\* and one that fails or dies leaves the published token alone, also when an
\* earlier save left its temporary file behind (store.go:113-120).
SavesPublishTheirToken ==
    [][apart /\ auth' # auth /\ auth' # NoFile =>
        \E p \in Procs :
            /\ pc[p] = "rename" /\ pc'[p] = "idle"
            /\ data'[auth'] = Whole(token[p])]_allVars

\* Every login comes to an end, with a token or an error: callbacks that come
\* twice, late or never, and goroutines that block on the full channel, hold
\* up neither the select nor the shutdown (oauth.go:137-162 and 189-200).
LoginReturns == \A p \in Procs : stage[p] # "none" ~> stage[p] = "none"
=============================================================================
