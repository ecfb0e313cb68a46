-------------------------- MODULE LoginFlowProofs --------------------------
(***************************************************************************)
(* The token file for every number of processes and files.                 *)
(*                                                                         *)
(* Nothing locks the file, so the invariant has a part that always holds   *)
(* (the two names never share a file, no token in the file system or in    *)
(* memory lacks its refresh token), a part about the callback port, which  *)
(* serialises the logins, and a part about the saver that is alone as long *)
(* as no refresh has saved beside another call.                            *)
(***************************************************************************)
EXTENDS LoginFlow, FiniteSetTheorems, TLAPS

NamesDiffer == auth # NoFile => tmp # auth

\* Whatever can be read or is about to be written can be refreshed.
TokensKept ==
    /\ \A f \in Files : data[f].state = "whole" => data[f].token.refresh
    /\ \A p \in Procs : pc[p] # "idle" => token[p].refresh

\* A login holds the port until its save is over.
LoginsHoldPort ==
    /\ \A p \in Procs : stage[p] \in {"browser", "wait", "exchange"} => port = p
    /\ \A p \in Procs : byLogin[p] => stage[p] = "exchange" /\ pc[p] # "idle"

\* The saver that is alone writes the file behind the temporary name, which
\* was empty when it was opened, and finds its own token there when it renames.
SaverOwnsTmp ==
    apart =>
        /\ RefreshesApart
        /\ \A p \in Procs : pc[p] = "write" => fd[p] = tmp /\ data[tmp].state = "empty"
        /\ \A p \in Procs : pc[p] = "rename" => tmp # NoFile /\ data[tmp] = Whole(token[p])

IInv ==
    /\ LoginTypeOK
    /\ NamesDiffer
    /\ TokensKept
    /\ LoginsHoldPort
    /\ SaverOwnsTmp
    /\ AuthIsWholeWhenApart

-----------------------------------------------------------------------------
\* A name that does not exist gets a file that no name and no caller refers to.
LEMMA FreshFile ==
    ASSUME TypeOK, NEW p \in Procs, pc[p] = "open", tmp = NoFile
    PROVE  \E f \in Files : f # tmp /\ f # auth /\ \A q \in Procs : f # fd[q]
<1> DEFINE used == [q \in Procs |-> IF q = p THEN auth ELSE fd[q]]
           T == {used[q] : q \in Procs}
<1>1. fd[p] = NoFile /\ NoFile \notin Files
  BY TokenStoreAssumption DEF TypeOK, TokenStoreAssumption
<1>2. used \in Surjection(Procs, T)
  BY DEF Surjection
<1>3. IsFiniteSet(T) /\ Cardinality(T) <= Cardinality(Procs)
  <2> HIDE DEF used, T
  <2> QED
    BY <1>2, FilesAssumption, FS_Surjection DEF FilesAssumption
<1>4. ~(Files \subseteq T)
  <2> HIDE DEF used, T
  <2> SUFFICES ASSUME Files \in SUBSET T PROVE FALSE
    OBVIOUS
  <2>1. IsFiniteSet(Files) /\ Cardinality(Files) <= Cardinality(T)
    BY <1>3, FS_Subset
  <2>2. /\ Cardinality(Files) \in Nat /\ Cardinality(T) \in Nat
        /\ Cardinality(Procs) \in Nat /\ Cardinality(Files) > Cardinality(Procs)
    BY <1>3, <2>1, FilesAssumption, FS_CardinalityType DEF FilesAssumption
  <2> QED
    BY <1>3, <2>1, <2>2
<1>5. PICK f \in Files : f \notin T
  BY <1>4
<1>6. f # auth /\ \A q \in Procs : f # fd[q]
  <2>1. used[p] = auth /\ \A q \in Procs \ {p} : used[q] = fd[q]
    OBVIOUS
  <2>2. \A q \in Procs : f # used[q]
    BY <1>5
  <2> QED
    BY <1>1, <2>1, <2>2
<1> QED
  BY <1>1, <1>6

\* A process that opens the temporary name gets its file, or one nobody has open.
LEMMA OpenedFileIsTmp ==
    ASSUME TypeOK, NamesDiffer, NEW p \in Procs, pc[p] = "open"
    PROVE  /\ OpenedFile(p, tmp) \in Files
           /\ OpenedFile(p, tmp) # auth
           /\ tmp # NoFile => OpenedFile(p, tmp) = tmp
           /\ tmp = NoFile => \A q \in Procs : OpenedFile(p, tmp) # fd[q]
<1>1. CASE tmp # NoFile
  <2>1. tmp \in Files /\ tmp # auth
    BY <1>1 DEF TypeOK, NamesDiffer
  <2> QED
    BY <1>1, <2>1 DEF OpenedFile
<1>2. CASE tmp = NoFile
  <2>1. \E f \in Files : f # tmp /\ f # auth /\ \A q \in Procs : f # fd[q]
    BY <1>2, FreshFile
  <2> QED
    BY <1>2, <2>1 DEF OpenedFile
<1> QED
  BY <1>1, <1>2

\* The token operators keep their types.
LEMMA TokenTypes ==
    /\ NoToken \in Token /\ Empty \in Data /\ Torn \in Data
    /\ \A t \in Token : Whole(t) \in Data /\ Whole(t).state = "whole" /\ Whole(t).token = t
    /\ Empty.state = "empty" /\ Torn.state = "torn"
BY TokenStoreAssumption DEF TokenStoreAssumption, NoToken, Token, Empty, Torn, Data, Whole

\* A token the provider issues.
LEMMA IssuedToken ==
    ASSUME issued \in 0..MaxTokens, issued < MaxTokens, NEW refresh \in BOOLEAN
    PROVE  /\ [serial |-> issued + 1, refresh |-> refresh] \in Token
           /\ issued + 1 \in 0..MaxTokens
BY TokenStoreAssumption DEF TokenStoreAssumption, Token

\* A process that finishes keeps the types.
LEMMA FinishType ==
    ASSUME TypeOK, NEW p \in Procs, Finish(p)
    PROVE  /\ pc' \in [Procs -> {"idle", "refresh", "open", "write", "rename"}]
           /\ token' \in [Procs -> Token]
           /\ byLogin' \in [Procs -> BOOLEAN]
           /\ fd' \in [Procs -> Files \cup {NoFile}]
           /\ \A q \in Procs : fd'[q] # NoFile <=> pc'[q] = "write"
           /\ pc'[p] = "idle" /\ ~byLogin'[p]
           /\ \A q \in Procs \ {p} : /\ pc'[q] = pc[q] /\ token'[q] = token[q]
                                     /\ byLogin'[q] = byLogin[q] /\ fd'[q] = fd[q]
BY TokenTypes DEF TypeOK, Finish

\* The store's own steps keep its types, and a step of the store is a step of
\* one caller or the clock.
LEMMA StoreType ==
    ASSUME TypeOK, NamesDiffer, [Next]_vars
    PROVE  TypeOK'
<1> USE TokenStoreAssumption DEF TokenStoreAssumption
<1>1. CASE UNCHANGED vars
  BY <1>1 DEF vars, TypeOK
<1>2. CASE TokenExpires
  BY <1>2 DEF TokenExpires, fileVars, TypeOK
<1>3. ASSUME NEW p \in Procs, Login(p)
      PROVE  TypeOK'
  <2>1. [serial |-> issued + 1, refresh |-> TRUE] \in Token /\ issued + 1 \in 0..MaxTokens
    BY <1>3, IssuedToken DEF Login, Issue, TypeOK
  <2> QED
    BY <1>3, <2>1 DEF Login, Issue, fileVars, TypeOK
<1>4. ASSUME NEW p \in Procs, Ensure(p)
      PROVE  TypeOK'
  <2>1. auth \in Files /\ data[auth].token \in Token
    BY <1>4 DEF Ensure, TypeOK, Data
  <2> QED
    BY <1>4, <2>1 DEF Ensure, fileVars, TypeOK
<1>5. ASSUME NEW p \in Procs, RefreshAnswers(p)
      PROVE  TypeOK'
  <2>1. PICK refresh \in BOOLEAN :
            Issue(p, Refreshed(token[p], [serial |-> issued + 1, refresh |-> refresh]))
    BY <1>5 DEF RefreshAnswers
  <2>2. [serial |-> issued + 1, refresh |-> refresh] \in Token /\ issued + 1 \in 0..MaxTokens
    BY <2>1, IssuedToken DEF Issue, TypeOK
  <2>3. Refreshed(token[p], [serial |-> issued + 1, refresh |-> refresh]) \in Token
    BY <2>2 DEF Refreshed, Token, TypeOK
  <2> QED
    BY <1>5, <2>1, <2>2, <2>3 DEF RefreshAnswers, Issue, fileVars, TypeOK
<1>6. ASSUME NEW p \in Procs, OpenTmp(p)
      PROVE  TypeOK'
  <2>1. OpenedFile(p, tmp) \in Files
    BY <1>6, OpenedFileIsTmp DEF OpenTmp
  <2> QED
    BY <1>6, <2>1, TokenTypes DEF OpenTmp, TypeOK
<1>7. ASSUME NEW p \in Procs, WriteTmp(p)
      PROVE  TypeOK'
  <2>1. fd[p] \in Files
    BY <1>7 DEF WriteTmp, TypeOK
  <2>2. Overwritten(data[fd[p]], token[p]) \subseteq Data
    BY TokenTypes DEF Overwritten, TypeOK
  <2> QED
    BY <1>7, <2>1, <2>2 DEF WriteTmp, TypeOK
<1>8. ASSUME NEW p \in Procs, WriteFails(p)
      PROVE  TypeOK'
  BY <1>8, FinishType, TokenTypes DEF WriteFails, TypeOK
<1>9. ASSUME NEW p \in Procs, Rename(p) \/ RenameFails(p) \/ GivesUp(p) \/ Crash(p)
      PROVE  TypeOK'
  BY <1>9, FinishType DEF Rename, RenameFails, GivesUp, Crash, fileVars, TypeOK
<1>10. ASSUME NEW p \in Procs, Logout(p)
       PROVE  TypeOK'
  BY <1>10 DEF Logout, TypeOK
<1> QED
  BY <1>1, <1>2, <1>3, <1>4, <1>5, <1>6, <1>7, <1>8, <1>9, <1>10 DEF Next, Step

\* No step makes the two names refer to one file.
LEMMA StoreNames ==
    ASSUME TypeOK, NamesDiffer, [Next]_vars
    PROVE  NamesDiffer'
<1> USE TokenStoreAssumption DEF TokenStoreAssumption, NamesDiffer
<1>1. CASE UNCHANGED vars \/ TokenExpires
  BY <1>1 DEF vars, TokenExpires, fileVars
<1>2. ASSUME NEW p \in Procs, OpenTmp(p)
      PROVE  NamesDiffer'
  BY <1>2, OpenedFileIsTmp DEF OpenTmp
<1>3. ASSUME NEW p \in Procs,
             \/ Login(p) \/ Ensure(p) \/ RefreshAnswers(p) \/ GivesUp(p) \/ WriteTmp(p)
             \/ WriteFails(p) \/ Rename(p) \/ RenameFails(p) \/ Logout(p) \/ Crash(p)
      PROVE  NamesDiffer'
  BY <1>3 DEF TypeOK, Login, Ensure, RefreshAnswers, GivesUp, WriteTmp, WriteFails, Rename,
              RenameFails, Logout, Crash, fileVars
<1> QED
  BY <1>1, <1>2, <1>3 DEF Next, Step

\* No step makes a token without a refresh token readable, or plans to.
LEMMA StoreKeepsTokens ==
    ASSUME TypeOK, NamesDiffer, TokensKept, [Next]_vars
    PROVE  TokensKept'
<1> USE DEF TokensKept
<1>1. CASE UNCHANGED vars \/ TokenExpires
  BY <1>1 DEF vars, TokenExpires, fileVars
<1>2. ASSUME NEW p \in Procs, Login(p)
      PROVE  TokensKept'
  BY <1>2 DEF Login, Issue, fileVars, TypeOK
<1>3. ASSUME NEW p \in Procs, Ensure(p)
      PROVE  TokensKept'
  BY <1>3 DEF Ensure, fileVars, TypeOK
<1>4. ASSUME NEW p \in Procs, RefreshAnswers(p)
      PROVE  TokensKept'
  <2>1. PICK refresh \in BOOLEAN :
            Issue(p, Refreshed(token[p], [serial |-> issued + 1, refresh |-> refresh]))
    BY <1>4 DEF RefreshAnswers
  <2>2. token[p].refresh
    BY <1>4 DEF RefreshAnswers
  <2>3. Refreshed(token[p], [serial |-> issued + 1, refresh |-> refresh]).refresh
    BY <2>2 DEF Refreshed
  <2> QED
    BY <1>4, <2>1, <2>3 DEF RefreshAnswers, Issue, fileVars, TypeOK
<1>5. ASSUME NEW p \in Procs, OpenTmp(p)
      PROVE  TokensKept'
  BY <1>5, TokenTypes DEF OpenTmp, TypeOK
<1>6. ASSUME NEW p \in Procs, WriteTmp(p)
      PROVE  TokensKept'
  <2>1. token[p].refresh /\ token[p] \in Token
    BY <1>6 DEF WriteTmp, TypeOK
  <2>2. \A d \in Overwritten(data[fd[p]], token[p]) : d.state = "whole" => d.token.refresh
    BY <2>1, TokenTypes DEF Overwritten
  <2> QED
    BY <1>6, <2>2 DEF WriteTmp, TypeOK
<1>7. ASSUME NEW p \in Procs, WriteFails(p)
      PROVE  TokensKept'
  BY <1>7, FinishType, TokenTypes DEF WriteFails, TypeOK
<1>8. ASSUME NEW p \in Procs, Rename(p) \/ RenameFails(p) \/ GivesUp(p) \/ Crash(p)
      PROVE  TokensKept'
  BY <1>8, FinishType DEF Rename, RenameFails, GivesUp, Crash, fileVars
<1>9. ASSUME NEW p \in Procs, Logout(p)
      PROVE  TokensKept'
  BY <1>9 DEF Logout
<1> QED
  BY <1>1, <1>2, <1>3, <1>4, <1>5, <1>6, <1>7, <1>8, <1>9 DEF Next, Step

\* A step of a login is a step of the store, or leaves it alone.
LEMMA LoginStepOfStore == LoginNext => [Next]_vars
BY DEF LoginNext, Listen, LoginStep, OpenBrowser, BrowserFails, Receive, LoginTimesOut, Exchange,
       ExchangeFails, StoreStep, ShutdownEnds, CallbackStep, Callback, SendResult, StoreCall,
       Die, Next, Step

-----------------------------------------------------------------------------
\* The port and the channel.
LEMMA LoginTypes ==
    ASSUME LoginTypeOK, NamesDiffer, LoginNext /\ Remembered
    PROVE  LoginTypeOK'
<1> USE LoginAssumption DEF LoginAssumption
<1>1. TypeOK'
  BY LoginStepOfStore, StoreType DEF LoginTypeOK
<1>2. apart' \in BOOLEAN
  BY DEF Remembered, LoginTypeOK
<1>3. /\ NoHandlers \in [Results -> 0..MaxCallbacks]
      /\ NoHandlers["code"] + NoHandlers["refused"] <= MaxCallbacks
      /\ \A result \in Results : <<result>> \in Seq(Results) /\ Len(<<result>>) <= 1
      /\ <<>> \in Seq(Results) /\ Len(<<>>) <= 1
      /\ "code" \in Results /\ "refused" \in Results
  BY DEF NoHandlers, Results
<1> DEFINE PortsOK ==
             /\ port \in Procs \cup {NoProc}
             /\ stage \in [Procs -> {"none", "browser", "wait", "exchange", "shutdown"}]
           CallbacksOK ==
             /\ handlers \in [Procs -> [Results -> 0..MaxCallbacks]]
             /\ resultCh \in [Procs -> Seq(Results)]
             /\ \A p \in Procs : Len(resultCh[p]) <= 1 /\ Running(p) <= MaxCallbacks
<1>4. PortsOK'
  <2>1. PortsOK
    BY DEF LoginTypeOK
  <2> QED
    BY <2>1 DEF LoginNext, Listen, LoginStep, OpenBrowser, BrowserFails, Receive, LoginTimesOut,
      Exchange, ExchangeFails, StoreStep, ShutdownEnds, CallbackStep, Callback, SendResult,
      StoreCall, Die, loginVars, Enter, Leave, Exit
<1>5. CallbacksOK'
  <2>1. CallbacksOK
    BY DEF LoginTypeOK
  <2>2. CASE UNCHANGED <<handlers, resultCh>>
    BY <2>1, <2>2 DEF Running
  <2>3. ASSUME NEW p \in Procs, NEW result \in Results, Callback(p, result)
        PROVE  CallbacksOK'
    <3> DEFINE row == [handlers[p] EXCEPT ![result] = handlers[p][result] + 1]
    <3>1. /\ Running(p) < MaxCallbacks /\ UNCHANGED resultCh
          /\ handlers' = [handlers EXCEPT ![p] = row]
      BY <2>3 DEF Callback
    <3>2. /\ handlers[p] \in [Results -> 0..MaxCallbacks]
          /\ handlers[p]["code"] \in 0..MaxCallbacks /\ handlers[p]["refused"] \in 0..MaxCallbacks
          /\ handlers[p][result] < MaxCallbacks /\ result \in {"code", "refused"}
      BY <1>3, <2>1, <3>1 DEF Running, Results
    <3>3. row \in [Results -> 0..MaxCallbacks]
      BY <3>2
    <3>4. row["code"] + row["refused"] <= MaxCallbacks
      BY <1>3, <2>1, <3>1, <3>2 DEF Running
    <3> HIDE DEF row
    <3>5. handlers' \in [Procs -> [Results -> 0..MaxCallbacks]]
      BY <2>1, <3>1, <3>3
    <3>6. \A q \in Procs : Running(q)' <= MaxCallbacks
      BY <2>1, <3>1, <3>4 DEF Running
    <3> QED
      BY <2>1, <3>1, <3>5, <3>6
  <2>4. ASSUME NEW p \in Procs, NEW result \in Results, SendResult(p, result)
        PROVE  CallbacksOK'
    <3> DEFINE row == [handlers[p] EXCEPT ![result] = handlers[p][result] - 1]
    <3>1. /\ handlers[p][result] > 0
          /\ resultCh' = [resultCh EXCEPT ![p] = <<result>>]
          /\ handlers' = [handlers EXCEPT ![p] = row]
      BY <2>4 DEF SendResult
    <3>2. /\ handlers[p] \in [Results -> 0..MaxCallbacks]
          /\ handlers[p]["code"] \in 0..MaxCallbacks /\ handlers[p]["refused"] \in 0..MaxCallbacks
          /\ result \in {"code", "refused"}
      BY <1>3, <2>1, <3>1 DEF Results
    <3>3. row \in [Results -> 0..MaxCallbacks]
      BY <3>1, <3>2
    <3>4. row["code"] + row["refused"] <= MaxCallbacks
      BY <1>3, <2>1, <3>1, <3>2 DEF Running
    <3> HIDE DEF row
    <3>5. handlers' \in [Procs -> [Results -> 0..MaxCallbacks]]
      BY <2>1, <3>1, <3>3
    <3>6. \A q \in Procs : Running(q)' <= MaxCallbacks
      BY <2>1, <3>1, <3>4 DEF Running
    <3>7. resultCh' \in [Procs -> Seq(Results)] /\ \A q \in Procs : Len(resultCh'[q]) <= 1
      BY <1>3, <2>1, <3>1
    <3> QED
      BY <3>5, <3>6, <3>7
  <2>5. ASSUME NEW p \in Procs, Exit(p)
        PROVE  CallbacksOK'
    BY <1>3, <2>1, <2>5 DEF Exit, Running
  <2>6. ASSUME NEW p \in Procs, Receive(p)
        PROVE  CallbacksOK'
    BY <1>3, <2>1, <2>6 DEF Receive, Running
  <2> QED
    BY <2>2, <2>3, <2>4, <2>5, <2>6
       DEF LoginNext, Listen, LoginStep, OpenBrowser, BrowserFails, LoginTimesOut, Exchange,
           ExchangeFails, StoreStep, ShutdownEnds, CallbackStep, StoreCall, Die, loginVars
<1> QED
  BY <1>1, <1>2, <1>4, <1>5 DEF LoginTypeOK

\* The port is held from Listen until the save of the login is over.
LEMMA PortHeld ==
    ASSUME LoginTypeOK, LoginsHoldPort, LoginNext
    PROVE  LoginsHoldPort'
<1> USE LoginAssumption DEF LoginAssumption, LoginsHoldPort
<1>1. /\ stage \in [Procs -> {"none", "browser", "wait", "exchange", "shutdown"}]
      /\ byLogin \in [Procs -> BOOLEAN]
      /\ pc \in [Procs -> {"idle", "refresh", "open", "write", "rename"}]
      /\ TypeOK
  BY DEF LoginTypeOK, TypeOK
<1>2. CASE TokenExpires /\ UNCHANGED loginVars
  BY <1>2 DEF TokenExpires, loginVars
<1>3. ASSUME NEW p \in Procs, Listen(p)
      PROVE  LoginsHoldPort'
  BY <1>1, <1>3 DEF Listen, Enter, vars
<1>4. ASSUME NEW p \in Procs, OpenBrowser(p)
      PROVE  LoginsHoldPort'
  BY <1>1, <1>4 DEF OpenBrowser, Enter, vars
<1>5. ASSUME NEW p \in Procs, BrowserFails(p) \/ LoginTimesOut(p) \/ ExchangeFails(p)
      PROVE  LoginsHoldPort'
  BY <1>1, <1>5 DEF BrowserFails, LoginTimesOut, ExchangeFails, Leave, Enter, vars
<1>6. ASSUME NEW p \in Procs, Receive(p)
      PROVE  LoginsHoldPort'
  BY <1>1, <1>6 DEF Receive, Leave, Enter, vars
<1>7. ASSUME NEW p \in Procs, Exchange(p)
      PROVE  LoginsHoldPort'
  BY <1>1, <1>7 DEF Exchange, Login, Issue, loginVars
<1>8. ASSUME NEW p \in Procs, StoreStep(p)
      PROVE  LoginsHoldPort'
  <2>1. CASE Finish(p)
    <3>1. stage[p] = "exchange" => Leave(p)
      BY <1>8, <2>1, <1>1, FinishType DEF StoreStep
    <3> QED
      BY <1>1, <1>8, <2>1, <3>1, FinishType DEF StoreStep, Leave, Enter
  <2>2. CASE ~Finish(p)
    <3>1. /\ UNCHANGED byLogin /\ pc'[p] # "idle"
          /\ \A q \in Procs \ {p} : pc'[q] = pc[q]
      BY <1>1, <1>8, <2>2 DEF StoreStep, RefreshAnswers, Issue, GivesUp, OpenTmp, WriteTmp,
         WriteFails, Rename, RenameFails
    <3> QED
      BY <1>1, <1>8, <3>1 DEF StoreStep
  <2> QED
    BY <2>1, <2>2
<1>9. ASSUME NEW p \in Procs, ShutdownEnds(p)
      PROVE  LoginsHoldPort'
  BY <1>1, <1>9 DEF ShutdownEnds, Exit, Enter, vars
<1>10. ASSUME NEW p \in Procs, CallbackStep(p)
       PROVE  LoginsHoldPort'
  BY <1>10 DEF CallbackStep, Callback, SendResult, vars
<1>11. ASSUME NEW p \in Procs, StoreCall(p)
       PROVE  LoginsHoldPort'
  BY <1>1, <1>11 DEF StoreCall, Ensure, Logout, loginVars
<1>12. ASSUME NEW p \in Procs, Die(p)
       PROVE  LoginsHoldPort'
  <2>1. CASE pc[p] # "idle"
    BY <1>1, <1>12, <2>1, FinishType DEF Die, Crash, Exit, Enter
  <2>2. CASE pc[p] = "idle"
    BY <1>1, <1>12, <2>2 DEF Die, Exit, Enter, vars
  <2> QED
    BY <2>1, <2>2
<1> QED
  BY <1>2, <1>3, <1>4, <1>5, <1>6, <1>7, <1>8, <1>9, <1>10, <1>11, <1>12
     DEF LoginNext, LoginStep

\* Two logins would both hold the port.
LEMMA PortSerialises == LoginsHoldPort => LoginsSaveAlone
BY DEF LoginsHoldPort, LoginsSaveAlone, Saving

\* As long as no refresh has saved beside another call, there is one saver.
LEMMA OneSaver ==
    ASSUME LoginsHoldPort, SaverOwnsTmp, apart, NEW p \in Saving, NEW q \in Saving
    PROVE  p = q
BY PortSerialises DEF SaverOwnsTmp, RefreshesApart, LoginsSaveAlone

\* The only saver works on its own file, and the published file stays whole.
LEMMA SaverAlone ==
    ASSUME IInv, [Next]_vars, Remembered, LoginsHoldPort'
    PROVE  SaverOwnsTmp' /\ AuthIsWholeWhenApart'
<1> SUFFICES ASSUME apart'
             PROVE  /\ RefreshesApart'
                    /\ \A q \in Procs : pc'[q] = "write" =>
                         fd'[q] = tmp' /\ data'[tmp'].state = "empty"
                    /\ \A q \in Procs : pc'[q] = "rename" =>
                         tmp' # NoFile /\ data'[tmp'] = Whole(token'[q])
                    /\ auth' # NoFile => data'[auth'].state = "whole"
  BY DEF SaverOwnsTmp, AuthIsWholeWhenApart, AuthIsWhole
<1> DEFINE SaverOK ==
             \A q \in Procs :
                /\ pc[q] = "write" => fd[q] = tmp /\ data[tmp].state = "empty"
                /\ pc[q] = "rename" => tmp # NoFile /\ data[tmp] = Whole(token[q])
           Published == auth # NoFile => data[auth].state = "whole"
           Alone == \A p, q \in Procs :
                      pc[p] \in {"write", "rename"} /\ pc[q] \in {"write", "rename"} => p = q
<1>1. apart /\ RefreshesApart'
  BY DEF Remembered, IInv, LoginTypeOK
<1>2. Alone'
  <2>1. LoginsSaveAlone'
    BY PortSerialises DEF LoginsHoldPort, LoginsSaveAlone, Saving
  <2> QED
    BY <1>1, <2>1 DEF RefreshesApart, LoginsSaveAlone, Saving
<1>3. Alone
  BY <1>1, OneSaver DEF IInv, Saving
<1>4. SaverOK /\ Published /\ TypeOK /\ NamesDiffer
  BY <1>1 DEF IInv, LoginTypeOK, SaverOwnsTmp, AuthIsWholeWhenApart, AuthIsWhole
<1>5. SaverOK' /\ Published'
  <2> USE TokenStoreAssumption DEF TokenStoreAssumption
  <2>1. CASE UNCHANGED vars \/ TokenExpires
    BY <1>4, <2>1 DEF vars, TokenExpires, fileVars
  <2>2. ASSUME NEW p \in Procs, Login(p)
        PROVE  SaverOK' /\ Published'
    BY <1>4, <2>2 DEF Login, Issue, fileVars, TypeOK
  <2>3. ASSUME NEW p \in Procs, Ensure(p)
        PROVE  SaverOK' /\ Published'
    BY <1>4, <2>3 DEF Ensure, fileVars, TypeOK
  <2>4. ASSUME NEW p \in Procs, RefreshAnswers(p)
        PROVE  SaverOK' /\ Published'
    BY <1>4, <2>4 DEF RefreshAnswers, Issue, fileVars, TypeOK
  <2>5. ASSUME NEW p \in Procs, OpenTmp(p)
        PROVE  SaverOK' /\ Published'
    <3>1. /\ tmp' \in Files /\ tmp' # auth /\ UNCHANGED auth
          /\ data' = [data EXCEPT ![tmp'] = Empty]
          /\ fd'[p] = tmp' /\ pc'[p] = "write"
      BY <1>4, <2>5, OpenedFileIsTmp DEF OpenTmp, TypeOK
    <3>2. data'[tmp'].state = "empty"
      BY <1>4, <3>1, TokenTypes DEF TypeOK
    <3>3. SaverOK'
      BY <1>2, <3>1, <3>2
    <3>4. Published'
      BY <1>4, <3>1 DEF TypeOK
    <3> QED
      BY <3>3, <3>4
  <2>6. ASSUME NEW p \in Procs, WriteTmp(p)
        PROVE  SaverOK' /\ Published'
    <3>1. /\ fd[p] = tmp /\ tmp \in Files /\ data[tmp].state = "empty"
          /\ pc'[p] = "rename" /\ UNCHANGED <<tmp, auth, token>>
      BY <1>4, <2>6 DEF WriteTmp, TypeOK
    <3>2. data' = [data EXCEPT ![tmp] = Whole(token[p])]
      BY <2>6, <3>1 DEF WriteTmp, Overwritten
    <3>3. tmp' # NoFile /\ data'[tmp'] = Whole(token'[p])
      BY <1>4, <3>1, <3>2 DEF TypeOK
    <3>4. SaverOK'
      BY <1>2, <3>1, <3>3
    <3>5. Published'
      BY <1>4, <3>1, <3>2 DEF TypeOK, NamesDiffer
    <3> QED
      BY <3>4, <3>5
  <2>7. ASSUME NEW p \in Procs, WriteFails(p)
        PROVE  SaverOK' /\ Published'
    <3>1. /\ fd[p] = tmp /\ tmp \in Files /\ pc[p] = "write"
          /\ data' = [data EXCEPT ![tmp] = Torn] /\ UNCHANGED <<tmp, auth>>
      BY <1>4, <2>7 DEF WriteFails, TypeOK
    <3>2. \A q \in Procs : pc'[q] \notin {"write", "rename"}
      BY <1>3, <1>4, <2>7, <3>1, FinishType DEF WriteFails
    <3> QED
      BY <1>4, <3>1, <3>2 DEF TypeOK, NamesDiffer
  <2>8. ASSUME NEW p \in Procs, Rename(p)
        PROVE  SaverOK' /\ Published'
    <3>1. data[tmp] = Whole(token[p]) /\ auth' = tmp /\ UNCHANGED data /\ pc[p] = "rename"
      BY <1>4, <2>8 DEF Rename
    <3>2. \A q \in Procs : pc'[q] \notin {"write", "rename"}
      BY <1>3, <1>4, <2>8, <3>1, FinishType DEF Rename
    <3>3. data[tmp].state = "whole"
      BY <3>1 DEF Whole
    <3> QED
      BY <3>1, <3>2, <3>3
  <2>9. ASSUME NEW p \in Procs, RenameFails(p)
        PROVE  SaverOK' /\ Published'
    <3>1. \A q \in Procs : pc'[q] \notin {"write", "rename"}
      BY <1>3, <1>4, <2>9, FinishType DEF RenameFails
    <3> QED
      BY <1>4, <2>9, <3>1 DEF RenameFails
  <2>10. ASSUME NEW p \in Procs, GivesUp(p) \/ Crash(p)
         PROVE  SaverOK' /\ Published'
    BY <1>4, <2>10, FinishType DEF GivesUp, Crash, fileVars
  <2>11. ASSUME NEW p \in Procs, Logout(p)
         PROVE  SaverOK' /\ Published'
    BY <1>4, <2>11 DEF Logout
  <2> HIDE DEF SaverOK, Published
  <2> QED
    BY <2>1, <2>2, <2>3, <2>4, <2>5, <2>6, <2>7, <2>8, <2>9, <2>10, <2>11 DEF Next, Step
<1> QED
  BY <1>1, <1>5

-----------------------------------------------------------------------------
\* The invariant holds at the start.
LEMMA InitEstablishes == LoginInit => IInv
<1> SUFFICES ASSUME LoginInit PROVE IInv
  OBVIOUS
<1> USE TokenStoreAssumption, LoginAssumption
    DEF TokenStoreAssumption, LoginAssumption
<1>1. TypeOK
  BY TokenTypes DEF LoginInit, Init, TypeOK
<1>2. LoginTypeOK
  BY <1>1 DEF LoginInit, LoginTypeOK, NoHandlers, Results, Running
<1>3. NamesDiffer /\ TokensKept
  BY TokenTypes DEF LoginInit, Init, NamesDiffer, TokensKept
<1>4. LoginsHoldPort /\ SaverOwnsTmp /\ AuthIsWholeWhenApart
  BY DEF LoginInit, Init, LoginsHoldPort, SaverOwnsTmp, RefreshesApart, Saving,
         AuthIsWholeWhenApart, AuthIsWhole
<1> QED
  BY <1>2, <1>3, <1>4 DEF IInv

\* Every step keeps the invariant.
LEMMA StepKeeps == IInv /\ [LoginNext /\ Remembered]_allVars => IInv'
<1>1. ASSUME IInv, LoginNext, Remembered
      PROVE  IInv'
  <2>1. [Next]_vars
    BY <1>1, LoginStepOfStore
  <2>2. LoginTypeOK'
    BY <1>1, LoginTypes DEF IInv
  <2>3. NamesDiffer' /\ TokensKept'
    BY <1>1, <2>1, StoreNames, StoreKeepsTokens DEF IInv, LoginTypeOK
  <2>4. LoginsHoldPort'
    BY <1>1, PortHeld DEF IInv
  <2>5. SaverOwnsTmp' /\ AuthIsWholeWhenApart'
    BY <1>1, <2>1, <2>4, SaverAlone
  <2> QED
    BY <2>2, <2>3, <2>4, <2>5 DEF IInv
<1>2. ASSUME IInv, UNCHANGED allVars
      PROVE  IInv'
  BY <1>2
  DEF allVars, vars, loginVars, IInv, LoginTypeOK, TypeOK, Running, NamesDiffer, TokensKept,
     LoginsHoldPort, SaverOwnsTmp, RefreshesApart, Saving, AuthIsWholeWhenApart, AuthIsWhole
<1> QED
  BY <1>1, <1>2

\* The invariant of the token file and the logins.
LEMMA Inductive == LoginSpec => []IInv
BY InitEstablishes, StepKeeps, PTL DEF LoginSpec

\* Two logins never save at once.
THEOREM LoginsAlone == LoginSpec => []LoginsSaveAlone
<1>1. IInv => LoginsSaveAlone
  BY PortSerialises DEF IInv
<1> QED
  BY <1>1, Inductive, PTL

\* No stored token is without its refresh token.
THEOREM RefreshTokenKept == LoginSpec => []RefreshTokenNeverLost
<1>1. IInv => RefreshTokenNeverLost
  BY DEF IInv, LoginTypeOK, TypeOK, TokensKept, RefreshTokenNeverLost
<1> QED
  BY <1>1, Inductive, PTL

\* The published file is whole as long as no refresh saves beside another call.
THEOREM AuthStaysWhole == LoginSpec => []AuthIsWholeWhenApart
<1>1. IInv => AuthIsWholeWhenApart
  BY DEF IInv
<1> QED
  BY <1>1, Inductive, PTL

\* Under the same condition what appears under the name of the token file is
\* the token of the save that has just succeeded.
THEOREM PublishedTokens == LoginSpec => SavesPublishTheirToken
<1> DEFINE Publishes ==
             apart /\ auth' # auth /\ auth' # NoFile =>
               \E p \in Procs :
                 /\ pc[p] = "rename" /\ pc'[p] = "idle"
                 /\ data'[auth'] = Whole(token[p])
<1>1. IInv /\ [LoginNext /\ Remembered]_allVars => [Publishes]_allVars
  <2> SUFFICES ASSUME IInv, LoginNext, apart, auth' # auth, auth' # NoFile
               PROVE  \E p \in Procs :
                        /\ pc[p] = "rename" /\ pc'[p] = "idle"
                        /\ data'[auth'] = Whole(token[p])
    OBVIOUS
  <2>1. [Next]_vars
    BY LoginStepOfStore
  <2>2. PICK p \in Procs : Rename(p)
    BY <2>1 DEF vars, Next, Step, TokenExpires, Login, Ensure, RefreshAnswers, GivesUp, OpenTmp,
       WriteTmp, WriteFails, RenameFails, Logout, Crash, fileVars
  <2>3. data[tmp] = Whole(token[p]) /\ pc[p] = "rename" /\ auth' = tmp /\ UNCHANGED data
    BY <2>2 DEF Rename, IInv, SaverOwnsTmp
  <2>4. pc'[p] = "idle"
    BY <2>2, FinishType DEF Rename, IInv, LoginTypeOK
  <2> QED
    BY <2>3, <2>4
<1> QED
  BY <1>1, Inductive, PTL DEF LoginSpec, SavesPublishTheirToken
=============================================================================
