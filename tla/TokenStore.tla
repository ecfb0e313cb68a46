----------------------------- MODULE TokenStore -----------------------------
(***************************************************************************)
(* The OAuth token file (internal/oauth/store.go) and the calls that use   *)
(* it: Ensure with its refresh, the save at the end of a login, and Logout *)
(* (internal/oauth/oauth.go).  A Proc is a goroutine of the server or a    *)
(* command such as `app login`; nothing locks the file between them.       *)
(*                                                                         *)
(* The file system is modelled down to the file behind a name, because all *)
(* saves share one temporary name: a save that has it open goes on writing *)
(* to its file after another save has truncated or renamed it.             *)
(***************************************************************************)
EXTENDS Integers, FiniteSets

CONSTANTS
    Procs,          \* concurrent callers
    Files,          \* the files (inodes) the two names can refer to
    NoFile,         \* a name that does not exist
    MaxTokens       \* bound on the tokens the provider issues

ASSUME TokenStoreAssumption ==
    /\ NoFile \notin Files
    /\ MaxTokens \in Nat

\* A name that does not exist can always be given a file of its own.
ASSUME FilesAssumption ==
    /\ IsFiniteSet(Procs)
    /\ IsFiniteSet(Files) => Cardinality(Files) > Cardinality(Procs)

VARIABLES
    data,           \* what each file holds
    tmp,            \* the file behind auth.json.tmp
    auth,           \* the file behind auth.json
    pc,             \* what each caller does next
    token,          \* the token in each caller's memory
    byLogin,        \* the call is a login
    fd,             \* the file each caller has open for writing
    issued,         \* the number of tokens the provider has issued
    expired         \* the serials of the tokens that have expired

vars == <<data, tmp, auth, pc, token, byLogin, fd, issued, expired>>

fileVars == <<data, tmp, auth>>

Token == [serial : 0..MaxTokens, refresh : BOOLEAN]

NoToken == [serial |-> 0, refresh |-> FALSE]

Data == [state : {"empty", "whole", "torn"}, token : Token]

Empty == [state |-> "empty", token |-> NoToken]

Torn == [state |-> "torn", token |-> NoToken]

Whole(t) == [state |-> "whole", token |-> t]

TypeOK ==
    /\ data \in [Files -> Data]
    /\ tmp \in Files \cup {NoFile}
    /\ auth \in Files \cup {NoFile}
    /\ pc \in [Procs -> {"idle", "refresh", "open", "write", "rename"}]
    /\ token \in [Procs -> Token]
    /\ byLogin \in [Procs -> BOOLEAN]
    /\ fd \in [Procs -> Files \cup {NoFile}]
    /\ \A p \in Procs : fd[p] # NoFile <=> pc[p] = "write"
    /\ issued \in 0..MaxTokens
    /\ expired \subseteq 1..MaxTokens

Init ==
    /\ data = [f \in Files |-> Empty]
    /\ tmp = NoFile
    /\ auth = NoFile
    /\ pc = [p \in Procs |-> "idle"]
    /\ token = [p \in Procs |-> NoToken]
    /\ byLogin = [p \in Procs |-> FALSE]
    /\ fd = [p \in Procs |-> NoFile]
    /\ issued = 0
    /\ expired = {}

Finish(p) ==
    /\ pc' = [pc EXCEPT ![p] = "idle"]
    /\ token' = [token EXCEPT ![p] = NoToken]
    /\ byLogin' = [byLogin EXCEPT ![p] = FALSE]
    /\ fd' = [fd EXCEPT ![p] = NoFile]

-----------------------------------------------------------------------------
\* The provider's token endpoint.

Issue(p, t) ==
    /\ issued < MaxTokens
    /\ issued' = issued + 1
    /\ token' = [token EXCEPT ![p] = t]
    /\ pc' = [pc EXCEPT ![p] = "open"]

\* Login: the code is exchanged for a token that carries a refresh token.
Login(p) ==
    /\ pc[p] = "idle"
    /\ Issue(p, [serial |-> issued + 1, refresh |-> TRUE])
    /\ byLogin' = [byLogin EXCEPT ![p] = TRUE]
    /\ UNCHANGED <<fileVars, fd, expired>>

Refreshed_FaultyAsAnswered(old, answered) == answered

\* "Some IdPs omit refresh_token on refresh - preserve previous."
Refreshed(old, answered) ==
    [answered EXCEPT !.refresh = answered.refresh \/ old.refresh]

RefreshAnswers(p) ==
    /\ pc[p] = "refresh"
    /\ \E refresh \in BOOLEAN :
         Issue(p, Refreshed(token[p], [serial |-> issued + 1, refresh |-> refresh]))
    /\ UNCHANGED <<fileVars, byLogin, fd, expired>>

\* The provider refuses, or the temporary file cannot be opened.
GivesUp(p) ==
    /\ pc[p] \in {"refresh", "open"}
    /\ Finish(p)
    /\ UNCHANGED <<fileVars, issued, expired>>

-----------------------------------------------------------------------------
\* Ensure loads the token; an expired one that can be refreshed is kept for
\* Refresh, and in all other cases the call returns.
Ensure(p) ==
    /\ pc[p] = "idle"
    /\ auth # NoFile
    /\ data[auth].state = "whole"
    /\ data[auth].token.serial \in expired
    /\ data[auth].token.refresh
    /\ token' = [token EXCEPT ![p] = data[auth].token]
    /\ pc' = [pc EXCEPT ![p] = "refresh"]
    /\ UNCHANGED <<fileVars, byLogin, fd, issued, expired>>

\* Save opens the temporary name for writing: O_CREATE and O_TRUNC.
OpenedFile(p, name) ==
    IF name # NoFile THEN name
    ELSE CHOOSE f \in Files : f # tmp /\ f # auth /\ \A q \in Procs : f # fd[q]

OpenTmp_FaultyInPlace(p) ==
    LET f == OpenedFile(p, auth)
    IN  /\ pc[p] = "open"
        /\ auth' = f
        /\ tmp' = f
        /\ data' = [data EXCEPT ![f] = Empty]
        /\ fd' = [fd EXCEPT ![p] = f]
        /\ pc' = [pc EXCEPT ![p] = "write"]
        /\ UNCHANGED <<token, byLogin, issued, expired>>

OpenTmp_FaultyNoTruncate(p) ==
    LET f == OpenedFile(p, tmp)
    IN  /\ pc[p] = "open"
        /\ tmp' = f
        /\ fd' = [fd EXCEPT ![p] = f]
        /\ pc' = [pc EXCEPT ![p] = "write"]
        /\ UNCHANGED <<data, auth, token, byLogin, issued, expired>>

OpenTmp(p) ==
    LET f == OpenedFile(p, tmp)
    IN  /\ pc[p] = "open"
        /\ tmp' = f
        /\ data' = [data EXCEPT ![f] = Empty]
        /\ fd' = [fd EXCEPT ![p] = f]
        /\ pc' = [pc EXCEPT ![p] = "write"]
        /\ UNCHANGED <<auth, token, byLogin, issued, expired>>

\* The text goes to the start of the file that was opened.  Over an older text
\* of another length it leaves a mixture.
Overwritten(old, t) ==
    {Whole(t)} \cup (IF old.state = "empty" THEN {} ELSE {Torn})

WriteTmp(p) ==
    /\ pc[p] = "write"
    /\ \E d \in Overwritten(data[fd[p]], token[p]) : data' = [data EXCEPT ![fd[p]] = d]
    /\ fd' = [fd EXCEPT ![p] = NoFile]
    /\ pc' = [pc EXCEPT ![p] = "rename"]
    /\ UNCHANGED <<tmp, auth, token, byLogin, issued, expired>>

\* A full disk: the temporary file stays as it is and Save returns.
WriteFails(p) ==
    /\ pc[p] = "write"
    /\ data' = [data EXCEPT ![fd[p]] = Torn]
    /\ Finish(p)
    /\ UNCHANGED <<tmp, auth, issued, expired>>

\* Rename moves whatever file the temporary name refers to now.
Rename(p) ==
    /\ pc[p] = "rename"
    /\ tmp # NoFile
    /\ auth' = tmp
    /\ tmp' = NoFile
    /\ Finish(p)
    /\ UNCHANGED <<data, issued, expired>>

\* The rename fails, because the name is gone or for another reason, and the
\* temporary name is removed.
RenameFails(p) ==
    /\ pc[p] = "rename"
    /\ tmp' = NoFile
    /\ Finish(p)
    /\ UNCHANGED <<data, auth, issued, expired>>

\* Logout deletes the file.
Logout(p) ==
    /\ pc[p] = "idle"
    /\ auth' = NoFile
    /\ UNCHANGED <<data, tmp, pc, token, byLogin, fd, issued, expired>>

\* The process dies; its files stay.
Crash(p) ==
    /\ pc[p] # "idle"
    /\ Finish(p)
    /\ UNCHANGED <<fileVars, issued, expired>>

\* A token reaches its expiry less the 60 s of Expired.
TokenExpires ==
    /\ \E serial \in (1..issued) \ expired : expired' = expired \cup {serial}
    /\ UNCHANGED <<fileVars, pc, token, byLogin, fd, issued>>

Step(p) ==
    \/ Login(p)
    \/ Ensure(p) \/ RefreshAnswers(p) \/ GivesUp(p)
    \/ OpenTmp(p) \/ WriteTmp(p) \/ WriteFails(p)
    \/ Rename(p) \/ RenameFails(p)
    \/ Logout(p)
    \/ Crash(p)

Next == TokenExpires \/ \E p \in Procs : Step(p)

Spec == Init /\ [][Next]_vars

-----------------------------------------------------------------------------
\* Whenever the file is there, Load can parse it.  It does not hold of Spec:
\* two saves share one temporary name.  LoginFlow says when it does.
AuthIsWhole == auth # NoFile => data[auth].state = "whole"

\* A login can always be prolonged: no sequence of refreshes, failed saves and
\* crashes leaves a stored token without a refresh token, even when the
\* provider does not repeat it (oauth.go:351-354).
RefreshTokenNeverLost ==
    auth # NoFile /\ data[auth].state = "whole" => data[auth].token.refresh
=============================================================================
