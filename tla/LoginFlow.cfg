SPECIFICATION LoginSpec
CONSTANTS
    Procs = {p1, p2}
    NoProc = NoProc
    Files = {f1, f2, f3, f4}
    NoFile = NoFile
    MaxTokens = 3
    MaxCallbacks = 1
INVARIANTS
    AuthIsWholeWhenApart
    RefreshTokenNeverLost
    LoginsSaveAlone
PROPERTIES
    SavesPublishTheirToken
    LoginReturns
