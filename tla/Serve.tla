------------------------------- MODULE Serve -------------------------------
(***************************************************************************)
(* `app serve`: the seed of the placement bank, the port and the shutdown  *)
(* (cmd/app/serve.go, cmd/app/seed.go, internal/seed/placement.go), by     *)
(* several processes over one database file, killed and started again.     *)
(*                                                                         *)
(* The bank is BankSize rows.  SQLite runs one writer at a time, and since *)
(* runServe sets no busy timeout a second writer fails at once.            *)
(***************************************************************************)
EXTENDS Integers, FiniteSets

CONSTANTS
    Processes,      \* the processes that may run `app serve`
    NoProcess,      \* nobody
    BankSize,       \* the items of data/seed/placement_items.json
    MaxRequests,    \* bound on the requests in flight in one process
    MaxStarts       \* bound on the starts of all processes

ASSUME ServeAssumption ==
    /\ NoProcess \notin Processes
    /\ BankSize \in Nat \ {0}
    /\ MaxRequests \in Nat
    /\ MaxStarts \in Nat

VARIABLES
    pc,         \* what each process does next
    rows,       \* the committed rows of placement_items
    writer,     \* the process whose transaction holds the write lock
    inserted,   \* the rows that transaction has inserted so far
    port,       \* the process that listens on HTTP_ADDR
    signaled,   \* the processes that were sent SIGINT or SIGTERM
    active,     \* the requests in flight in each process
    starts,     \* how many processes were started so far
    bankFound   \* data/seed/placement_items.json is there and loads

dbVars == <<rows, writer, inserted>>

vars == <<pc, dbVars, port, signaled, active, starts, bankFound>>

TypeOK ==
    /\ pc \in [Processes -> {"off", "count", "load", "insert", "listen", "serve", "drain"}]
    /\ rows \in Nat
    /\ writer \in Processes \cup {NoProcess}
    /\ inserted \in 0..BankSize
    /\ port \in Processes \cup {NoProcess}
    /\ signaled \subseteq Processes
    /\ active \in [Processes -> 0..MaxRequests]
    /\ starts \in 0..MaxStarts
    /\ bankFound \in BOOLEAN

Init ==
    /\ pc = [p \in Processes |-> "off"]
    /\ rows = 0
    /\ writer = NoProcess
    /\ inserted = 0
    /\ port = NoProcess
    /\ signaled = {}
    /\ active = [p \in Processes |-> 0]
    /\ starts = 0
    /\ bankFound \in BOOLEAN

Running == {p \in Processes : pc[p] # "off"}

Enter(p, step) == pc' = [pc EXCEPT ![p] = step]

-----------------------------------------------------------------------------
\* The database is open and migrated.
StartServer(p) ==
    /\ pc[p] = "off"
    /\ starts < MaxStarts
    /\ starts' = starts + 1
    /\ Enter(p, "count")
    /\ UNCHANGED <<dbVars, port, signaled, active, bankFound>>

\* The process is gone: its transaction is rolled back, its port is free, its
\* requests are cut.
Gone(p) ==
    /\ Enter(p, "off")
    /\ writer' = IF writer = p THEN NoProcess ELSE writer
    /\ inserted' = IF writer = p THEN 0 ELSE inserted
    /\ port' = IF port = p THEN NoProcess ELSE port
    /\ signaled' = signaled \ {p}
    /\ active' = [active EXCEPT ![p] = 0]
    /\ UNCHANGED <<rows, starts, bankFound>>

\* A kill or a power cut, anywhere.
Crash(p) == pc[p] # "off" /\ Gone(p)

Signal(p) ==
    /\ pc[p] # "off"
    /\ signaled' = signaled \cup {p}
    /\ UNCHANGED <<pc, dbVars, port, active, starts, bankFound>>

\* Before it serves, a process ends with an error: a statement that fails or is
\* canceled by the signal, another writer, a port in use.
StartFails(p) ==
    /\ pc[p] \in {"count", "load", "insert", "listen"}
    /\ Gone(p)

CountItems_FaultyAlwaysSeeds(p) ==
    /\ pc[p] = "count"
    /\ Enter(p, "load")
    /\ UNCHANGED <<dbVars, port, signaled, active, starts, bankFound>>

\* SELECT COUNT(*): a bank that is there is left alone.
CountItems(p) ==
    /\ pc[p] = "count"
    /\ Enter(p, IF rows > 0 THEN "listen" ELSE "load")
    /\ UNCHANGED <<dbVars, port, signaled, active, starts, bankFound>>

\* Without the file the server starts with no bank.
LoadBank(p) ==
    /\ pc[p] = "load"
    /\ Enter(p, IF bankFound THEN "insert" ELSE "listen")
    /\ UNCHANGED <<dbVars, port, signaled, active, starts, bankFound>>

\* The first INSERT takes the write lock.
InsertItem(p) ==
    /\ pc[p] = "insert"
    /\ writer \in {p, NoProcess}
    /\ inserted < BankSize
    /\ writer' = p
    /\ inserted' = inserted + 1
    /\ UNCHANGED <<pc, rows, port, signaled, active, starts, bankFound>>

CommitBank_FaultyIgnoresBusy(p) ==
    /\ pc[p] = "insert"
    /\ writer # p \/ inserted = BankSize
    /\ rows' = IF writer = p THEN rows + inserted ELSE rows
    /\ writer' = IF writer = p THEN NoProcess ELSE writer
    /\ inserted' = IF writer = p THEN 0 ELSE inserted
    /\ Enter(p, "listen")
    /\ UNCHANGED <<port, signaled, active, starts, bankFound>>

CommitBank(p) ==
    /\ pc[p] = "insert"
    /\ writer = p
    /\ inserted = BankSize
    /\ rows' = rows + inserted
    /\ writer' = NoProcess
    /\ inserted' = 0
    /\ Enter(p, "listen")
    /\ UNCHANGED <<port, signaled, active, starts, bankFound>>

-----------------------------------------------------------------------------
Listen(p) ==
    /\ pc[p] = "listen"
    /\ port = NoProcess
    /\ port' = p
    /\ Enter(p, "serve")
    /\ UNCHANGED <<dbVars, signaled, active, starts, bankFound>>

\* A connection is accepted by the process that has the port.
Accept(p) ==
    /\ port = p
    /\ active[p] < MaxRequests
    /\ active' = [active EXCEPT ![p] = @ + 1]
    /\ UNCHANGED <<pc, dbVars, port, signaled, starts, bankFound>>

Finish(p) ==
    /\ active[p] > 0
    /\ active' = [active EXCEPT ![p] = @ - 1]
    /\ UNCHANGED <<pc, dbVars, port, signaled, starts, bankFound>>

\* Serve fails on its own.
ServeFails(p) == pc[p] = "serve" /\ Gone(p)

\* <-ctx.Done(): Shutdown closes the listener and waits for the requests.
Shutdown(p) ==
    /\ pc[p] = "serve"
    /\ p \in signaled
    /\ port' = NoProcess
    /\ Enter(p, "drain")
    /\ UNCHANGED <<dbVars, signaled, active, starts, bankFound>>

Drained(p) == pc[p] = "drain" /\ active[p] = 0 /\ Gone(p)

\* The five seconds of shutdownCtx are over.
DrainTimesOut(p) == pc[p] = "drain" /\ active[p] > 0 /\ Gone(p)

Seed(p) == CountItems(p) \/ LoadBank(p) \/ InsertItem(p) \/ CommitBank(p)

Stop_FaultyNoDeadline(p) == Shutdown(p) \/ Drained(p)

Stop(p) == Shutdown(p) \/ Drained(p) \/ DrainTimesOut(p)

Proceed(p) == Seed(p) \/ StartFails(p) \/ Listen(p) \/ Stop(p)

Next ==
    \E p \in Processes :
        \/ StartServer(p) \/ Crash(p) \/ Signal(p)
        \/ Proceed(p) \/ Accept(p) \/ Finish(p) \/ ServeFails(p)

Spec == Init /\ [][Next]_vars

\* A process that can move does; clients and users need not.
FairSpec == Spec /\ \A p \in Processes : WF_vars(Proceed(p))

\* No process starts before the last one has ended.
OneProcess == Cardinality(Running) <= 1

-----------------------------------------------------------------------------
\* The bank is committed whole or not at all, wherever a process is killed and
\* whichever insert fails (placement.go:70-96); and a server that answers
\* requests has its bank, if there is one to load: also a process that lost the
\* race for the write lock starts only after a seed is committed
\* (serve.go:58-60, 85).
BankIsWhole ==
    /\ rows % BankSize = 0
    /\ port # NoProcess /\ bankFound => rows >= BankSize

\* The seed is "only when placement_items is empty" (seed.go:12-13): as long as
\* no process starts before the last one has ended, the bank is there at most
\* once, however often one is killed and started again.  Two that start
\* together may both find the table empty.
SeededOnce == []OneProcess => [](rows <= BankSize)

\* A process that is told to stop stops, however long its requests last: the
\* shutdown waits for them, but no longer than its deadline (serve.go:96-105).
SignalStops == \A p \in Processes : p \in signaled ~> pc[p] = "off"
============================================================================
