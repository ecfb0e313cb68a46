--------------------------- MODULE CommandProofs ---------------------------
(***************************************************************************)
(* The programs of cmd/app that share the database of the server: `app     *)
(* pregenerate` beside the sessions (Supply) and `app serve` in several    *)
(* processes (Serve), for every number of sessions, users, words, nights,  *)
(* processes and rows of the bank.                                         *)
(***************************************************************************)
EXTENDS Supply, Serve, OperatorProofs, FiniteSetTheorems

-----------------------------------------------------------------------------
\* `app serve`.

\* Who has the write lock is inserting, who has the port serves, and only who
\* found a bank to load inserts it.
OwnersSound ==
    \A p \in Processes :
        /\ writer = p => pc[p] = "insert"
        /\ port = p => pc[p] = "serve"
        /\ pc[p] = "insert" => bankFound

\* A bank is committed a whole number of times, and whoever is past its seed
\* has one.
BankSound ==
    /\ \E copies \in Nat : rows = copies * BankSize
    /\ \A p \in Processes :
         bankFound /\ pc[p] \in {"listen", "serve", "drain"} => rows >= BankSize

ServeInv ==
    /\ TypeOK
    /\ OwnersSound
    /\ BankSound
    /\ IsFiniteSet(Running)

\* A whole number of copies leaves no remainder, and if it is not none it is at
\* least one.
LEMMA Copies ==
    ASSUME NEW copies \in Nat, NEW size \in Nat \ {0}
    PROVE  /\ (copies * size) % size = 0
           /\ copies * size > 0 => copies * size >= size
           /\ copies * size + size = (copies + 1) * size
<1>1. copies * size + size = (copies + 1) * size
  OBVIOUS
<1>2. ASSUME copies # 0 PROVE copies * size >= size
  BY <1>2
<1>3. (copies * size) % size = 0
  <2> DEFINE q == (copies * size) \div size
             r == (copies * size) % size
             d == copies - q
  <2>1. q \in Int /\ r \in Int /\ 0 <= r /\ r < size /\ copies * size = q * size + r
    OBVIOUS
  <2>2. d * size = r
    BY <2>1
  <2> HIDE DEF r, q
  <2>3. d \in Int
    BY <2>1
  <2> HIDE DEF d
  <2>4. ~(d >= 1)
    <3> SUFFICES ASSUME d >= 1 PROVE FALSE
      OBVIOUS
    <3>1. d * size >= size
      BY <2>3
    <3> QED BY <2>1, <2>2, <3>1
  <2>5. ~(d <= -1)
    <3> SUFFICES ASSUME d <= -1 PROVE FALSE
      OBVIOUS
    <3>1. d * size <= -size
      BY <2>3
    <3> QED BY <2>1, <2>2, <3>1
  <2>6. d = 0
    BY <2>3, <2>4, <2>5
  <2>7. r = 0
    BY <2>2, <2>6
  <2> QED BY <2>7 DEF r
<1> QED
  BY <1>1, <1>2, <1>3

LEMMA ServeInit == Init => ServeInv
<1> SUFFICES ASSUME Init PROVE ServeInv
  OBVIOUS
<1> USE ServeAssumption DEF ServeAssumption, Init
<1>1. TypeOK
  BY DEF TypeOK
<1>2. OwnersSound
  BY DEF OwnersSound
<1>3. BankSound
  <2>1. rows = 0 * BankSize
    OBVIOUS
  <2> QED BY <2>1 DEF BankSound
<1>4. IsFiniteSet(Running)
  <2>1. Running = {}
    BY DEF Running
  <2> QED BY <2>1, FS_EmptySet
<1> QED
  BY <1>1, <1>2, <1>3, <1>4 DEF ServeInv

\* What is left of a process that is gone.
LEMMA GoneKeeps ==
    ASSUME ServeInv, NEW p \in Processes, Gone(p)
    PROVE  ServeInv'
<1> USE ServeAssumption DEF ServeAssumption
<1>1. TypeOK'
  BY DEF ServeInv, TypeOK, Gone, Enter
<1>2. OwnersSound'
  BY DEF ServeInv, TypeOK, OwnersSound, Gone, Enter
<1>3. BankSound'
  BY DEF ServeInv, TypeOK, BankSound, Gone, Enter
<1>4. IsFiniteSet(Running)'
  <2>1. Running' \subseteq Running
    BY DEF Running, Gone, Enter, ServeInv, TypeOK
  <2> QED BY <2>1, FS_Subset DEF ServeInv
<1> QED
  BY <1>1, <1>2, <1>3, <1>4 DEF ServeInv

\* A step that only moves a running process on.
LEMMA RunningStays ==
    ASSUME ServeInv, NEW p \in Processes, pc[p] # "off",
           NEW step \in {"count", "load", "insert", "listen", "serve", "drain"}, Enter(p, step)
    PROVE  IsFiniteSet(Running)' /\ Running' = Running
<1>1. Running' = Running
  BY DEF Running, Enter, ServeInv, TypeOK
<1> QED
  BY <1>1 DEF ServeInv

LEMMA ServeStep == ServeInv /\ [Next]_vars => ServeInv'
<1> SUFFICES ASSUME ServeInv, [Next]_vars PROVE ServeInv'
  OBVIOUS
<1> USE ServeAssumption DEF ServeAssumption
<1>1. CASE UNCHANGED vars
  BY <1>1 DEF vars, dbVars, ServeInv, TypeOK, OwnersSound, BankSound, Running
<1>2. SUFFICES ASSUME NEW p \in Processes,
                      \/ StartServer(p) \/ Crash(p) \/ Signal(p)
                      \/ Proceed(p) \/ Accept(p) \/ Finish(p) \/ ServeFails(p)
               PROVE  ServeInv'
  BY <1>1 DEF Next
<1>3. CASE StartServer(p)
  <2> USE <1>3 DEF StartServer, Enter, dbVars
  <2>1. TypeOK'
    BY DEF ServeInv, TypeOK
  <2>2. OwnersSound'
    BY DEF ServeInv, TypeOK, OwnersSound
  <2>3. BankSound'
    BY DEF ServeInv, TypeOK, BankSound
  <2>4. Running' = Running \cup {p}
    BY DEF Running, ServeInv, TypeOK
  <2>5. IsFiniteSet(Running \cup {p})
    BY FS_AddElement DEF ServeInv
  <2> QED BY <2>1, <2>2, <2>3, <2>4, <2>5 DEF ServeInv
<1>4. CASE Gone(p)
  BY <1>4, GoneKeeps
<1>5. CASE Signal(p)
  BY <1>5 DEF Signal, dbVars, ServeInv, TypeOK, OwnersSound, BankSound, Running
<1>6. CASE CountItems(p)
  <2> USE <1>6 DEF CountItems, Enter, dbVars
  <2>1. TypeOK'
    BY DEF ServeInv, TypeOK
  <2>2. OwnersSound'
    BY DEF ServeInv, TypeOK, OwnersSound
  <2>3. rows > 0 => rows >= BankSize
    BY Copies DEF ServeInv, BankSound
  <2>4. BankSound'
    BY <2>3 DEF ServeInv, TypeOK, BankSound
  <2>5. IsFiniteSet(Running)'
    BY RunningStays
  <2> QED BY <2>1, <2>2, <2>4, <2>5 DEF ServeInv
<1>7. CASE LoadBank(p)
  <2> USE <1>7 DEF LoadBank, Enter, dbVars
  <2>1. TypeOK'
    BY DEF ServeInv, TypeOK
  <2>2. OwnersSound'
    BY DEF ServeInv, TypeOK, OwnersSound
  <2>3. BankSound'
    BY DEF ServeInv, TypeOK, BankSound
  <2>4. IsFiniteSet(Running)'
    BY RunningStays
  <2> QED BY <2>1, <2>2, <2>3, <2>4 DEF ServeInv
<1>8. CASE InsertItem(p)
  BY <1>8 DEF InsertItem, ServeInv, TypeOK, OwnersSound, BankSound, Running
<1>9. CASE CommitBank(p)
  <2> USE <1>9 DEF CommitBank, Enter
  <2>1. TypeOK'
    BY DEF ServeInv, TypeOK
  <2>2. OwnersSound'
    BY DEF ServeInv, TypeOK, OwnersSound
  <2>3. rows' = rows + BankSize /\ rows \in Nat
    BY DEF ServeInv, TypeOK
  <2>4. PICK copies \in Nat : rows = copies * BankSize
    BY DEF ServeInv, BankSound
  <2>5. rows' = (copies + 1) * BankSize /\ copies + 1 \in Nat
    BY <2>3, <2>4, Copies
  <2>6. rows' >= BankSize
    BY <2>3
  <2>7. BankSound'
    BY <2>5, <2>6 DEF BankSound
  <2>8. IsFiniteSet(Running)'
    BY RunningStays
  <2> QED BY <2>1, <2>2, <2>7, <2>8 DEF ServeInv
<1>10. CASE Listen(p)
  <2> USE <1>10 DEF Listen, Enter, dbVars
  <2>1. TypeOK'
    BY DEF ServeInv, TypeOK
  <2>2. OwnersSound'
    BY DEF ServeInv, TypeOK, OwnersSound
  <2>3. BankSound'
    BY DEF ServeInv, TypeOK, BankSound
  <2>4. IsFiniteSet(Running)'
    BY RunningStays
  <2> QED BY <2>1, <2>2, <2>3, <2>4 DEF ServeInv
<1>11. CASE Shutdown(p)
  <2> USE <1>11 DEF Shutdown, Enter, dbVars
  <2>1. TypeOK'
    BY DEF ServeInv, TypeOK
  <2>2. OwnersSound'
    BY DEF ServeInv, TypeOK, OwnersSound
  <2>3. BankSound'
    BY DEF ServeInv, TypeOK, BankSound
  <2>4. IsFiniteSet(Running)'
    BY RunningStays
  <2> QED BY <2>1, <2>2, <2>3, <2>4 DEF ServeInv
<1>12. CASE Accept(p) \/ Finish(p)
  <2>1. active' \in [Processes -> 0..MaxRequests]
    BY <1>12 DEF Accept, Finish, ServeInv, TypeOK
  <2>2. UNCHANGED <<pc, rows, writer, inserted, port, signaled, starts, bankFound>>
    BY <1>12 DEF Accept, Finish, dbVars
  <2> QED BY <2>1, <2>2 DEF ServeInv, TypeOK, OwnersSound, BankSound, Running
<1> QED
  BY <1>2, <1>3, <1>4, <1>5, <1>6, <1>7, <1>8, <1>9, <1>10, <1>11, <1>12
     DEF Crash, Proceed, Seed, Stop, StartFails, Drained, DrainTimesOut, ServeFails

LEMMA ServeInvariance == Spec => []ServeInv
<1> QED BY ServeInit, ServeStep, PTL DEF Spec

\* For every number of processes and every size of the bank: wherever a process
\* is killed and whichever insert fails, the table holds whole copies of the
\* bank, and a server that answers requests has one if there is one to load.
THEOREM BankStaysWhole == Spec => []BankIsWhole
<1>1. ServeInv => BankIsWhole
  <2> SUFFICES ASSUME ServeInv PROVE BankIsWhole
    OBVIOUS
  <2>1. rows % BankSize = 0
    BY ServeAssumption, Copies DEF ServeAssumption, ServeInv, BankSound
  <2>2. port # NoProcess /\ bankFound => rows >= BankSize
    BY DEF ServeInv, TypeOK, OwnersSound, BankSound
  <2> QED BY <2>1, <2>2 DEF BankIsWhole
<1> QED BY <1>1, ServeInvariance, PTL

-----------------------------------------------------------------------------
\* As long as one process runs at a time, one that is on its way to insert has
\* found the table empty, and it is still empty.
SeedSound ==
    /\ rows <= BankSize
    /\ \A p \in Processes : pc[p] \in {"load", "insert"} => rows = 0

\* Where at most one process runs, two that run are the same.
LEMMA OnlyOne ==
    ASSUME ServeInv, OneProcess, NEW p \in Running, NEW q \in Running
    PROVE  p = q
<1> SUFFICES ASSUME p # q PROVE FALSE
  OBVIOUS
<1>1. IsFiniteSet({p}) /\ Cardinality({p}) = 1
  BY FS_Singleton
<1>2. Cardinality({p} \cup {q}) = 2
  BY <1>1, FS_AddElement
<1>3. {p} \cup {q} \subseteq Running
  OBVIOUS
<1>4. Cardinality({p} \cup {q}) <= Cardinality(Running)
  BY <1>3, FS_Subset DEF ServeInv
<1>5. Cardinality(Running) \in Nat
  BY FS_CardinalityType DEF ServeInv
<1> QED
  BY <1>2, <1>4, <1>5 DEF OneProcess

LEMMA SeedStep == ServeInv /\ OneProcess /\ SeedSound /\ [Next]_vars => SeedSound'
<1> SUFFICES ASSUME ServeInv, OneProcess, SeedSound, [Next]_vars PROVE SeedSound'
  OBVIOUS
<1> USE ServeAssumption DEF ServeAssumption
<1>1. CASE UNCHANGED vars
  BY <1>1 DEF vars, dbVars, SeedSound
<1>2. SUFFICES ASSUME NEW p \in Processes,
                      \/ StartServer(p) \/ Crash(p) \/ Signal(p)
                      \/ Proceed(p) \/ Accept(p) \/ Finish(p) \/ ServeFails(p)
               PROVE  SeedSound'
  BY <1>1 DEF Next
<1>3. CASE StartServer(p)
  BY <1>3 DEF StartServer, Enter, dbVars, SeedSound, ServeInv, TypeOK
<1>4. CASE Gone(p)
  BY <1>4 DEF Gone, Enter, SeedSound, ServeInv, TypeOK
<1>5. CASE Signal(p) \/ Accept(p) \/ Finish(p) \/ InsertItem(p)
  BY <1>5 DEF Signal, Accept, Finish, InsertItem, dbVars, SeedSound
<1>6. CASE CountItems(p)
  BY <1>6 DEF CountItems, Enter, dbVars, SeedSound, ServeInv, TypeOK
<1>7. CASE LoadBank(p)
  BY <1>7 DEF LoadBank, Enter, dbVars, SeedSound, ServeInv, TypeOK
<1>8. CASE CommitBank(p)
  <2> USE <1>8 DEF CommitBank, Enter
  <2>1. rows' = BankSize
    BY DEF SeedSound, ServeInv, TypeOK
  <2>2. ASSUME NEW q \in Processes, pc'[q] \in {"load", "insert"}
        PROVE  FALSE
    <3>1. q # p /\ pc[q] # "off"
      BY <2>2 DEF ServeInv, TypeOK
    <3>2. p \in Running /\ q \in Running
      BY <3>1 DEF Running
    <3> QED BY <3>1, <3>2, OnlyOne
  <2> QED BY <2>1, <2>2 DEF SeedSound
<1>9. CASE Listen(p) \/ Shutdown(p)
  BY <1>9 DEF Listen, Shutdown, Enter, dbVars, SeedSound, ServeInv, TypeOK
<1> QED
  BY <1>2, <1>3, <1>4, <1>5, <1>6, <1>7, <1>8, <1>9
     DEF Crash, Proceed, Seed, Stop, StartFails, Drained, DrainTimesOut, ServeFails

\* For every number of processes and starts: as long as no process starts
\* before the last one has ended, the bank is there at most once, however often
\* one is killed between its count, its inserts and its commit.
THEOREM SeededAtMostOnce == Spec => SeededOnce
<1>1. Init => SeedSound
  BY ServeAssumption DEF ServeAssumption, Init, SeedSound
<1>2. SeedSound => rows <= BankSize
  BY DEF SeedSound
<1> QED BY <1>1, <1>2, SeedStep, ServeInvariance, PTL DEF Spec, SeededOnce

-----------------------------------------------------------------------------
\* Dedup.

\* One line of its recursion.
First(g, seq, i) ==
    IF i = 0 THEN <<>>
    ELSE IF seq[i] \in ToSet(g[i - 1]) THEN g[i - 1]
    ELSE Append(g[i - 1], seq[i])

Dedups(g, seq, n) == g = [i \in 0..n |-> First(g, seq, i)]

\* The recursion has a solution of every length.
LEMMA DedupHasSolution ==
    ASSUME NEW list
    PROVE  \A n \in Nat : \E g : Dedups(g, list, n)
<1> DEFINE S == {n \in Nat : \E g : Dedups(g, list, n)}
<1>1. 0 \in S
  <2> DEFINE g0 == [i \in 0..0 |-> <<>>]
  <2>1. Dedups(g0, list, 0)
    BY DEF Dedups, First
  <2> QED
    BY <2>1
<1>2. ASSUME NEW n \in Nat, n \in S
      PROVE  n + 1 \in S
  <2>1. PICK g : Dedups(g, list, n)
    BY <1>2
  <2> DEFINE h == [i \in 0..(n + 1) |-> IF i <= n THEN g[i] ELSE First(g, list, n + 1)]
  <2>2. ASSUME NEW i \in 0..(n + 1)
        PROVE  h[i] = First(h, list, i)
    <3>1. CASE i = 0
      <4>1. h[i] = g[0]
        BY <3>1
      <4>2. g[0] = First(g, list, 0)
        BY <2>1 DEF Dedups
      <4> QED
        BY <3>1, <4>1, <4>2 DEF First
    <3>2. CASE i # 0
      <4>1. i - 1 \in 0..n /\ i - 1 \in 0..(n + 1) /\ i - 1 <= n
        BY <3>2
      <4>2. h[i - 1] = g[i - 1]
        BY <4>1
      <4>3. First(h, list, i) = First(g, list, i)
        BY <3>2, <4>2 DEF First
      <4>4. h[i] = First(g, list, i)
        <5>1. CASE i <= n
          <6>1. i \in 0..n /\ h[i] = g[i]
            BY <5>1
          <6> QED
            BY <6>1, <2>1 DEF Dedups
        <5>2. CASE ~(i <= n)
          <6>1. i = n + 1
            BY <5>2
          <6> QED
            BY <5>2, <6>1
        <5> QED
          BY <5>1, <5>2
      <4> QED
        BY <4>3, <4>4
    <3> QED
      BY <3>1, <3>2
  <2>3. Dedups(h, list, n + 1)
    <3>1. h = [i \in 0..(n + 1) |-> h[i]]
      OBVIOUS
    <3> HIDE DEF h
    <3> QED
      BY <2>2, <3>1 DEF Dedups
  <2> QED
    BY <2>3
<1> HIDE DEF S
<1>3. \A n \in Nat : n \in S
  BY <1>1, <1>2, SetInduction
<1> QED
  BY <1>3 DEF S

\* Dedup is the last value of a solution.
LEMMA DedupSolution ==
    ASSUME NEW list, Len(list) \in Nat
    PROVE  \E g : Dedups(g, list, Len(list)) /\ Dedup(list) = g[Len(list)]
<1> DEFINE n == Len(list)
           g == CHOOSE f : Dedups(f, list, n)
<1>1. Dedups(g, list, n)
  <2>1. \E f : Dedups(f, list, n)
    BY DedupHasSolution
  <2> QED
    BY <2>1
<1>2. Dedup(list) = g[n]
  BY DEF Dedup, Dedups, First
<1> QED
  BY <1>1, <1>2

\* Two solutions agree as far as the lists they come from do.
LEMMA DedupsAgree ==
    ASSUME NEW one, NEW two, NEW m \in Nat, NEW n \in Nat, m <= n,
           \A i \in 1..m : one[i] = two[i],
           NEW f, Dedups(f, one, m),
           NEW g, Dedups(g, two, n)
    PROVE  f[m] = g[m]
<1> DEFINE S == {i \in Nat : i <= m => f[i] = g[i]}
<1>1. 0 \in S
  BY DEF Dedups, First
<1>2. ASSUME NEW i \in Nat, i \in S
      PROVE  i + 1 \in S
  <2> SUFFICES ASSUME i + 1 <= m PROVE f[i + 1] = g[i + 1]
    OBVIOUS
  <2>1. /\ i + 1 \in 0..m /\ i + 1 \in 0..n /\ i + 1 \in 1..m /\ i + 1 # 0
        /\ (i + 1) - 1 = i /\ i <= m
    OBVIOUS
  <2>2. f[i + 1] = First(f, one, i + 1)
    BY <2>1 DEF Dedups
  <2>3. g[i + 1] = First(g, two, i + 1)
    BY <2>1 DEF Dedups
  <2>4. f[i] = g[i] /\ one[i + 1] = two[i + 1]
    BY <1>2, <2>1
  <2> QED
    BY <2>1, <2>2, <2>3, <2>4 DEF First
<1> HIDE DEF S
<1>3. m \in S
  BY <1>1, <1>2, SetInduction
<1> QED
  BY <1>3 DEF S

LEMMA DedupEmpty == Dedup(<<>>) = <<>>
<1>1. Len(<<>>) = 0
  OBVIOUS
<1>2. PICK g : Dedups(g, <<>>, 0) /\ Dedup(<<>>) = g[0]
  BY <1>1, DedupSolution
<1> QED
  BY <1>2 DEF Dedups, First

\* An element that is appended is kept at the end, or left out when it is
\* there already.
LEMMA DedupAppend ==
    ASSUME NEW S, NEW list \in Seq(S), NEW e \in S
    PROVE  Dedup(Append(list, e)) =
             IF e \in ToSet(Dedup(list)) THEN Dedup(list) ELSE Append(Dedup(list), e)
<1> DEFINE longer == Append(list, e)
           n == Len(list)
<1>1. /\ n \in Nat /\ Len(longer) = n + 1 /\ longer[n + 1] = e
      /\ \A i \in 1..n : list[i] = longer[i]
  OBVIOUS
<1>2. PICK f : Dedups(f, list, n) /\ Dedup(list) = f[n]
  BY <1>1, DedupSolution
<1>3. PICK g : Dedups(g, longer, n + 1) /\ Dedup(longer) = g[n + 1]
  <2> HIDE DEF longer
  <2> QED
    BY <1>1, DedupSolution
<1>4. f[n] = g[n]
  <2>1. n \in Nat /\ n + 1 \in Nat /\ n <= n + 1
    BY <1>1
  <2> HIDE DEF longer, n
  <2> QED
    BY <1>1, <1>2, <1>3, <2>1, DedupsAgree
<1>5. g[n + 1] = First(g, longer, n + 1)
  BY <1>1, <1>3 DEF Dedups
<1>6. (n + 1) - 1 = n /\ n + 1 # 0
  BY <1>1
<1> HIDE DEF longer, n
<1> QED
  BY <1>1, <1>2, <1>3, <1>4, <1>5, <1>6 DEF First, longer

\* What is left is a sequence of the same elements, and no longer.
LEMMA DedupType ==
    ASSUME NEW S
    PROVE  \A list \in Seq(S) : Dedup(list) \in Seq(S) /\ Len(Dedup(list)) <= Len(list)
<1> DEFINE G == {s \in Seq(S) : Dedup(s) \in Seq(S) /\ Len(Dedup(s)) <= Len(s)}
<1>1. <<>> \in G
  <2>1. <<>> \in Seq(S) /\ Len(<<>>) <= Len(<<>>)
    OBVIOUS
  <2> QED BY <2>1, DedupEmpty
<1>2. ASSUME NEW s \in Seq(S), NEW e \in S, s \in G
      PROVE  Append(s, e) \in G
  <2> DEFINE kept == Dedup(s)
  <2>1. kept \in Seq(S) /\ Len(kept) <= Len(s)
    BY <1>2
  <2>2. Dedup(Append(s, e)) = kept \/ Dedup(Append(s, e)) = Append(kept, e)
    BY DedupAppend
  <2> HIDE DEF kept
  <2> QED
    BY <2>1, <2>2
<1> HIDE DEF G
<1>3. \A s \in Seq(S) : s \in G
  BY <1>1, <1>2, SequenceInduction
<1> QED
  BY <1>3 DEF G

-----------------------------------------------------------------------------
\* The batch beside the sessions.

\* The keys that plans and lists make.
PlanKeys == {CEFRKey(words, level) : words \in BoundedSeq(Target, MaxWords), level \in Levels}

\* What a call holds is a payload, and its key has one for good once it has
\* found or answered with one.
HoldsPayload(r, table) ==
    /\ r.pc \in {"countHit", "save"} \/ r.result \in {"hit", "miss"} =>
         r.value \in Payloads
    /\ r.pc = "countHit" \/ r.result \in {"hit", "miss"} => table[r.key] \in Payloads
    /\ r.result # "none" <=> r.pc = "returned"

CallsSound ==
    /\ \A c \in Callers : call[c].key \in PlanKeys /\ HoldsPayload(call[c], content)
    /\ jobCall[Job].key \in PlanKeys /\ HoldsPayload(jobCall[Job], content)

\* A payload that the caller has found missing, or was the last to store, is
\* not what it generates over.
Serves(who, r, table, pairs) ==
    <<who, r.key>> \in pairs /\ r.pc \in {"generate", "save"} => table[r.key] \notin Payloads

ServedSound ==
    /\ \A c \in Callers : Serves(c, call[c], content, seen)
    /\ Serves(Job, jobCall[Job], content, seen)

\* The batch's call is of the key it probed, and there is none while it does
\* something else.
JobSound ==
    /\ night.pc \in {"probe", "count", "call"} => night.key \in PlanKeys
    /\ IF night.pc = "call" THEN jobCall[Job].key = night.key ELSE jobCall[Job].pc = "new"

\* Users are left as long as the batch is busy.
UsersSound ==
    night.pc \in {"list", "probe", "count", "call"} => Len(outcomes) < Len(UserLevels)

Hits(k) == Cardinality(With({"hit"}) \cap OfKey(k))

\* The batch has found a row and will count it.
Owes == night.pc = "count" \/ (night.pc = "call" /\ jobCall[Job].pc = "countHit")

\* A hit that the batch owes leaves room for its count.
HitsSound ==
    /\ IsFiniteSet(With({"hit"}))
    /\ HitsNeverInvented
    /\ Owes => \/ hitCount[night.key] < Hits(night.key) + probed[night.key]
               \/ probed[night.key] = MaxCount

SupplyInv ==
    /\ SupplyTypeOK
    /\ CallsSound
    /\ ServedSound
    /\ JobSound
    /\ UsersSound
    /\ HitsSound

\* A prefix of a sequence is no longer than it.
LEMMA TrimType ==
    ASSUME NEW S, NEW seq \in Seq(S), NEW n \in Nat
    PROVE  TrimTo(seq, n) \in Seq(S) /\ Len(TrimTo(seq, n)) <= Len(seq)
BY DEF TrimTo

LEMMA TargetLimitType == \A days \in Int : TargetLimit(days) \in Nat
BY SupplyAssumption DEF SupplyAssumption, TargetLimit

\* A plan is made of allowed words, and is no longer than what was named.
LEMMA PlanType ==
    ASSUME NEW named \in Seq(Lemmas), NEW recent, NEW days \in Int
    PROVE  /\ PostProcess(named, recent, days) \in Seq(Lemmas)
           /\ Len(PostProcess(named, recent, days)) <= Len(named)
<1> DEFINE allowed == Filter(named, Lemmas \ recent)
<1>1. allowed \in Seq(Lemmas) /\ Len(allowed) <= Len(named)
  <2>1. allowed \in Seq(Lemmas \cap (Lemmas \ recent)) /\ Len(allowed) <= Len(named)
    BY FilterType
  <2> HIDE DEF allowed
  <2> QED BY <2>1
<1> HIDE DEF allowed
<1>2. Dedup(allowed) \in Seq(Lemmas) /\ Len(Dedup(allowed)) <= Len(allowed)
  BY <1>1, DedupType
<1>3. TargetLimit(days) \in Nat
  BY TargetLimitType
<1> DEFINE plan == TrimTo(Dedup(allowed), TargetLimit(days))
<1>4. plan \in Seq(Lemmas) /\ Len(plan) <= Len(Dedup(allowed))
  BY <1>2, <1>3, TrimType
<1>5. plan = PostProcess(named, recent, days)
  BY DEF PostProcess, allowed
<1> HIDE DEF plan
<1>6. Len(plan) \in Nat /\ Len(allowed) \in Nat /\ Len(named) \in Nat /\ Len(Dedup(allowed)) \in Nat
  BY <1>1, <1>2, <1>4
<1> QED
  BY <1>1, <1>2, <1>4, <1>5, <1>6

\* A bounded sequence is a sequence that is short enough.
LEMMA BoundedSeqs ==
    ASSUME NEW S, NEW n \in Nat
    PROVE  \A s : s \in BoundedSeq(S, n) <=> s \in Seq(S) /\ Len(s) <= n
<1>1. ASSUME NEW s \in BoundedSeq(S, n)
      PROVE  s \in Seq(S) /\ Len(s) <= n
  <2>1. PICK m \in 0..n : s \in [1..m -> S]
    BY DEF BoundedSeq, SeqOf
  <2>2. s \in Seq(S) /\ Len(s) = m
    BY <2>1
  <2> QED BY <2>1, <2>2
<1>2. ASSUME NEW s \in Seq(S), Len(s) <= n
      PROVE  s \in BoundedSeq(S, n)
  <2>1. Len(s) \in 0..n /\ s \in [1..Len(s) -> S]
    BY <1>2
  <2> QED BY <2>1 DEF BoundedSeq, SeqOf
<1> QED BY <1>1, <1>2

\* Every key that is made is a key.
LEMMA PlanKeysAreKeys == PlanKeys \subseteq Keys
BY SupplyAssumption DEF SupplyAssumption, PlanKeys

LEMMA EmptyKeyType == EmptyKey \in PlanKeys
<1>1. MaxWords \in Nat
  BY SupplyAssumption DEF SupplyAssumption, MaxWords
<1>2. <<>> \in Seq(Target) /\ Len(<<>>) <= MaxWords
  BY <1>1
<1>3. <<>> \in BoundedSeq(Target, MaxWords)
  BY <1>1, <1>2, BoundedSeqs
<1> DEFINE any == CHOOSE level \in Levels : TRUE
<1>4. any \in Levels
  BY SupplyAssumption DEF SupplyAssumption
<1>5. EmptyKey = CEFRKey(<<>>, any)
  BY DEF EmptyKey
<1> HIDE DEF any
<1> QED BY <1>3, <1>4, <1>5 DEF PlanKeys

\* The key of a session's plan.
LEMMA SessionKeyType ==
    ASSUME NEW level \in Levels, NEW named \in Answers
    PROVE  CEFRKey(SessionTargets(PostProcess(named, {}, 0)), level) \in PlanKeys
<1> DEFINE plan == PostProcess(named, {}, 0)
<1>1. named \in Seq(Lemmas) /\ Len(named) <= MaxAnswer
  BY BoundedSeqs, SupplyAssumption DEF Answers, SupplyAssumption
<1>2. plan \in Seq(Lemmas) /\ Len(plan) <= Len(named)
  BY <1>1, PlanType
<1> HIDE DEF plan
<1>3. SessionTargets(plan) \in Seq(Target) /\ Len(SessionTargets(plan)) = Len(plan)
  <2>1. \A l \in Lemmas : [lemma |-> l, gloss |-> NoGloss] \in Target
    BY DEF Target, Glosses
  <2> QED BY <1>2, <2>1 DEF SessionTargets
<1>4. MaxWords \in Nat /\ MaxAnswer \in Nat /\ MaxAnswer <= MaxWords
  BY SupplyAssumption DEF SupplyAssumption, MaxWords
<1>5. Len(SessionTargets(plan)) <= MaxWords
  BY <1>1, <1>2, <1>3, <1>4
<1>6. SessionTargets(plan) \in BoundedSeq(Target, MaxWords)
  BY <1>3, <1>4, <1>5, BoundedSeqs
<1> QED BY <1>6 DEF PlanKeys, plan

\* The key of the batch's list.
LEMMA BatchKeyType ==
    ASSUME SupplyTypeOK, NEW level \in Levels, NEW listed \in ListByCEFR(level)
    PROVE  CEFRKey(BatchTargets(listed), level) \in PlanKeys
<1> USE SupplyAssumption DEF SupplyAssumption
<1> DEFINE words == {l \in Lemmas : vocabulary[l] # NoEntry /\ vocabulary[l].cefr = level}
<1>1. listed \in BoundedSeq(words, ListLimit)
  BY DEF ListByCEFR
<1>2. listed \in Seq(words) /\ Len(listed) <= ListLimit
  BY <1>1, BoundedSeqs
<1>3. \A l \in words : [lemma |-> l, gloss |-> vocabulary[l].gloss] \in Target
  BY DEF SupplyTypeOK, Entry, Target
<1> HIDE DEF words
<1>4. /\ BatchTargets(listed) \in Seq(Target)
      /\ Len(BatchTargets(listed)) = Len(listed)
  BY <1>2, <1>3 DEF BatchTargets
<1>5. MaxWords \in Nat /\ ListLimit <= MaxWords
  BY DEF MaxWords
<1>6. Len(BatchTargets(listed)) <= MaxWords
  BY <1>2, <1>4, <1>5
<1>7. BatchTargets(listed) \in BoundedSeq(Target, MaxWords)
  BY <1>4, <1>5, <1>6, BoundedSeqs
<1> QED BY <1>7 DEF PlanKeys

-----------------------------------------------------------------------------
\* What a step of WithCache does to the call of who takes it, r before and s
\* after, whoever the caller is.
Looked(who, r) == {x \in seen : x[1] # who} \cup {<<who, r.key>>}

Finds(who, r, s) ==
    /\ r.pc = "lookup"
    /\ content[r.key] \in Payloads
    /\ s = [r EXCEPT !.pc = "countHit", !.value = content[r.key]]
    /\ seen' = Looked(who, r)
    /\ UNCHANGED <<content, hitCount>>

Misses(who, r, s) ==
    /\ r.pc = "lookup"
    /\ s = [r EXCEPT !.pc = "generate"]
    /\ \/ content[r.key] \notin Payloads /\ seen' = Looked(who, r)
       \/ seen' = {x \in seen : x[1] # who}
    /\ UNCHANGED <<content, hitCount>>

Counts(r, s) ==
    /\ r.pc = "countHit"
    /\ s = [r EXCEPT !.pc = "returned", !.result = "hit"]
    /\ UNCHANGED <<content, seen>>
    /\ IncHit(r.key) \/ UNCHANGED hitCount

Puts(who, r, s) ==
    /\ r.pc = "save"
    /\ \E result \in {"miss", "putError"} : s = [r EXCEPT !.pc = "returned", !.result = result]
    /\ content' = [content EXCEPT ![r.key] = r.value]
    /\ seen' = {x \in seen : x[2] # r.key} \cup {<<who, r.key>>}
    /\ UNCHANGED hitCount

Fails(r, s) ==
    /\ \/ r.pc = "generate" /\ s = [r EXCEPT !.pc = "returned", !.value = NoValue, !.result = "genError"]
       \/ r.pc = "save" /\ s = [r EXCEPT !.pc = "returned", !.result = "putError"]
    /\ UNCHANGED <<content, hitCount, seen>>

Generates(r, s) ==
    /\ r.pc = "generate"
    /\ \E v \in Payloads : s = [r EXCEPT !.pc = "save", !.value = v]
    /\ UNCHANGED <<content, hitCount, seen>>

Begins(r, s) ==
    /\ r.pc = "new" /\ s = [r EXCEPT !.pc = "lookup"]
    /\ UNCHANGED <<content, hitCount, seen>>

Moves(who, r, s) ==
    \/ Finds(who, r, s) \/ Misses(who, r, s) \/ Counts(r, s) \/ Puts(who, r, s)
    \/ Fails(r, s) \/ Generates(r, s) \/ Begins(r, s)

\* The steps of a session are such moves, of its call alone.
LEMMA SessionMoves ==
    ASSUME SupplyTypeOK, CallsSound, NEW c \in Callers, SessionQueries(c) \/ SessionGenerates(c)
    PROVE  /\ Moves(c, call[c], call'[c])
           /\ call' = [call EXCEPT ![c] = call'[c]]
           /\ UNCHANGED <<vocabulary, nightVars>>
           /\ call[c].pc # "new"
<1> DEFINE r == call[c]
<1>1. r \in Call /\ call \in [Callers -> Call]
  BY DEF SupplyTypeOK, CacheTypeOK
<1>2. UNCHANGED <<vocabulary, nightVars>>
  BY DEF SessionQueries, SessionGenerates
<1>3. CASE FindHit(c)
  BY <1>1, <1>2, <1>3 DEF FindHit, Reads, SeenByOthers, Looked, At, Finds, Moves
<1> DEFINE back(v, res) == [r EXCEPT !.pc = "returned", !.value = v, !.result = res]
<1>4. ASSUME NEW v, NEW res, Return(c, v, res)
      PROVE  call' = [call EXCEPT ![c] = back(v, res)] /\ call'[c] = back(v, res)
  BY <1>1, <1>4 DEF Return, Call
<1>5. \A res : back(r.value, res) = [r EXCEPT !.pc = "returned", !.result = res]
  BY <1>1 DEF Call
<1> HIDE DEF back
<1>6. CASE CountHit(c) \/ CountHitFails(c)
  <2>1. Return(c, r.value, "hit")
    BY <1>6 DEF CountHit, CountHitFails
  <2>2. Counts(r, call'[c])
    BY <1>6, <1>4, <1>5, <2>1 DEF CountHit, CountHitFails, At, Counts, tableVars
  <2> QED BY <1>2, <1>6, <1>4, <2>1, <2>2 DEF Moves, CountHit, CountHitFails, At
<1>7. ASSUME NEW res \in {"miss", "putError"}, r.pc = "save", Stores(c), Return(c, r.value, res)
      PROVE  Puts(c, r, call'[c])
  <2>1. call'[c] = back(r.value, res)
    BY <1>4, <1>7
  <2>2. call'[c] = [r EXCEPT !.pc = "returned", !.result = res]
    BY <1>5, <2>1
  <2> QED BY <1>7, <2>2 DEF Stores, Put, Puts
<1>8. CASE Save(c) \/ PutFails(c)
  <2>1. PICK res \in {"miss", "putError"} : Return(c, r.value, res)
    BY <1>8 DEF Save, PutFails
  <2>2. r.pc = "save"
    BY <1>8 DEF Save, PutFails, At
  <2>3. CASE Stores(c)
    BY <1>2, <1>4, <1>7, <2>1, <2>2, <2>3 DEF Moves
  <2>4. CASE PutFails(c) /\ UNCHANGED tableVars
    <3>1. Return(c, r.value, "putError")
      BY <2>4 DEF PutFails
    <3>2. call'[c] = back(r.value, "putError")
      BY <1>4, <3>1
    <3>3. call'[c] = [r EXCEPT !.pc = "returned", !.result = "putError"]
      BY <1>5, <3>2
    <3>4. Fails(r, call'[c])
      BY <2>2, <2>4, <3>3 DEF Fails, tableVars
    <3> QED BY <1>2, <1>4, <2>1, <2>2, <3>4 DEF Moves
  <2> QED BY <1>8, <2>3, <2>4 DEF Save, PutFails
<1>9. CASE GenFails(c)
  <2>1. Fails(r, call'[c])
    BY <1>9, <1>4 DEF GenFails, At, Fails, back, tableVars
  <2> QED BY <1>2, <1>9, <1>4, <2>1 DEF Moves, GenFails, At
<1>10. ASSUME NEW v \in Payloads, Generated(c, v)
       PROVE  Generates(r, call'[c]) /\ call' = [call EXCEPT ![c] = call'[c]] /\ r.pc # "new"
  BY <1>1, <1>10 DEF Generated, At, Generates, tableVars
<1>11. CASE FindMiss(c) \/ GetFails(c)
  BY <1>1, <1>2, <1>11
     DEF FindMiss, GetFails, Reads, Forgets, SeenByOthers, Looked, Goto, At, Misses, Moves
<1> QED
  BY <1>2, <1>3, <1>6, <1>8, <1>9, <1>10, <1>11
     DEF SessionQueries, SessionGenerates, QueryStep, Start, At, Moves

\* So are the steps of the batch's call, and what it finds is recorded.
LEMMA JobMoves ==
    ASSUME SupplyTypeOK, JobSound, JobStep
    PROVE  /\ Moves(Job, jobCall[Job], jobCall'[Job])
           /\ jobCall' = [jobCall EXCEPT ![Job] = jobCall'[Job]]
           /\ probed' = IF Finds(Job, jobCall[Job], jobCall'[Job])
                        THEN [probed EXCEPT ![night.key] = Bumped(@)] ELSE probed
<1> DEFINE r == jobCall[Job]
           s == jobCall'[Job]
           Advances == jobCall' = [jobCall EXCEPT ![Job] = s]
<1>1. r \in Call /\ jobCall \in [{Job} -> Call] /\ jobCall[Job] \in Call
  BY DEF SupplyTypeOK, Night!CacheTypeOK, Night!Call, Call, Night!NoValue, NoValue
<1>2. night.pc = "call" /\ r.key = night.key
  BY DEF JobStep, JobSound
<1>3. Night!FindHit(Job) => Finds(Job, r, s) /\ Advances
  BY <1>1 DEF Night!FindHit, Night!At, Night!Reads, Night!SeenByOthers, Looked, Finds
<1> DEFINE back(v, res) == [r EXCEPT !.pc = "returned", !.value = v, !.result = res]
<1>4. ASSUME NEW v, NEW res, Night!Return(Job, v, res)
      PROVE  Advances /\ s = back(v, res)
  BY <1>1, <1>4 DEF Night!Return, Call
<1>5. \A res : back(r.value, res) = [r EXCEPT !.pc = "returned", !.result = res]
  BY <1>1 DEF Call
<1> HIDE DEF back
<1>6. ASSUME Night!CountHit(Job) \/ Night!CountHitFails(Job)
      PROVE  Counts(r, s) /\ Advances
  <2>1. Night!Return(Job, r.value, "hit")
    BY <1>6 DEF Night!CountHit, Night!CountHitFails
  <2>2. s = [r EXCEPT !.pc = "returned", !.result = "hit"] /\ Advances
    BY <1>4, <1>5, <2>1
  <2>3. r.pc = "countHit"
    BY <1>6 DEF Night!CountHit, Night!CountHitFails, Night!At
  <2>4. UNCHANGED <<content, seen>> /\ (IncHit(r.key) \/ UNCHANGED hitCount)
    BY <1>6 DEF Night!CountHit, Night!CountHitFails, Night!tableVars, Night!IncHit, IncHit,
                Night!Bumped, Bumped
  <2> QED BY <2>2, <2>3, <2>4 DEF Counts
<1>7. ASSUME Night!Save(Job) \/ Night!PutFails(Job)
      PROVE  (Puts(Job, r, s) \/ Fails(r, s)) /\ Advances
  <2>1. PICK res \in {"miss", "putError"} : Night!Return(Job, r.value, res)
    BY <1>7 DEF Night!Save, Night!PutFails
  <2>2. s = [r EXCEPT !.pc = "returned", !.result = res] /\ Advances
    BY <1>4, <1>5, <2>1
  <2>3. r.pc = "save"
    BY <1>7 DEF Night!Save, Night!PutFails, Night!At
  <2>4. CASE Night!Stores(Job)
    BY <2>2, <2>3, <2>4 DEF Night!Stores, Night!Put, Puts
  <2>5. CASE Night!PutFails(Job) /\ UNCHANGED <<content, hitCount, seen>>
    <3>1. Night!Return(Job, r.value, "putError")
      BY <2>5 DEF Night!PutFails
    <3>2. s = [r EXCEPT !.pc = "returned", !.result = "putError"]
      BY <1>4, <1>5, <3>1
    <3> QED BY <2>2, <2>3, <2>5, <3>2 DEF Fails
  <2> QED BY <1>7, <2>4, <2>5 DEF Night!Save, Night!PutFails, Night!tableVars
<1>8. ASSUME Night!GenFails(Job)
      PROVE  Fails(r, s) /\ Advances
  <2>1. Night!Return(Job, NoValue, "genError")
    BY <1>8 DEF Night!GenFails, Night!NoValue, NoValue
  <2>2. s = [r EXCEPT !.pc = "returned", !.value = NoValue, !.result = "genError"] /\ Advances
    BY <1>4, <2>1 DEF back
  <2>3. r.pc = "generate" /\ UNCHANGED <<content, hitCount, seen>>
    BY <1>8 DEF Night!GenFails, Night!At, Night!tableVars
  <2> QED BY <2>2, <2>3 DEF Fails
<1>9. ASSUME NEW v \in Payloads, Night!Generated(Job, v)
      PROVE  Generates(r, s) /\ Advances
  BY <1>1, <1>9 DEF Night!Generated, Night!At, Night!tableVars, Generates
<1>10. ASSUME Night!Start(Job)
       PROVE  Begins(r, s) /\ Advances
  BY <1>1, <1>10 DEF Night!Start, Night!Goto, Night!At, Night!tableVars, Begins
<1>11. ASSUME Night!FindMiss(Job) \/ Night!GetFails(Job)
       PROVE  Misses(Job, r, s) /\ Advances
  BY <1>1, <1>11
     DEF Night!FindMiss, Night!GetFails, Night!Reads, Night!Forgets, Night!SeenByOthers, Looked,
         Night!Goto, Night!At, Misses
<1>12. Moves(Job, r, s) /\ Advances
  BY <1>3, <1>6, <1>7, <1>8, <1>9, <1>10, <1>11
     DEF JobStep, Night!QueryStep, Moves
<1>13. Finds(Job, r, s) => Night!FindHit(Job)
  BY <1>12 DEF Finds, Looked, Night!FindHit, Night!At, Night!Reads, Night!SeenByOthers
<1> QED BY <1>3, <1>12, <1>13 DEF JobStep

\* What a move leaves: the call is sound again, and so are the table and
\* whatever other calls hold.
LEMMA MovesSound ==
    ASSUME content \in [Keys -> Stored \cup {NoRow}], hitCount \in [Keys -> 0..MaxCount],
           NEW who \in Callers \cup {Job}, seen \in SUBSET ((Callers \cup {Job}) \X Keys),
           NEW r \in Call, r.key \in PlanKeys, HoldsPayload(r, content),
           NEW s, Moves(who, r, s)
    PROVE  /\ s \in Call /\ s.key = r.key /\ s.pc # "new"
           /\ content' \in [Keys -> Stored \cup {NoRow}]
           /\ hitCount' \in [Keys -> 0..MaxCount]
           /\ seen' \in SUBSET ((Callers \cup {Job}) \X Keys)
           /\ \A k \in Keys : content[k] \in Payloads => content'[k] \in Payloads
           /\ HoldsPayload(s, content')
<1> USE DEF Call
<1>1. r.key \in Keys
  BY PlanKeysAreKeys
<1>2. MaxCount \in Nat
  BY ContentCacheAssumption DEF ContentCacheAssumption
<1>3. CASE Finds(who, r, s)
  <2>1. seen' \in SUBSET ((Callers \cup {Job}) \X Keys)
    BY <1>1, <1>3 DEF Finds, Looked
  <2> QED BY <1>1, <1>3, <2>1 DEF Finds, HoldsPayload
<1>4. CASE Counts(r, s)
  <2>1. hitCount' \in [Keys -> 0..MaxCount]
    BY <1>1, <1>2, <1>4 DEF Counts, IncHit, Bumped
  <2> QED BY <1>1, <1>4, <2>1 DEF Counts, HoldsPayload
<1>5. CASE Puts(who, r, s)
  <2>1. r.value \in Payloads
    BY <1>5 DEF Puts, HoldsPayload
  <2>2. PICK result \in {"miss", "putError"} : s = [r EXCEPT !.pc = "returned", !.result = result]
    BY <1>5 DEF Puts
  <2>3. s \in Call /\ s.key = r.key /\ s.value = r.value /\ s.pc = "returned" /\ s.result = result
    BY <2>2
  <2>4. content' = [content EXCEPT ![r.key] = r.value] /\ hitCount' = hitCount
    BY <1>5 DEF Puts
  <2>5. content' \in [Keys -> Stored \cup {NoRow}]
    BY <2>1, <2>4 DEF Stored
  <2>6. seen' \in SUBSET ((Callers \cup {Job}) \X Keys)
    BY <1>1, <1>5 DEF Puts
  <2>7. \A k \in Keys : content[k] \in Payloads => content'[k] \in Payloads
    BY <1>1, <2>1, <2>4
  <2>8. content'[r.key] = r.value
    BY <1>1, <2>4
  <2>9. HoldsPayload(s, content')
    BY <2>1, <2>3, <2>8 DEF HoldsPayload
  <2> QED BY <2>3, <2>4, <2>5, <2>6, <2>7, <2>9
<1>6. CASE Fails(r, s)
  BY <1>1, <1>6 DEF Fails, HoldsPayload, NoValue
<1>7. CASE Generates(r, s)
  BY <1>1, <1>7 DEF Generates, HoldsPayload
<1>8. CASE Begins(r, s)
  BY <1>1, <1>8 DEF Begins, HoldsPayload
<1>9. CASE Misses(who, r, s)
  <2>1. seen' \in SUBSET ((Callers \cup {Job}) \X Keys)
    BY <1>1, <1>9 DEF Misses, Looked
  <2> QED BY <1>1, <1>9, <2>1 DEF Misses, HoldsPayload
<1> QED BY <1>3, <1>4, <1>5, <1>6, <1>7, <1>8, <1>9 DEF Moves

\* A move leaves no call generating over a payload its caller has seen: the one
\* that moves looked first, and a store takes the key out of all others' sight.
LEMMA MovesServe ==
    ASSUME NEW who, NEW r \in Call, Serves(who, r, content, seen),
           content \in [Keys -> Stored \cup {NoRow}],
           NEW s, Moves(who, r, s)
    PROVE  /\ Serves(who, s, content', seen')
           /\ \A other : \A q \in Call :
                other # who /\ Serves(other, q, content, seen) => Serves(other, q, content', seen')
<1>1. CASE Counts(r, s) \/ Fails(r, s) \/ Generates(r, s) \/ Begins(r, s)
  <2>1. UNCHANGED <<content, seen>>
    BY <1>1 DEF Counts, Fails, Generates, Begins
  <2>2. CASE ~Generates(r, s)
    <3>1. s.pc \notin {"generate", "save"}
      BY <1>1, <2>2 DEF Counts, Fails, Begins, Call
    <3> QED BY <2>1, <3>1 DEF Serves
  <2>3. CASE Generates(r, s)
    <3>1. s.key = r.key /\ r.pc = "generate"
      BY <2>3 DEF Generates, Call
    <3> QED BY <2>1, <3>1 DEF Serves
  <2> QED BY <2>2, <2>3
<1>2. CASE Finds(who, r, s) \/ Misses(who, r, s)
  <2>1. Serves(who, s, content', seen')
    <3>1. CASE Finds(who, r, s)
      <4>1. s.pc = "countHit"
        BY <3>1 DEF Finds, Call
      <4> QED BY <4>1 DEF Serves
    <3>2. CASE Misses(who, r, s)
      <4>1. s.key = r.key /\ UNCHANGED content
        BY <3>2 DEF Misses, Call
      <4>2. content[r.key] \notin Payloads \/ <<who, r.key>> \notin seen'
        BY <3>2 DEF Misses
      <4> QED BY <4>1, <4>2 DEF Serves
    <3> QED BY <1>2, <3>1, <3>2
  <2>2. UNCHANGED content /\ \A other, k : other # who /\ <<other, k>> \in seen' => <<other, k>> \in seen
    BY <1>2 DEF Finds, Misses, Looked
  <2> QED BY <2>1, <2>2 DEF Serves
<1>3. CASE Puts(who, r, s)
  <2>1. s.pc = "returned"
    BY <1>3 DEF Puts, Call
  <2>2. \A other : \A k \in Keys : other # who /\ <<other, k>> \in seen' =>
            <<other, k>> \in seen /\ content'[k] = content[k]
    BY <1>3 DEF Puts
  <2>3. \A q \in Call : q.key \in Keys
    BY DEF Call
  <2> QED BY <2>1, <2>2, <2>3 DEF Serves
<1> QED BY <1>1, <1>2, <1>3 DEF Moves

\* A call that does not move stays sound while the table keeps its payloads.
LEMMA OthersSound ==
    ASSUME NEW r \in Call, HoldsPayload(r, content),
           \A k \in Keys : content[k] \in Payloads => content'[k] \in Payloads
    PROVE  HoldsPayload(r, content')
BY DEF HoldsPayload, Call

\* A new call holds nothing.
LEMMA NewCallSound ==
    ASSUME NEW k \in PlanKeys, NEW table
    PROVE  /\ NewCall(k) \in Call /\ NewCall(k).key = k /\ NewCall(k).pc = "new"
           /\ HoldsPayload(NewCall(k), table)
BY PlanKeysAreKeys DEF NewCall, Call, NoValue, HoldsPayload

-----------------------------------------------------------------------------
\* The hits a key's calls have had.

\* Unless a call begins or ceases to be a hit, nothing changes.
LEMMA HitsStay ==
    ASSUME NEW c \in Callers, NEW s, call \in [Callers -> Call],
           call' = [call EXCEPT ![c] = s],
           s.result # "hit", call[c].result # "hit"
    PROVE  With({"hit"})' = With({"hit"}) /\ \A k \in Keys : Hits(k)' = Hits(k)
<1>1. With({"hit"})' = With({"hit"})
  BY DEF With
<1>2. \A k : (With({"hit"}) \cap OfKey(k))' = With({"hit"}) \cap OfKey(k)
  BY DEF With, OfKey
<1> QED BY <1>1, <1>2 DEF Hits

\* A call that becomes a hit is one more for its key, and for no other.
LEMMA HitsGrow ==
    ASSUME NEW c \in Callers, NEW s, call \in [Callers -> Call],
           call' = [call EXCEPT ![c] = s],
           s.result = "hit", call[c].result # "hit", s.key = call[c].key,
           IsFiniteSet(With({"hit"}))
    PROVE  /\ IsFiniteSet(With({"hit"}))'
           /\ \A k \in Keys : /\ Hits(k) \in Nat
                              /\ Hits(k)' = IF k = call[c].key THEN Hits(k) + 1 ELSE Hits(k)
<1>1. With({"hit"})' = With({"hit"}) \cup {c} /\ c \notin With({"hit"})
  BY DEF With
<1>2. IsFiniteSet(With({"hit"}))'
  BY <1>1, FS_AddElement
<1>3. ASSUME NEW k \in Keys
      PROVE  /\ Hits(k) \in Nat
             /\ Hits(k)' = IF k = call[c].key THEN Hits(k) + 1 ELSE Hits(k)
  <2> DEFINE before == With({"hit"}) \cap OfKey(k)
  <2>1. IsFiniteSet(before) /\ Cardinality(before) \in Nat
    BY FS_Subset, FS_CardinalityType
  <2>2. (With({"hit"}) \cap OfKey(k))' = IF k = call[c].key THEN before \cup {c} ELSE before
    BY DEF With, OfKey
  <2>3. c \notin before
    BY <1>1
  <2> HIDE DEF before
  <2>4. Cardinality(before \cup {c}) = Cardinality(before) + 1
    BY <2>1, <2>3, FS_AddElement
  <2>5. Hits(k) = Cardinality(before)
    BY DEF Hits, before
  <2> QED BY <2>1, <2>2, <2>4, <2>5 DEF Hits
<1> QED BY <1>2, <1>3

\* How many hits a key has is a number.
LEMMA HitsType ==
    ASSUME IsFiniteSet(With({"hit"}))
    PROVE  \A k : Hits(k) \in Nat
<1> SUFFICES ASSUME NEW k PROVE Hits(k) \in Nat
  OBVIOUS
<1>1. IsFiniteSet(With({"hit"}) \cap OfKey(k))
  BY FS_Subset
<1> QED BY <1>1, FS_CardinalityType DEF Hits

LEMMA HitsSame ==
    ASSUME UNCHANGED call
    PROVE  With({"hit"})' = With({"hit"}) /\ \A k : Hits(k)' = Hits(k)
BY DEF With, OfKey, Hits

\* The batch's calls are calls.
LEMMA SameCalls == Night!Call = Call /\ Night!Stored = Stored
BY DEF Night!Call, Call, Night!Stored, Stored, Night!NoValue, NoValue

\* Users are left when one is listed, and it is one of them.
LEMMA UserLevelType ==
    ASSUME SupplyTypeOK, UsersSound, night.pc = "list"
    PROVE  UserLevels[User] \in Levels
<1>1. Len(outcomes) \in Nat /\ Len(outcomes) < Len(UserLevels)
  BY DEF SupplyTypeOK, UsersSound
<1>2. User \in 1..Len(UserLevels)
  BY <1>1, SupplyAssumption DEF User, SupplyAssumption
<1> QED BY <1>2, SupplyAssumption DEF SupplyAssumption

\* One user more is dealt with.
LEMMA EndsUserSound ==
    ASSUME SupplyTypeOK, UsersSound, night.pc \in {"list", "probe", "count", "call"},
           NEW outcome \in Outcomes, EndsUser(outcome)
    PROVE  /\ outcomes' \in Seq(Outcomes)
           /\ night' \in [pc : {"list", "over"}, key : Keys] /\ night'.key = EmptyKey
           /\ UsersSound'
<1>1. Len(outcomes) \in Nat /\ Len(outcomes) < Len(UserLevels) /\ outcomes \in Seq(Outcomes)
  BY DEF SupplyTypeOK, UsersSound
<1>2. outcomes' = Append(outcomes, outcome)
  BY DEF EndsUser
<1>3. outcomes' \in Seq(Outcomes) /\ Len(outcomes') = Len(outcomes) + 1
  BY <1>1, <1>2
<1>4. EmptyKey \in Keys
  BY EmptyKeyType, PlanKeysAreKeys
<1>5. night' = [pc |-> IF User = Len(UserLevels) THEN "over" ELSE "list", key |-> EmptyKey]
  BY DEF EndsUser
<1>6. night' \in [pc : {"list", "over"}, key : Keys] /\ night'.key = EmptyKey
  BY <1>4, <1>5
<1>7. Len(UserLevels) \in Nat
  BY SupplyAssumption DEF SupplyAssumption
<1>8. UsersSound'
  <2>1. CASE User = Len(UserLevels)
    BY <1>1, <1>3, <1>5, <2>1 DEF User, UsersSound
  <2>2. CASE User # Len(UserLevels)
    <3>1. Len(outcomes') < Len(UserLevels) /\ night'.pc = "list"
      BY <1>1, <1>3, <1>5, <1>7, <2>2 DEF User
    <3> QED BY <3>1 DEF UsersSound
  <2> QED BY <2>1, <2>2
<1> QED BY <1>3, <1>6, <1>8

LEMMA SupplyInitSound == SupplyInit => SupplyInv
<1> SUFFICES ASSUME SupplyInit PROVE SupplyInv
  OBVIOUS
<1>1. /\ EmptyKey \in PlanKeys /\ EmptyKey \in Keys /\ MaxCount \in Nat /\ MaxNights \in Nat
      /\ Len(UserLevels) \in Nat
  BY EmptyKeyType, PlanKeysAreKeys, ContentCacheAssumption, SupplyAssumption
     DEF ContentCacheAssumption, SupplyAssumption
<1>2. /\ NewCall(EmptyKey) \in Call /\ NewCall(EmptyKey).key = EmptyKey
      /\ NewCall(EmptyKey).pc = "new" /\ HoldsPayload(NewCall(EmptyKey), content)
  BY <1>1, NewCallSound
<1>3. content \in [Keys -> {NoRow, Undecodable}]
  BY DEF SupplyInit
<1>4. SupplyTypeOK
  <2>1. content \in [Keys -> Stored \cup {NoRow}]
    BY <1>3 DEF Stored
  <2>2. call \in [Callers -> Call] /\ jobCall \in [{Job} -> Call]
    BY <1>2 DEF SupplyInit
  <2>3. outcomes \in Seq(Outcomes)
    BY DEF SupplyInit
  <2> QED BY <1>1, <2>1, <2>2, <2>3, SameCalls
          DEF SupplyInit, SupplyTypeOK, CacheTypeOK, Night!CacheTypeOK
<1>5. CallsSound
  <2>1. \A c \in Callers : call[c] = NewCall(EmptyKey)
    BY DEF SupplyInit
  <2>2. jobCall[Job] = NewCall(EmptyKey)
    BY DEF SupplyInit
  <2> QED BY <1>1, <1>2, <2>1, <2>2 DEF CallsSound
<1>6. ServedSound
  BY DEF SupplyInit, ServedSound, Serves
<1>7. JobSound
  BY <1>2 DEF SupplyInit, JobSound
<1>8. UsersSound
  BY DEF SupplyInit, UsersSound
<1>9. HitsSound
  <2>1. With({"hit"}) = {}
    BY DEF SupplyInit, With, NewCall
  <2>2. IsFiniteSet(With({"hit"}))
    BY <2>1, FS_EmptySet
  <2>3. \A k : Hits(k) \in Nat
    BY <2>2, HitsType
  <2>4. ASSUME NEW k \in Keys
        PROVE  hitCount[k] <= Hits(k) + probed[k]
    BY <2>3 DEF SupplyInit
  <2>5. HitsNeverInvented
    BY <2>4 DEF HitsNeverInvented, Hits
  <2> QED BY <2>2, <2>5 DEF SupplyInit, HitsSound, Owes
<1> QED BY <1>4, <1>5, <1>6, <1>7, <1>8, <1>9 DEF SupplyInv

\* A step of the batch that touches neither the table nor a session.
LEMMA NightKeeps ==
    ASSUME SupplyInv, UNCHANGED <<content, hitCount, call, vocabulary>>, seen' \subseteq seen,
           nights' \in 0..MaxNights,
           night' \in [pc : {"off", "list", "probe", "count", "call", "over"}, key : Keys],
           outcomes' \in Seq(Outcomes),
           jobCall' \in [{Job} -> Call],
           jobCall'[Job].key \in PlanKeys, HoldsPayload(jobCall'[Job], content'),
           jobCall'[Job].pc = "new",
           UNCHANGED probed, ~Owes',
           JobSound', UsersSound'
    PROVE  SupplyInv'
<1> USE DEF SupplyInv
<1>1. SupplyTypeOK'
  BY SameCalls DEF SupplyTypeOK, CacheTypeOK, Night!CacheTypeOK
<1>2. CallsSound'
  BY DEF CallsSound
<1>3. ServedSound'
  BY DEF ServedSound, Serves
<1>4. HitsSound'
  BY HitsSame DEF HitsSound, HitsNeverInvented, Hits
<1> QED BY <1>1, <1>2, <1>3, <1>4

\* Ingest changes the table of words alone.
LEMMA IngestKeeps ==
    ASSUME SupplyInv, NEW file \in WordFiles, Ingest(file)
    PROVE  SupplyInv'
<1> USE DEF Ingest, SupplyInv, cacheVars, tableVars, nightVars
<1>1. vocabulary' \in [Lemmas -> Entry \cup {NoEntry}]
  <2>1. file \in [DOMAIN file -> Entry]
    BY SupplyAssumption DEF SupplyAssumption
  <2> QED BY <2>1 DEF SupplyTypeOK
<1>2. SupplyTypeOK'
  BY <1>1 DEF SupplyTypeOK, CacheTypeOK, Night!CacheTypeOK
<1>3. CallsSound' /\ ServedSound' /\ JobSound' /\ UsersSound'
  BY DEF CallsSound, ServedSound, Serves, JobSound, UsersSound
<1>4. HitsSound'
  BY HitsSame DEF HitsSound, HitsNeverInvented, Hits, Owes
<1> QED BY <1>2, <1>3, <1>4

\* The batch begins, lists, fails to list, misses, ends its call or dies.
LEMMA NightMoves ==
    ASSUME SupplyInv,
           NightStarts \/ NightLists \/ ListFails \/ ProbeMisses \/ JobEnds \/ NightDies
    PROVE  SupplyInv'
<1> USE DEF SupplyInv
<1>1. /\ EmptyKey \in PlanKeys /\ EmptyKey \in Keys /\ PlanKeys \subseteq Keys
      /\ Len(UserLevels) \in Nat /\ MaxNights \in Nat
      /\ UserLevels \in Seq(Levels)
  BY EmptyKeyType, PlanKeysAreKeys, SupplyAssumption DEF SupplyAssumption
<1>2. /\ nights \in 0..MaxNights /\ outcomes \in Seq(Outcomes) /\ jobCall \in [{Job} -> Call]
      /\ night \in [pc : {"off", "list", "probe", "count", "call", "over"}, key : Keys]
      /\ jobCall[Job].key \in PlanKeys /\ HoldsPayload(jobCall[Job], content)
  BY SameCalls DEF SupplyTypeOK, Night!CacheTypeOK, CallsSound
<1>3. ASSUME NEW k \in PlanKeys, jobCall' = [jobCall EXCEPT ![Job] = NewCall(k)]
      PROVE  /\ jobCall' \in [{Job} -> Call] /\ jobCall'[Job].key = k /\ jobCall'[Job].pc = "new"
             /\ \A table : HoldsPayload(jobCall'[Job], table)
  <2>1. jobCall'[Job] = NewCall(k)
    BY <1>2, <1>3
  <2>2. NewCall(k) \in Call /\ NewCall(k).key = k /\ NewCall(k).pc = "new"
    BY NewCallSound
  <2>3. \A table : HoldsPayload(NewCall(k), table)
    BY NewCallSound
  <2> QED BY <1>2, <1>3, <2>1, <2>2, <2>3
<1>4. CASE NightStarts
  <2>1. /\ UNCHANGED <<content, hitCount, seen, call, vocabulary, probed>> /\ outcomes' = <<>>
        /\ nights' \in 0..MaxNights
        /\ jobCall' = [jobCall EXCEPT ![Job] = NewCall(EmptyKey)]
        /\ night' = [pc |-> IF UserLevels = <<>> THEN "over" ELSE "list", key |-> EmptyKey]
    BY <1>2, <1>4, <1>1 DEF NightStarts, cacheVars, tableVars
  <2>2. night' \in [pc : {"list", "over"}, key : Keys]
    BY <1>1, <2>1
  <2>3. JobSound' /\ ~Owes'
    BY <1>1, <1>3, <2>1, <2>2 DEF JobSound, Owes
  <2>4. UsersSound'
    BY <1>1, <2>1 DEF UsersSound
  <2>5. /\ jobCall' \in [{Job} -> Call] /\ jobCall'[Job].key \in PlanKeys
        /\ HoldsPayload(jobCall'[Job], content') /\ jobCall'[Job].pc = "new"
    BY <1>1, <1>3, <2>1
  <2>6. outcomes' \in Seq(Outcomes)
    BY <2>1
  <2> QED BY <1>2, <2>1, <2>2, <2>3, <2>4, <2>5, <2>6, NightKeeps
<1>5. ASSUME NEW outcome \in Outcomes, EndsUser(outcome),
             night.pc \in {"list", "probe", "count", "call"},
             UNCHANGED <<content, hitCount, call, vocabulary, nights, probed>>, seen' \subseteq seen,
             jobCall' \in [{Job} -> Call], jobCall'[Job].key \in PlanKeys,
             HoldsPayload(jobCall'[Job], content'), jobCall'[Job].pc = "new"
      PROVE  SupplyInv'
  <2>1. /\ outcomes' \in Seq(Outcomes) /\ UsersSound'
        /\ night' \in [pc : {"list", "over"}, key : Keys]
    BY <1>5, EndsUserSound
  <2>2. JobSound' /\ ~Owes'
    BY <1>5, <2>1 DEF JobSound, Owes
  <2> QED BY <1>2, <1>5, <2>1, <2>2, NightKeeps
<1>6. ASSUME night.pc # "call", UNCHANGED <<jobCall, content>>
      PROVE  /\ jobCall' \in [{Job} -> Call] /\ jobCall'[Job].key \in PlanKeys
             /\ HoldsPayload(jobCall'[Job], content') /\ jobCall'[Job].pc = "new"
  BY <1>2, <1>6 DEF JobSound
<1>7. CASE NightLists
  <2>1. PICK listed \in ListByCEFR(UserLevels[User]) :
          IF listed = <<>>
          THEN EndsUser("skipped")
          ELSE /\ night' = [pc |-> "probe", key |-> CEFRKey(BatchTargets(listed), UserLevels[User])]
               /\ UNCHANGED outcomes
    BY <1>7 DEF NightLists
  <2>2. /\ night.pc = "list"
        /\ UNCHANGED <<content, hitCount, seen, call, vocabulary, nights, probed, jobCall>>
    BY <1>7 DEF NightLists, cacheVars, tableVars
  <2>3. CASE listed = <<>>
    BY <1>5, <1>6, <2>1, <2>2, <2>3 DEF Outcomes
  <2>4. CASE listed # <<>>
    <3>1. UserLevels[User] \in Levels
      BY <2>2, UserLevelType
    <3> DEFINE key == CEFRKey(BatchTargets(listed), UserLevels[User])
    <3>2. key \in PlanKeys
      BY <3>1, BatchKeyType
    <3>3. night' = [pc |-> "probe", key |-> key] /\ UNCHANGED outcomes
      BY <2>1, <2>4
    <3> HIDE DEF key
    <3>4. night' \in [pc : {"probe"}, key : Keys] /\ night'.key \in PlanKeys
      BY <1>1, <3>2, <3>3
    <3>5. JobSound' /\ ~Owes'
      BY <1>6, <2>2, <3>4 DEF JobSound, Owes
    <3>6. UsersSound'
      BY <2>2, <3>3, <3>4 DEF UsersSound
    <3> QED BY <1>2, <1>6, <2>2, <3>3, <3>4, <3>5, <3>6, NightKeeps
  <2> QED BY <2>3, <2>4
<1>8. CASE ListFails
  BY <1>5, <1>6, <1>8 DEF ListFails, Outcomes, cacheVars, tableVars
<1>9. CASE ProbeMisses
  <2>1. /\ UNCHANGED <<content, hitCount, seen, call, vocabulary, nights, outcomes, probed>>
        /\ night.pc = "probe"
        /\ night' = [night EXCEPT !.pc = "call"]
        /\ jobCall' = [jobCall EXCEPT ![Job] = NewCall(night.key)]
    BY <1>9 DEF ProbeMisses, cacheVars, tableVars
  <2>2. night.key \in PlanKeys
    BY <2>1 DEF JobSound
  <2>3. night' \in [pc : {"call"}, key : Keys] /\ night'.key = night.key
    BY <1>2, <2>1
  <2>4. JobSound' /\ ~Owes'
    BY <1>3, <2>1, <2>2, <2>3 DEF JobSound, Owes
  <2>5. UsersSound'
    BY <2>1, <2>3 DEF UsersSound
  <2> QED BY <1>2, <1>3, <2>1, <2>2, <2>3, <2>4, <2>5, NightKeeps
<1>10. CASE JobEnds
  <2>1. /\ UNCHANGED <<content, hitCount, call, vocabulary, nights, probed>> /\ night.pc = "call"
        /\ seen' \subseteq seen
        /\ EndsUser(IF jobCall[Job].result \in {"hit", "miss"} THEN "saved" ELSE "failed")
        /\ jobCall' = [jobCall EXCEPT ![Job] = NewCall(EmptyKey)]
    BY <1>10 DEF JobEnds, Forgets, SeenByOthers
  <2>2. EndsUser("saved") \/ EndsUser("failed")
    BY <2>1
  <2>3. /\ jobCall' \in [{Job} -> Call] /\ jobCall'[Job].key \in PlanKeys
        /\ HoldsPayload(jobCall'[Job], content') /\ jobCall'[Job].pc = "new"
    BY <1>1, <1>3, <2>1
  <2> QED BY <1>5, <2>1, <2>2, <2>3 DEF Outcomes
<1>11. CASE NightDies
  <2>1. /\ UNCHANGED <<content, hitCount, call, vocabulary, nights, probed>> /\ outcomes' = <<>>
        /\ seen' \subseteq seen
        /\ jobCall' = [jobCall EXCEPT ![Job] = NewCall(EmptyKey)]
        /\ night' = [pc |-> "off", key |-> EmptyKey]
    BY <1>11 DEF NightDies, Forgets, SeenByOthers
  <2>2. JobSound' /\ ~Owes' /\ UsersSound'
    BY <1>1, <1>3, <2>1 DEF JobSound, Owes, UsersSound
  <2>3. night' \in [pc : {"off"}, key : Keys]
    BY <1>1, <2>1
  <2>4. /\ jobCall' \in [{Job} -> Call] /\ jobCall'[Job].key \in PlanKeys
        /\ HoldsPayload(jobCall'[Job], content') /\ jobCall'[Job].pc = "new"
    BY <1>1, <1>3, <2>1
  <2>5. outcomes' \in Seq(Outcomes)
    BY <2>1
  <2> QED BY <1>2, <2>1, <2>2, <2>3, <2>4, <2>5, NightKeeps
<1> QED BY <1>4, <1>7, <1>8, <1>9, <1>10, <1>11

\* What the batch finds leaves room for its count.
LEMMA FoundRoom ==
    ASSUME SupplyTypeOK, HitsSound, UNCHANGED <<hitCount, call>>,
           probed' = [probed EXCEPT ![night.key] = Bumped(@)], night'.key = night.key
    PROVE  HitsSound'
<1>1. MaxCount \in Nat
  BY ContentCacheAssumption DEF ContentCacheAssumption
<1>2. /\ hitCount \in [Keys -> 0..MaxCount] /\ probed \in [Keys -> 0..MaxCount]
      /\ night.key \in Keys
  BY DEF SupplyTypeOK, CacheTypeOK
<1>3. /\ IsFiniteSet(With({"hit"})) /\ With({"hit"})' = With({"hit"})
      /\ \A k : Hits(k)' = Hits(k) /\ Hits(k) \in Nat
  BY HitsSame, HitsType DEF HitsSound
<1>4. \A k \in Keys : hitCount[k] <= Hits(k) + probed[k]
  BY DEF HitsSound, HitsNeverInvented, Hits
<1>5. /\ \A k \in Keys : probed'[k] >= probed[k] /\ probed'[k] \in Nat
      /\ probed'[night.key] > probed[night.key] \/ probed'[night.key] = MaxCount
  BY <1>1, <1>2 DEF Bumped
<1>6. \A k \in Keys : hitCount'[k] <= Hits(k)' + probed'[k]
  BY <1>2, <1>3, <1>4, <1>5
<1>7. \/ hitCount'[night.key] < Hits(night.key) + probed'[night.key]
      \/ probed'[night.key] = MaxCount
  BY <1>2, <1>3, <1>4, <1>5
<1>8. HitsNeverInvented'
  BY <1>6 DEF HitsNeverInvented, Hits
<1>9. Hits(night.key)' = Hits(night.key)
  <2>1. (With({"hit"}) \cap OfKey(night.key))' = With({"hit"}) \cap OfKey(night.key)
    BY DEF With, OfKey
  <2> QED BY <2>1 DEF Hits
<1>10. (hitCount[night.key] < Hits(night.key) + probed[night.key])'
       \/ (probed[night.key] = MaxCount)'
  BY <1>7, <1>9
<1> QED BY <1>3, <1>8, <1>10 DEF HitsSound

\* The count that the batch owes fits.
LEMMA CountedRoom ==
    ASSUME SupplyTypeOK, HitsSound, Owes, UNCHANGED <<probed, call>>,
           IncHit(night.key) \/ UNCHANGED hitCount, ~Owes'
    PROVE  HitsSound'
<1>1. MaxCount \in Nat
  BY ContentCacheAssumption DEF ContentCacheAssumption
<1>2. /\ hitCount \in [Keys -> 0..MaxCount] /\ probed \in [Keys -> 0..MaxCount]
      /\ night.key \in Keys
  BY DEF SupplyTypeOK, CacheTypeOK
<1>3. /\ IsFiniteSet(With({"hit"})) /\ With({"hit"})' = With({"hit"})
      /\ \A k : Hits(k)' = Hits(k) /\ Hits(k) \in Nat
  BY HitsSame, HitsType DEF HitsSound
<1>4. \A k \in Keys : hitCount[k] <= Hits(k) + probed[k]
  BY DEF HitsSound, HitsNeverInvented, Hits
<1>5. \/ hitCount[night.key] < Hits(night.key) + probed[night.key]
      \/ probed[night.key] = MaxCount
  BY DEF HitsSound
<1>6. /\ \A k \in Keys : k # night.key => hitCount'[k] = hitCount[k]
      /\ hitCount'[night.key] <= hitCount[night.key] + 1 /\ hitCount'[night.key] \in 0..MaxCount
  BY <1>1, <1>2 DEF IncHit, Bumped
<1>7. ASSUME NEW k \in Keys
      PROVE  hitCount'[k] <= Hits(k) + probed[k]
  <2>1. CASE k # night.key
    BY <1>4, <1>6, <2>1
  <2>2. CASE k = night.key
    BY <1>2, <1>3, <1>5, <1>6, <2>2
  <2> QED BY <2>1, <2>2
<1>8. \A k \in Keys : hitCount'[k] <= Hits(k)' + probed'[k]
  BY <1>3, <1>7
<1>9. HitsNeverInvented'
  BY <1>8 DEF HitsNeverInvented, Hits
<1> QED BY <1>3, <1>9 DEF HitsSound

LEMMA ProbeKeeps ==
    ASSUME SupplyInv, ProbeHits \/ ProbeCounted
    PROVE  SupplyInv'
<1> USE DEF SupplyInv
<1>1. MaxCount \in Nat
  BY ContentCacheAssumption DEF ContentCacheAssumption
<1>2. /\ hitCount \in [Keys -> 0..MaxCount] /\ probed \in [Keys -> 0..MaxCount]
      /\ night \in [pc : {"off", "list", "probe", "count", "call", "over"}, key : Keys]
  BY DEF SupplyTypeOK, CacheTypeOK
<1>3. CASE ProbeHits
  <2>1. /\ UNCHANGED <<content, hitCount, seen, call, vocabulary, nights, outcomes, jobCall>>
        /\ night.pc = "probe"
        /\ night' = [night EXCEPT !.pc = "count"]
        /\ probed' = [probed EXCEPT ![night.key] = Bumped(@)]
    BY <1>3 DEF ProbeHits, cacheVars, tableVars
  <2>2. night' \in [pc : {"count"}, key : Keys] /\ night'.key = night.key
    BY <1>2, <2>1
  <2>3. probed' \in [Keys -> 0..MaxCount]
    BY <1>1, <1>2, <2>1 DEF Bumped
  <2>4. SupplyTypeOK'
    BY <2>1, <2>2, <2>3 DEF SupplyTypeOK, CacheTypeOK, Night!CacheTypeOK
  <2>5. CallsSound' /\ ServedSound'
    BY <2>1 DEF CallsSound, ServedSound, Serves
  <2>6. JobSound' /\ UsersSound'
    BY <2>1, <2>2 DEF JobSound, UsersSound
  <2>7. HitsSound'
    BY <2>1, <2>2, FoundRoom
  <2> QED BY <2>4, <2>5, <2>6, <2>7
<1>4. CASE ProbeCounted
  <2>1. /\ UNCHANGED <<content, seen, call, vocabulary, nights, probed, jobCall>> /\ night.pc = "count"
        /\ IncHit(night.key) \/ UNCHANGED hitCount
        /\ EndsUser("hit")
    BY <1>4 DEF ProbeCounted
  <2>2. /\ outcomes' \in Seq(Outcomes) /\ UsersSound'
        /\ night' \in [pc : {"list", "over"}, key : Keys]
    BY <2>1, EndsUserSound DEF Outcomes
  <2>3. hitCount' \in [Keys -> 0..MaxCount]
    BY <1>1, <1>2, <2>1 DEF IncHit, Bumped
  <2>4. SupplyTypeOK'
    BY <2>1, <2>2, <2>3 DEF SupplyTypeOK, CacheTypeOK, Night!CacheTypeOK
  <2>5. CallsSound' /\ ServedSound'
    BY <2>1 DEF CallsSound, ServedSound, Serves
  <2>6. JobSound' /\ ~Owes'
    BY <2>1, <2>2 DEF JobSound, Owes
  <2>7. HitsSound'
    BY <2>1, <2>6, CountedRoom DEF Owes
  <2> QED BY <2>2, <2>4, <2>5, <2>6, <2>7
<1> QED BY <1>3, <1>4

\* A session's hit is counted as it is answered, or later than that never.
LEMMA SessionHits ==
    ASSUME SupplyTypeOK, HitsSound, NEW c \in Callers, HoldsPayload(call[c], content),
           Moves(c, call[c], call'[c]), call' = [call EXCEPT ![c] = call'[c]],
           UNCHANGED <<night, jobCall, probed>>
    PROVE  HitsSound'
<1> DEFINE r == call[c]
           s == call'[c]
<1>1. MaxCount \in Nat
  BY ContentCacheAssumption DEF ContentCacheAssumption
<1>2. /\ hitCount \in [Keys -> 0..MaxCount] /\ probed \in [Keys -> 0..MaxCount]
      /\ night.key \in Keys /\ call \in [Callers -> Call] /\ r \in Call /\ r.key \in Keys
  BY DEF SupplyTypeOK, CacheTypeOK, Call
<1>3. IsFiniteSet(With({"hit"})) /\ \A k : Hits(k) \in Nat
  BY HitsType DEF HitsSound
<1>4. \A k \in Keys : hitCount[k] <= Hits(k) + probed[k]
  BY DEF HitsSound, HitsNeverInvented, Hits
<1>5. r.result # "hit"
  BY DEF HoldsPayload, Moves, Finds, Misses, Counts, Puts, Fails, Generates, Begins
<1>6. /\ IsFiniteSet(With({"hit"}))'
      /\ \A k \in Keys :
           hitCount'[k] - hitCount[k] <= Hits(k)' - Hits(k) /\ Hits(k)' >= Hits(k) /\ Hits(k)' \in Nat
  <2>1. CASE Counts(r, s)
    <3>1. s.result = "hit" /\ s.key = r.key
      BY <1>2, <2>1 DEF Counts, Call
    <3>2. /\ IsFiniteSet(With({"hit"}))'
          /\ \A k \in Keys : Hits(k)' = IF k = r.key THEN Hits(k) + 1 ELSE Hits(k)
      BY <1>2, <1>3, <1>5, <3>1, HitsGrow
    <3>3. \A k \in Keys : /\ k # r.key => hitCount'[k] = hitCount[k]
                          /\ hitCount'[r.key] <= hitCount[r.key] + 1 /\ hitCount'[k] \in Nat
      BY <1>1, <1>2, <2>1 DEF Counts, IncHit, Bumped
    <3> QED BY <1>2, <1>3, <3>2, <3>3
  <2>2. CASE ~Counts(r, s)
    <3>1. hitCount' = hitCount /\ s.result # "hit"
      BY <1>2, <1>5, <2>2 DEF Moves, Finds, Misses, Puts, Fails, Generates, Begins, Call
    <3>2. With({"hit"})' = With({"hit"}) /\ \A k \in Keys : Hits(k)' = Hits(k)
      BY <1>2, <1>5, <3>1, HitsStay
    <3> QED BY <1>2, <1>3, <3>1, <3>2
  <2> QED BY <2>1, <2>2
<1>7. hitCount' \in [Keys -> 0..MaxCount]
  <2>1. hitCount' = hitCount \/ IncHit(r.key)
    BY <1>1, <1>2 DEF Moves, Finds, Misses, Counts, Puts, Fails, Generates, Begins
  <2> QED BY <1>1, <1>2, <2>1 DEF IncHit, Bumped
<1>8. ASSUME NEW k \in Keys
      PROVE  /\ hitCount'[k] <= Hits(k)' + probed[k]
             /\ hitCount[k] < Hits(k) + probed[k] => hitCount'[k] < Hits(k)' + probed[k]
  BY <1>2, <1>3, <1>4, <1>6, <1>7
<1>9. HitsNeverInvented'
  BY <1>8 DEF HitsNeverInvented, Hits
<1>10. Owes' => \/ hitCount[night.key] < Hits(night.key) + probed[night.key]
                \/ probed[night.key] = MaxCount
  BY DEF HitsSound, Owes
<1>11. Owes' => \/ hitCount'[night.key] < Hits(night.key)' + probed[night.key]
                \/ probed[night.key] = MaxCount
  <2>1. Hits(night.key)' = Cardinality(With({"hit"})' \cap {d \in Callers : call'[d].key = night.key})
    BY DEF Hits, OfKey
  <2>2. PICK k \in Keys : k = night.key
    BY <1>2
  <2>3. Hits(k)' = Hits(night.key)' /\ Hits(k) = Hits(night.key)
    BY <2>1, <2>2 DEF Hits, OfKey
  <2> QED BY <1>8, <1>10, <2>2, <2>3
<1> QED BY <1>6, <1>9, <1>11 DEF HitsSound

\* A step of a session's call of the cache.
LEMMA SessionKeeps ==
    ASSUME SupplyInv, NEW c \in Callers, SessionQueries(c) \/ SessionGenerates(c)
    PROVE  SupplyInv'
<1> USE DEF SupplyInv
<1> DEFINE r == call[c]
           s == call'[c]
<1>1. /\ Moves(c, r, s) /\ call' = [call EXCEPT ![c] = s]
      /\ UNCHANGED <<vocabulary, nightVars>>
  BY SessionMoves
<1>2. /\ content \in [Keys -> Stored \cup {NoRow}] /\ hitCount \in [Keys -> 0..MaxCount]
      /\ call \in [Callers -> Call] /\ jobCall \in [{Job} -> Call]
      /\ seen \in SUBSET ((Callers \cup {Job}) \X Keys)
  BY SameCalls DEF SupplyTypeOK, CacheTypeOK, Night!CacheTypeOK
<1>3. /\ \A d \in Callers : call[d] \in Call /\ call[d].key \in PlanKeys /\ HoldsPayload(call[d], content)
      /\ jobCall[Job] \in Call /\ jobCall[Job].key \in PlanKeys /\ HoldsPayload(jobCall[Job], content)
  BY <1>2 DEF CallsSound
<1>4. /\ s \in Call /\ s.key = r.key
      /\ content' \in [Keys -> Stored \cup {NoRow}] /\ hitCount' \in [Keys -> 0..MaxCount]
      /\ seen' \in SUBSET ((Callers \cup {Job}) \X Keys)
      /\ \A k \in Keys : content[k] \in Payloads => content'[k] \in Payloads
      /\ HoldsPayload(s, content')
  BY <1>1, <1>2, <1>3, MovesSound
<1>5. SupplyTypeOK'
  <2>1. call' \in [Callers -> Call]
    BY <1>1, <1>2, <1>4
  <2> QED BY <1>1, <1>4, <2>1, SameCalls
          DEF SupplyTypeOK, CacheTypeOK, Night!CacheTypeOK, nightVars
<1>6. CallsSound'
  <2>1. \A d \in Callers : HoldsPayload(call[d], content')
    BY <1>3, <1>4, OthersSound
  <2>2. ASSUME NEW d \in Callers
        PROVE  call'[d].key \in PlanKeys /\ HoldsPayload(call'[d], content')
    <3>1. CASE d = c
      BY <1>3, <1>4, <3>1
    <3>2. CASE d # c
      <4>1. call'[d] = call[d]
        BY <1>1, <1>2, <3>2
      <4> QED BY <1>3, <2>1, <4>1
    <3> QED BY <3>1, <3>2
  <2>3. HoldsPayload(jobCall[Job], content')
    BY <1>3, <1>4, OthersSound
  <2> QED BY <1>1, <1>3, <2>2, <2>3 DEF CallsSound, nightVars
<1>7. JobSound' /\ UsersSound'
  BY <1>1 DEF JobSound, UsersSound, nightVars
<1>8. HitsSound'
  BY <1>1, <1>3, SessionHits DEF nightVars
<1>9. ServedSound'
  <2>1. /\ Serves(c, s, content', seen')
        /\ \A other : \A q \in Call :
             other # c /\ Serves(other, q, content, seen) => Serves(other, q, content', seen')
    <3>1. Serves(c, r, content, seen)
      BY DEF ServedSound
    <3> QED BY <1>1, <1>2, <1>3, <3>1, MovesServe
  <2>2. ASSUME NEW d \in Callers
        PROVE  Serves(d, call'[d], content', seen')
    <3>1. CASE d = c
      BY <2>1, <3>1
    <3>2. CASE d # c
      <4>1. call'[d] = call[d] /\ Serves(d, call[d], content, seen)
        BY <1>1, <1>2, <3>2 DEF ServedSound
      <4> QED BY <1>3, <2>1, <3>2, <4>1
    <3> QED BY <3>1, <3>2
  <2>3. Job # c
    BY SupplyAssumption DEF SupplyAssumption
  <2>4. Serves(Job, jobCall[Job], content', seen')
    BY <1>3, <2>1, <2>3 DEF ServedSound
  <2> QED BY <1>1, <2>2, <2>4 DEF ServedSound, nightVars
<1> QED BY <1>5, <1>6, <1>7, <1>8, <1>9

\* A session's plan becomes a key.
LEMMA PlanKeeps ==
    ASSUME SupplyInv, NEW c \in Callers, NEW level \in Levels, NEW named \in Answers,
           PlanReady(c, level, named)
    PROVE  SupplyInv'
<1> USE DEF SupplyInv
<1> DEFINE key == CEFRKey(SessionTargets(PostProcess(named, {}, 0)), level)
           s == [NewCall(key) EXCEPT !.pc = "lookup"]
<1>1. /\ call[c].pc = "new" /\ call' = [call EXCEPT ![c] = s]
      /\ UNCHANGED <<content, hitCount, seen, vocabulary, nights, night, outcomes, probed, jobCall>>
  BY DEF PlanReady, At, tableVars, nightVars
<1>2. key \in PlanKeys /\ key \in Keys
  BY SessionKeyType, PlanKeysAreKeys
<1> HIDE DEF key
<1>3. /\ s \in Call /\ s.key = key /\ s.result = "none" /\ HoldsPayload(s, content)
      /\ s.pc = "lookup"
  BY <1>2 DEF NewCall, Call, NoValue, HoldsPayload
<1> HIDE DEF s
<1>4. call \in [Callers -> Call]
  BY DEF SupplyTypeOK, CacheTypeOK
<1>5. call' \in [Callers -> Call]
  BY <1>1, <1>3, <1>4
<1>6. SupplyTypeOK'
  BY <1>1, <1>5 DEF SupplyTypeOK, CacheTypeOK, Night!CacheTypeOK
<1>7. CallsSound'
  BY <1>1, <1>2, <1>3, <1>4 DEF CallsSound
<1>8. ServedSound' /\ JobSound' /\ UsersSound'
  <2>1. \A d \in Callers : call'[d] = IF d = c THEN s ELSE call[d]
    BY <1>1, <1>4
  <2>2. ServedSound'
    BY <1>1, <1>3, <2>1 DEF ServedSound, Serves
  <2> QED BY <1>1, <2>2 DEF JobSound, UsersSound
<1>9. HitsSound'
  <2>1. call[c].result # "hit"
    BY <1>1 DEF CallsSound, HoldsPayload
  <2>2. With({"hit"})' = With({"hit"}) /\ \A k : (With({"hit"}) \cap OfKey(k))' = With({"hit"}) \cap OfKey(k)
    BY <1>1, <1>3, <1>4, <2>1 DEF With, OfKey
  <2>3. Hits(night.key)' = Hits(night.key)
    <3>1. (With({"hit"}) \cap OfKey(night.key))' = With({"hit"}) \cap OfKey(night.key)
      BY <1>1, <1>3, <1>4, <2>1 DEF With, OfKey
    <3> QED BY <3>1 DEF Hits
  <2>4. HitsNeverInvented'
    BY <1>1, <2>2 DEF HitsSound, HitsNeverInvented
  <2> QED BY <1>1, <2>2, <2>3, <2>4 DEF HitsSound, Owes
<1> QED BY <1>6, <1>7, <1>8, <1>9

\* A step of the batch's call of the cache.
LEMMA JobKeeps ==
    ASSUME SupplyInv, JobStep
    PROVE  SupplyInv'
<1> USE DEF SupplyInv
<1> DEFINE r == jobCall[Job]
           s == jobCall'[Job]
<1>1. /\ Moves(Job, r, s) /\ jobCall' = [jobCall EXCEPT ![Job] = s]
      /\ UNCHANGED <<call, vocabulary, nights, night, outcomes>>
      /\ probed' = IF Finds(Job, r, s) THEN [probed EXCEPT ![night.key] = Bumped(@)] ELSE probed
      /\ night.pc = "call" /\ r.key = night.key
  BY JobMoves DEF JobStep, JobSound
<1>2. /\ content \in [Keys -> Stored \cup {NoRow}] /\ hitCount \in [Keys -> 0..MaxCount]
      /\ call \in [Callers -> Call] /\ jobCall \in [{Job} -> Call]
      /\ probed \in [Keys -> 0..MaxCount] /\ MaxCount \in Nat /\ night.key \in Keys
      /\ seen \in SUBSET ((Callers \cup {Job}) \X Keys)
  BY SameCalls, ContentCacheAssumption
     DEF SupplyTypeOK, CacheTypeOK, Night!CacheTypeOK, ContentCacheAssumption
<1>3. /\ \A d \in Callers : call[d] \in Call /\ call[d].key \in PlanKeys /\ HoldsPayload(call[d], content)
      /\ r \in Call /\ r.key \in PlanKeys /\ HoldsPayload(r, content)
  BY <1>2 DEF CallsSound
<1>4. /\ s \in Call /\ s.key = r.key /\ s.pc # "new"
      /\ content' \in [Keys -> Stored \cup {NoRow}] /\ hitCount' \in [Keys -> 0..MaxCount]
      /\ seen' \in SUBSET ((Callers \cup {Job}) \X Keys)
      /\ \A k \in Keys : content[k] \in Payloads => content'[k] \in Payloads
      /\ HoldsPayload(s, content')
  <2>1. Job \in Callers \cup {Job}
    OBVIOUS
  <2> HIDE DEF r, s
  <2> QED BY <1>1, <1>2, <1>3, <2>1, MovesSound
<1>5. SupplyTypeOK'
  <2>1. jobCall' \in [{Job} -> Call]
    BY <1>1, <1>2, <1>4
  <2>2. probed' \in [Keys -> 0..MaxCount]
    BY <1>1, <1>2 DEF Bumped
  <2> QED BY <1>1, <1>4, <2>1, <2>2, SameCalls DEF SupplyTypeOK, CacheTypeOK, Night!CacheTypeOK
<1>6. CallsSound'
  <2>1. \A d \in Callers : HoldsPayload(call[d], content')
    BY <1>3, <1>4, OthersSound
  <2> QED BY <1>1, <1>3, <1>4, <2>1 DEF CallsSound
<1>7. JobSound' /\ UsersSound'
  BY <1>1, <1>4 DEF JobSound, UsersSound
<1>8. HitsSound'
  <2>1. CASE Finds(Job, r, s)
    BY <1>1, <2>1, FoundRoom DEF Finds
  <2>2. CASE Counts(r, s)
    <3>1. Owes /\ ~Owes'
      BY <1>1, <1>2, <2>2 DEF Counts, Owes, Call
    <3>2. probed' = probed /\ (IncHit(night.key) \/ UNCHANGED hitCount)
      BY <1>1, <2>2 DEF Counts, Finds
    <3> QED BY <1>1, <3>1, <3>2, CountedRoom
  <2>3. CASE ~Finds(Job, r, s) /\ ~Counts(r, s)
    <3>1. probed' = probed /\ hitCount' = hitCount /\ ~Owes'
      BY <1>1, <1>3, <2>3 DEF Moves, Misses, Puts, Fails, Generates, Begins, Owes, Call
    <3>2. With({"hit"})' = With({"hit"}) /\ \A k : Hits(k)' = Hits(k)
      BY <1>1, HitsSame
    <3> QED BY <3>1, <3>2 DEF HitsSound, HitsNeverInvented, Hits
  <2> QED BY <2>1, <2>2, <2>3
<1>9. ServedSound'
  <2>1. Serves(Job, r, content, seen)
    BY DEF ServedSound
  <2>2. /\ Serves(Job, s, content', seen')
        /\ \A other : \A q \in Call :
             other # Job /\ Serves(other, q, content, seen) => Serves(other, q, content', seen')
    BY <1>1, <1>2, <1>3, <2>1, MovesServe
  <2>3. \A d \in Callers : d # Job /\ Serves(d, call[d], content, seen)
    BY SupplyAssumption DEF SupplyAssumption, ServedSound
  <2>4. \A d \in Callers : Serves(d, call[d], content', seen')
    BY <1>3, <2>2, <2>3
  <2> QED BY <1>1, <2>2, <2>4 DEF ServedSound
<1> QED BY <1>5, <1>6, <1>7, <1>8, <1>9

LEMMA SupplyStep == SupplyInv /\ [SupplyNext]_supplyVars => SupplyInv'
<1> SUFFICES ASSUME SupplyInv, [SupplyNext]_supplyVars PROVE SupplyInv'
  OBVIOUS
<1>1. CASE UNCHANGED supplyVars
  <2>1. UNCHANGED <<content, hitCount, seen, call, vocabulary, nights, night, outcomes, probed, jobCall>>
    BY <1>1 DEF supplyVars, cacheVars, tableVars, nightVars
  <2>2. SupplyTypeOK' /\ CallsSound' /\ ServedSound' /\ JobSound' /\ UsersSound'
    BY <2>1 DEF SupplyInv, SupplyTypeOK, CacheTypeOK, Night!CacheTypeOK, CallsSound, ServedSound,
                Serves, JobSound, UsersSound
  <2>3. HitsSound'
    BY <2>1, HitsSame DEF SupplyInv, HitsSound, HitsNeverInvented, Hits, Owes
  <2> QED BY <2>2, <2>3 DEF SupplyInv
<1>2. CASE \E file \in WordFiles : Ingest(file)
  BY <1>2, IngestKeeps
<1>3. CASE NightStep
  BY <1>3, NightMoves, ProbeKeeps, JobKeeps DEF NightStep, NightWorks
<1>4. ASSUME NEW c \in Callers,
             \/ \E level \in Levels, named \in Answers : PlanReady(c, level, named)
             \/ SessionQueries(c) \/ SessionGenerates(c)
      PROVE  SupplyInv'
  BY <1>4, PlanKeeps, SessionKeeps
<1> QED BY <1>1, <1>2, <1>3, <1>4 DEF SupplyNext

LEMMA SupplyInvariance == SupplySpec => []SupplyInv
<1> QED BY SupplyInitSound, SupplyStep, PTL DEF SupplySpec

\* For every number of sessions, users, words and nights: whoever of the two
\* processes stored a payload, neither generates over it after finding its key
\* without one, unless the other has stored there meanwhile.
THEOREM StoredServes == SupplySpec => []StoredIsServed
<1>1. SupplyInv => StoredIsServed
  <2> SUFFICES ASSUME SupplyInv PROVE StoredIsServed
    OBVIOUS
  <2>1. PayloadsAreServed
    BY DEF SupplyInv, ServedSound, Serves, PayloadsAreServed, Sees
  <2>2. Night!PayloadsAreServed
    BY DEF SupplyInv, ServedSound, Serves, Night!PayloadsAreServed, Night!Sees
  <2> QED BY <2>1, <2>2 DEF StoredIsServed
<1> QED BY <1>1, SupplyInvariance, PTL

\* What was answered stays servable also when a second process writes the
\* table.
THEOREM ServableBesideTheBatch == SupplySpec => []AnsweredKeysStayServable
<1>1. SupplyInv => AnsweredKeysStayServable
  <2> SUFFICES ASSUME SupplyInv, NEW c \in With({"hit", "miss"})
               PROVE  content[call[c].key] \in Payloads
    BY DEF AnsweredKeysStayServable
  <2>1. c \in Callers /\ call[c].result \in {"hit", "miss"}
    BY DEF With
  <2> QED BY <2>1 DEF SupplyInv, CallsSound, HoldsPayload
<1> QED BY <1>1, SupplyInvariance, PTL

\* The hits of the statistics page are never more than were found, by however
\* many sessions and nights.
THEOREM HitsWereFound == SupplySpec => []HitsNeverInvented
<1>1. SupplyInv => HitsNeverInvented
  BY DEF SupplyInv, HitsSound
<1> QED BY <1>1, SupplyInvariance, PTL

-----------------------------------------------------------------------------
\* curriculum.postProcess.

\* The words that are left, each once, in the order of their first mention.
Kept(named, recent) == Dedup(Filter(named, Lemmas \ recent))

Place(firsts, i) == Cardinality({j \in firsts : j <= i})

\* What is left has a place for every first mention, in their order.
KeptFits(named, recent) ==
    LET firsts == FirstNamed(named, recent)
        kept == Kept(named, recent)
    IN  /\ kept \in Seq(Lemmas)
        /\ ToSet(kept) = ToSet(named) \ recent
        /\ IsFiniteSet(firsts) /\ Cardinality(firsts) = Len(kept)
        /\ \A i \in firsts : /\ Place(firsts, i) \in 1..Len(kept)
                             /\ kept[Place(firsts, i)] = named[i]

\* A word that is appended is a first mention at the end, or changes nothing.
LEMMA KeptAppend ==
    ASSUME NEW recent, NEW named \in Seq(Lemmas), NEW e \in Lemmas, KeptFits(named, recent)
    PROVE  KeptFits(Append(named, e), recent)
<1> DEFINE longer == Append(named, e)
           n == Len(named)
           firsts == FirstNamed(named, recent)
           kept == Kept(named, recent)
           fresh == e \notin recent /\ e \notin ToSet(named)
<1>1. /\ n \in Nat /\ DOMAIN named = 1..n /\ DOMAIN longer = 1..(n + 1)
      /\ longer[n + 1] = e /\ \A i \in 1..n : longer[i] = named[i]
  OBVIOUS
<1>2. /\ kept \in Seq(Lemmas) /\ ToSet(kept) = ToSet(named) \ recent
      /\ IsFiniteSet(firsts) /\ Cardinality(firsts) = Len(kept)
      /\ \A i \in firsts : Place(firsts, i) \in 1..Len(kept) /\ kept[Place(firsts, i)] = named[i]
  BY DEF KeptFits
<1>3. firsts \subseteq 1..n
  BY <1>1 DEF FirstNamed
<1>4. Kept(longer, recent) = IF fresh THEN Append(kept, e) ELSE kept
  <2> DEFINE allowed == Filter(named, Lemmas \ recent)
  <2>1. allowed \in Seq(Lemmas)
    <3>1. allowed \in Seq(Lemmas \cap (Lemmas \ recent))
      BY FilterType
    <3> HIDE DEF allowed
    <3> QED BY <3>1
  <2>2. Filter(longer, Lemmas \ recent) = IF e \in Lemmas \ recent THEN Append(allowed, e) ELSE allowed
    BY FilterAppend
  <2>3. kept = Dedup(allowed)
    BY DEF Kept
  <2> HIDE DEF allowed, kept, longer
  <2>4. Dedup(Append(allowed, e)) = IF e \in ToSet(kept) THEN kept ELSE Append(kept, e)
    BY <2>1, <2>3, DedupAppend
  <2> QED BY <1>2, <2>2, <2>3, <2>4 DEF Kept
<1>5. FirstNamed(longer, recent) = IF fresh THEN firsts \cup {n + 1} ELSE firsts
  <2>1. e \in ToSet(named) <=> \E j \in 1..n : named[j] = e
    BY <1>1 DEF ToSet
  <2>2. \A i \in 1..n : i \in FirstNamed(longer, recent) <=> i \in firsts
    <3> SUFFICES ASSUME NEW i \in 1..n
                 PROVE  i \in FirstNamed(longer, recent) <=> i \in firsts
      OBVIOUS
    <3>1. \A j \in 1..(i - 1) : longer[j] = named[j]
      BY <1>1
    <3>2. i \in 1..(n + 1) /\ longer[i] = named[i]
      BY <1>1
    <3> HIDE DEF longer, n
    <3> QED BY <1>1, <3>1, <3>2 DEF FirstNamed
  <2>3. n + 1 \in FirstNamed(longer, recent) <=> fresh
    <3>1. n + 1 \in 1..(n + 1) /\ 1..((n + 1) - 1) = 1..n
      BY <1>1
    <3> HIDE DEF longer, n
    <3> QED BY <1>1, <2>1, <3>1 DEF FirstNamed
  <2>4. FirstNamed(longer, recent) \subseteq 1..(n + 1)
    BY <1>1 DEF FirstNamed
  <2>5. 1..(n + 1) = 1..n \cup {n + 1} /\ n + 1 \notin 1..n
    BY <1>1
  <2> DEFINE indices == 1..n
             last == n + 1
             all == FirstNamed(longer, recent)
  <2>6. /\ all \subseteq indices \cup {last} /\ firsts \subseteq indices /\ last \notin indices
        /\ \A i \in indices : i \in all <=> i \in firsts
        /\ last \in all <=> fresh
    BY <1>3, <2>2, <2>3, <2>4, <2>5
  <2> HIDE DEF indices, last, all, firsts, fresh
  <2>7. CASE fresh
    <3>1. all = firsts \cup {last}
      BY <2>6, <2>7
    <3> QED BY <2>7, <3>1 DEF all, last
  <2>8. CASE ~fresh
    <3>1. all = firsts
      BY <2>6, <2>8
    <3> QED BY <2>8, <3>1 DEF all
  <2> QED BY <2>7, <2>8
<1>6. ToSet(longer) = ToSet(named) \cup {e}
  <2>1. 1..(n + 1) = 1..n \cup {n + 1}
    BY <1>1
  <2> HIDE DEF longer, n
  <2> QED BY <1>1, <2>1 DEF ToSet
<1> HIDE DEF firsts, kept, longer, n
<1>7. ASSUME ~fresh PROVE KeptFits(longer, recent)
  <2>1. FirstNamed(longer, recent) = firsts /\ Kept(longer, recent) = kept
    BY <1>4, <1>5, <1>7
  <2>2. ToSet(longer) \ recent = ToSet(named) \ recent
    BY <1>6, <1>7
  <2>3. \A i \in firsts : longer[i] = named[i]
    BY <1>1, <1>3
  <2> QED BY <1>2, <2>1, <2>2, <2>3 DEF KeptFits
<1>8. ASSUME fresh PROVE KeptFits(longer, recent)
  <2> DEFINE more == firsts \cup {n + 1}
             fuller == Append(kept, e)
  <2>1. FirstNamed(longer, recent) = more /\ Kept(longer, recent) = fuller
    BY <1>4, <1>5, <1>8
  <2>2. /\ fuller \in Seq(Lemmas) /\ Len(fuller) = Len(kept) + 1 /\ Len(kept) \in Nat
        /\ fuller[Len(kept) + 1] = e /\ \A i \in 1..Len(kept) : fuller[i] = kept[i]
    BY <1>2
  <2>3. n + 1 \notin firsts
    BY <1>1, <1>3
  <2>4. IsFiniteSet(more) /\ Cardinality(more) = Len(fuller)
    BY <1>2, <2>2, <2>3, FS_AddElement
  <2>5. ToSet(fuller) = ToSet(longer) \ recent
    <3>1. ToSet(fuller) = ToSet(kept) \cup {e}
      <4>1. DOMAIN fuller = 1..(Len(kept) + 1) /\ DOMAIN kept = 1..Len(kept)
            /\ 1..(Len(kept) + 1) = 1..Len(kept) \cup {Len(kept) + 1}
        BY <1>2, <2>2
      <4> HIDE DEF fuller
      <4> QED BY <2>2, <4>1 DEF ToSet
    <3> HIDE DEF fuller
    <3> QED BY <1>2, <1>6, <1>8, <3>1
  <2> HIDE DEF fuller
  <2>6. ASSUME NEW i \in more
        PROVE  Place(more, i) \in 1..Len(fuller) /\ fuller[Place(more, i)] = longer[i]
    <3>1. CASE i \in firsts
      <4>1. i \in 1..n /\ ~(n + 1 <= i)
        BY <1>1, <1>3, <3>1
      <4>2. {j \in more : j <= i} = {j \in firsts : j <= i}
        BY <4>1
      <4>3. Place(more, i) = Place(firsts, i)
        BY <4>2 DEF Place
      <4> QED BY <1>1, <1>2, <2>2, <3>1, <4>1, <4>3
    <3>2. CASE i = n + 1
      <4>1. {j \in more : j <= i} = more
        <5>1. \A j \in firsts : j <= i
          BY <1>1, <1>3, <3>2
        <5>2. i <= i
          BY <1>1, <3>2
        <5> QED BY <3>2, <5>1, <5>2
      <4>2. Place(more, i) = Len(kept) + 1
        BY <2>2, <2>4, <4>1 DEF Place
      <4> QED BY <1>1, <2>2, <3>2, <4>2
    <3> QED BY <3>1, <3>2
  <2> HIDE DEF more
  <2> QED BY <2>1, <2>2, <2>4, <2>5, <2>6 DEF KeptFits
<1> QED BY <1>7, <1>8 DEF longer

LEMMA KeptAlwaysFits ==
    ASSUME NEW recent
    PROVE  \A named \in Seq(Lemmas) : KeptFits(named, recent)
<1> DEFINE G == {s \in Seq(Lemmas) : KeptFits(s, recent)}
<1>1. <<>> \in G
  <2>1. Kept(<<>>, recent) = <<>>
    BY FilterEmpty, DedupEmpty DEF Kept
  <2>2. FirstNamed(<<>>, recent) = {}
    BY DEF FirstNamed
  <2>3. <<>> \in Seq(Lemmas) /\ ToSet(<<>>) = {} /\ Len(<<>>) = 0
    BY DEF ToSet
  <2>4. KeptFits(<<>>, recent)
    BY <2>1, <2>2, <2>3, FS_EmptySet DEF KeptFits
  <2> QED BY <2>3, <2>4
<1>2. ASSUME NEW s \in Seq(Lemmas), NEW e \in Lemmas, s \in G
      PROVE  Append(s, e) \in G
  <2>1. KeptFits(Append(s, e), recent)
    BY <1>2, KeptAppend
  <2>2. Append(s, e) \in Seq(Lemmas)
    OBVIOUS
  <2> QED BY <2>1, <2>2
<1> HIDE DEF G
<1>3. \A s \in Seq(Lemmas) : s \in G
  BY <1>1, <1>2, SequenceInduction
<1> QED BY <1>3 DEF G

\* For every answer of a model, however long, every set of recent words and
\* every absence: the plan is the first allowed words in the order they were
\* named, each once, as many as the limit admits; a repetition or a recent word
\* costs no place.
THEOREM PlansFit ==
    ASSUME NEW named \in Seq(Lemmas), NEW recent, NEW days \in Int
    PROVE  FitsPromises(PostProcess(named, recent, days), named, recent, TargetLimit(days))
<1> DEFINE firsts == FirstNamed(named, recent)
           kept == Kept(named, recent)
           limit == TargetLimit(days)
           plan == PostProcess(named, recent, days)
<1>1. limit \in Nat
  BY TargetLimitType
<1>2. /\ kept \in Seq(Lemmas) /\ Cardinality(firsts) = Len(kept)
      /\ \A i \in firsts : Place(firsts, i) \in 1..Len(kept) /\ kept[Place(firsts, i)] = named[i]
  BY KeptAlwaysFits DEF KeptFits
<1>3. plan = IF Len(kept) > limit THEN SubSeq(kept, 1, limit) ELSE kept
  BY DEF PostProcess, Kept, TrimTo
<1> HIDE DEF firsts, kept, limit, plan
<1>4. Len(plan) = IF Len(kept) < limit THEN Len(kept) ELSE limit
  BY <1>1, <1>2, <1>3
<1>5. \A p \in 1..Len(kept) : p <= limit => plan[p] = kept[p]
  BY <1>1, <1>2, <1>3
<1>6. \A i \in firsts : Place(firsts, i) <= limit => plan[Place(firsts, i)] = named[i]
  BY <1>2, <1>5
<1> QED BY <1>2, <1>4, <1>6 DEF FitsPromises, Place, firsts, plan, limit

\* So it is for the words of the table in every state.
THEOREM PlansKeepPromises == SupplySpec => []PlanKeepsPromises
<1>1. PlanKeepsPromises
  <2> SUFFICES ASSUME NEW named \in BoundedSeq(Known, MaxTargets + 2),
                      NEW recent \in SUBSET Known, NEW days \in {0, CircuitBreakDaysCutoff}
               PROVE  FitsPromises(PostProcess(named, recent, days), named, recent, TargetLimit(days))
    BY DEF PlanKeepsPromises
  <2>1. MaxTargets + 2 \in Nat
    BY SupplyAssumption DEF SupplyAssumption
  <2>2. named \in Seq(Known)
    BY <2>1, BoundedSeqs
  <2>3. named \in Seq(Lemmas)
    BY <2>2 DEF Known
  <2>4. days \in Int
    BY DEF CircuitBreakDaysCutoff
  <2> QED BY <2>3, <2>4, PlansFit
<1> QED BY <1>1, PTL
=============================================================================
