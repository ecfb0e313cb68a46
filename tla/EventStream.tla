---------------------------- MODULE EventStream ----------------------------
(***************************************************************************)
(* What a stream of events promises its reader: the events arrive in the   *)
(* order they were sent, each once and whole; nothing but a broken         *)
(* connection keeps one back; and nothing arrives after the end.           *)
(***************************************************************************)
EXTENDS Naturals

VARIABLES
    total,      \* the events the sender has to send
    arrived,    \* how many of them have arrived: the first ones
    lost,       \* the connection is broken
    closed      \* the sender is done

streamVars == <<total, arrived, lost, closed>>

Init == arrived = 0 /\ lost = FALSE /\ closed = FALSE

Deliver ==
    /\ ~closed /\ ~lost /\ arrived < total
    /\ arrived' = arrived + 1
    /\ UNCHANGED <<total, lost, closed>>

Lose == lost' = TRUE /\ UNCHANGED <<total, arrived, closed>>

Close ==
    /\ lost \/ arrived = total
    /\ closed' = TRUE
    /\ UNCHANGED <<total, arrived, lost>>

Next == Deliver \/ Lose \/ Close

Spec == Init /\ [][Next]_streamVars
============================================================================
