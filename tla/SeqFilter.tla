------------------------------ MODULE SeqFilter ------------------------------
(***************************************************************************)
(* The members of a sequence that are in a set, in their order: what a Go  *)
(* loop that copies the elements to keep computes.  It is SelectSeq with a *)
(* set for the test, written as a recursive function so that facts about   *)
(* it can be proved.                                                       *)
(***************************************************************************)
EXTENDS Integers, Sequences

Filter(list, keep) ==
    LET kept[i \in 0..Len(list)] ==
            IF i = 0 THEN <<>>
            ELSE IF list[i] \in keep THEN Append(kept[i - 1], list[i])
            ELSE kept[i - 1]
    IN  kept[Len(list)]
=============================================================================
