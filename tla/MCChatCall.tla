----------------------------- MODULE MCChatCall -----------------------------
(***************************************************************************)
(* ChatCall against every reply of a small size: one output item with up   *)
(* to two parts, or two items with at most one part each.                  *)
(***************************************************************************)
EXTENDS ChatCall

Kind(t, x, f) == [type |-> t, text |-> x, refusal |-> f]

SmallParts ==
    {Kind("output_text", "valid", FALSE), Kind("output_text", "invalid", FALSE),
     Kind("output_text", "none", FALSE), Kind("output_text", "none", TRUE),
     Kind("output_text", "valid", TRUE), Kind("refusal", "valid", FALSE)}

UpTo(S, n) == UNION {[1..m -> S] : m \in 0..n}

Items(n) == [incomplete : BOOLEAN, content : UpTo(SmallParts, n)]

Bodies(marks, outputs) ==
    [error : marks, refusal : marks, incomplete : marks,
     outputText : {"none", "valid", "invalid"}, output : outputs]

\* Every small output without a mark of its own on the reply, and every mark
\* over the smallest outputs.
SmallReplies ==
    Bodies({FALSE}, UpTo(Items(2), 1) \cup UpTo(Items(1), 2)) \cup
    Bodies(BOOLEAN, UpTo(Items(1), 1))
============================================================================
