------------------------------ MODULE MCSupply ------------------------------
(***************************************************************************)
(* Supply with two words, two users, one session and two nights.           *)
(***************************************************************************)
EXTENDS Supply, TLC

CONSTANTS a, b, c1, g, p, A2

EntryOf(level, text, r) == [cefr |-> level, gloss |-> text, rank |-> r]

\* The second file moves the first word behind the other and drops its gloss.
MCWordFiles ==
    {(a :> EntryOf(A2, g, 1) @@ b :> EntryOf(A2, NoGloss, 2)),
     (a :> EntryOf(A2, NoGloss, 3))}

MCUserLevels == <<A2, A2>>

\* The lists of words a key is made from here.
WordLists == {s \in BoundedSeq(Lemmas, MaxAnswer) : IsInjective(s)}

Glossed(s) ==
    {[i \in DOMAIN s |-> [lemma |-> s[i], gloss |-> texts[i]]] :
        texts \in [DOMAIN s -> {g, NoGloss}]}

MCKeys ==
    {CEFRKey(words, A2) : words \in UNION {Glossed(s) : s \in WordLists}}
=============================================================================
