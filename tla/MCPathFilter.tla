---------------------------- MODULE MCPathFilter ----------------------------
(***************************************************************************)
(* Every glob of up to four characters as the only rule, every one of five *)
(* brackets, bangs and backslashes, and every pair of short rules.         *)
(***************************************************************************)
EXTENDS PathFilter

Chars == {"a", "/", "*", "?", "[", "]", "!", Escape}
Upto(S, n) == UNION {[1..k -> S] : k \in 0..n}

One == {<<[action |-> "exclude", pattern |-> p]>> : p \in Upto(Chars, 4) \ {<<>>}}

Brackets == {<<[action |-> "include", pattern |-> p]>> : p \in [1..5 -> {"[", "]", "!", Escape}]}

ShortRules == [action : {"include", "exclude"},
               pattern : {<<"a">>, <<"*">>, <<"!", "a">>, <<"!", "*", "*">>, <<"*", "*", "/", "a">>, <<"!">>}]
Two == {<<x, y>> : x \in ShortRules, y \in ShortRules}

MCRuleLists == {<<>>} \cup One \cup Brackets \cup Two

\* No leading or trailing slash, and none doubled.
MCTestPaths ==
    {p \in Upto({"a", "b", "/", "]", Newline}, 3) \ {<<>>} :
        /\ p[1] # "/" /\ p[Len(p)] # "/"
        /\ \A i \in 1..(Len(p) - 1) : p[i] # "/" \/ p[i + 1] # "/"}
=============================================================================
