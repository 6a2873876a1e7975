----------------------------- MODULE MCJUnitProber -----------------------------
(***************************************************************************)
(* Test cases whose names have commas in them, and the sets that may fail.  *)
(***************************************************************************)
EXTENDS JUnitProber

a   == <<"a">>
b   == <<"b">>
a_b == <<"a", "b">>  \* the name "a,b"
a_c == <<"a", "c">>  \* the name "a,c"

Names == <<a, a_b, a_c, b>>

\* Joined they read "a,c" and "a,c,b".
DistinctSets == {{}, {a_c}, {a_c, b}}

OneFails == {{}, {a}}

\* A test case without a name.
NamelessSets == {{}, {Nameless}}

\* Both joined read "a,b".
AlikeSets == {{}, {a_b}, {a, b}}

ASSUME JoinsAsInTheCode ==
    /\ Joined({a_c, b}) = {<<0, "a">>, <<1, "c">>, <<2, "b">>}
    /\ Joined({a_b}) = Joined({a, b})
    /\ FailureSets \in {DistinctSets, OneFails} => DistinctJoins
================================================================================
