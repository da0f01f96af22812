------------------------------ MODULE MCLists ------------------------------
(***************************************************************************)
(* Model-checking instance of Lists: a sweep ("SW") and a ".DC" action;    *)
(* every "Type" case, every way of giving "Start", "Stop", "Points" and    *)
(* "Values", and value lists of one or two values with the scales "k",    *)
(* "dB", "dBm", "dx" or none.  The definition list is the sweep alone or   *)
(* after a ".DC".                                                          *)
(***************************************************************************)
EXTENDS Lists, TLC

CONSTANTS none

MCChars == {"k", "d", "B", "m", "x"}

MCTypes == {"SW", "AC", "SP", "DC"}

MCKinds == {"const", "list", "lin", "log", "other"}

MCScales == {<<>>, <<"k">>, <<"d", "B">>, <<"d", "B", "m">>, <<"d", "x">>}

\* A parsed value: the number 3, a scale, no unit yet.
V(s) == [num |-> [m |-> 3, steps |-> <<>>], scale |-> s, unit |-> <<>>]

MCValueLists ==
    {<<V(s)>> : s \in MCScales} \cup {<<V(s), V(t)>> : s, t \in MCScales}

Sweep(k, g1, g2, g3, f, vs) ==
    [action |-> TRUE, type |-> "SW", kind |-> k, start |-> g1, stop |-> g2,
     points |-> g3, vform |-> f, vals |-> vs]

MCSweeps ==
    {Sweep(k, g1, g2, g3, "none", <<>>) :
        k \in MCKinds \cup {NoRef}, g1, g2, g3 \in Given}
    \cup {Sweep(k, g1, g2, g3, "ident", <<>>) :
        k \in MCKinds \cup {NoRef}, g1, g2, g3 \in Given}
    \cup {Sweep(k, g1, g2, g3, "num", vs) :
        k \in MCKinds \cup {NoRef}, g1, g2, g3 \in Given, vs \in MCValueLists}

DC == [action |-> TRUE, type |-> "DC", kind |-> NoRef, start |-> "none",
       stop |-> "none", points |-> "none", vform |-> "none", vals |-> <<>>]

MCDefSpace == {<<s>> : s \in MCSweeps} \cup {<<DC, s>> : s \in MCSweeps}
=============================================================================
