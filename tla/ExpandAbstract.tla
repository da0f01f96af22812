--------------------------- MODULE ExpandAbstract ---------------------------
(***************************************************************************)
(* What the subcircuit expander promises, on the netlist as a set of       *)
(* definitions: in each step one top-level "Sub" instance is replaced by   *)
(* its flattening, until none is left.                                     *)
(***************************************************************************)
EXTENDS Flatten

VARIABLES body, net

avars == <<body, net>>

AInit ==
    /\ body \in BodySpace
    /\ net \in {Elems(r) : r \in RootSpace}

ExpandOne ==
    /\ \E s \in net : IsSub(s) /\ net' = (net \ {s}) \cup Flat(body, s)
    /\ UNCHANGED body

ASpec == AInit /\ [][ExpandOne]_avars /\ WF_avars(ExpandOne)
=============================================================================
