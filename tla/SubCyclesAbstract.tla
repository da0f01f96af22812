------------------------- MODULE SubCyclesAbstract -------------------------
(***************************************************************************)
(* What the cycle search for one "Sub" instance promises its caller: the   *)
(* verdict starts pending and becomes, in one step, "cyclic" if some       *)
(* template on a cycle of the instantiation graph is reachable from the    *)
(* instance's template and "acyclic" otherwise; it never changes again.    *)
(***************************************************************************)
EXTENDS Netlist

VARIABLES body, start, verdict

avars == <<body, start, verdict>>

AInit ==
    /\ body \in Bodies
    /\ start \in Templates
    /\ verdict = "pending"

Decide ==
    /\ verdict = "pending"
    /\ verdict' = IF CycleReachable(body, start) THEN "cyclic" ELSE "acyclic"
    /\ UNCHANGED <<body, start>>

Spec == AInit /\ [][Decide]_avars
=============================================================================
