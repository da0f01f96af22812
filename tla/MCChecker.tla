----------------------------- MODULE MCChecker -----------------------------
(***************************************************************************)
(* Model-checking instance of Checker: two templates and one name no      *)
(* template carries, top-level list and bodies of up to two definitions,   *)
(* every such netlist and every subcircuit_root order enumerated by Init.  *)
(***************************************************************************)
EXTENDS Checker, TLC

CONSTANTS t1, t2, u1

MCTemplates == {t1, t2}
MCUndefined == {u1}

Symmetry == Permutations(MCTemplates)
=============================================================================
