---------------------------- MODULE MCSubCycles ----------------------------
(***************************************************************************)
(* Model-checking instance of SubCycles: three templates, bodies of up to  *)
(* two definitions, every body and every start template enumerated by      *)
(* Init.  Template names are interchangeable, so their permutations are a  *)
(* sound symmetry for the safety properties.                               *)
(***************************************************************************)
EXTENDS SubCycles, TLC

CONSTANTS t1, t2, t3, u1

MCTemplates == {t1, t2, t3}
MCUndefinedOne == {u1}

Symmetry == Permutations(MCTemplates)
=============================================================================
