------------------------------ MODULE MCSweeps ------------------------------
(***************************************************************************)
(* Model-checking instance of Sweeps: three instance names, sweeps ("SW"), *)
(* another analysis ("AC") and a component ("R"), every list of up to      *)
(* four definitions.  Only a sweep carries a "Sim" identifier: the checks *)
(* read "Sim" of sweeps alone.                                             *)
(***************************************************************************)
EXTENDS Sweeps, TLC

CONSTANTS a, b, c, none

MCNames == {a, b, c}

MCTypes == {"SW", "AC", "R"}

MCDefs ==
    {d \in Defs : /\ (d.type = "R") = ~d.action
                  /\ d.type # "SW" => d.sim = NoRef}

MCDefSpace == UNION {[1..m -> MCDefs] : m \in 0..4}

Symmetry == Permutations(MCNames)
=============================================================================
