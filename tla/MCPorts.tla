------------------------------ MODULE MCPorts ------------------------------
(***************************************************************************)
(* Model-checking instance of Ports: ports ("Pac" components) and sweeps   *)
(* ("SW" actions, and a component typed "SW" that is no action), numbers   *)
(* 1.0, 1.5 and 2.0 or none, every list of up to three definitions.        *)
(***************************************************************************)
EXTENDS Ports, TLC

CONSTANTS none

MCTypes == {"Pac", "SW"}

MCDefs == [action : BOOLEAN, type : MCTypes, num : {10, 15, 20, none}]

MCDefSpace == UNION {[1..m -> MCDefs] : m \in 0..3}
=============================================================================
