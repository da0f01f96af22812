------------------------------ MODULE MCExpand ------------------------------
(***************************************************************************)
(* Accepted netlists for the expander: templates A, B, C, where A may      *)
(* instantiate B and C and B may instantiate C (every acyclic netlist of   *)
(* three templates has such an order up to renaming), instances wired to  *)
(* formal ports in either order, to "gnd" and to internal nodes, and one or*)
(* two top-level instances: after an element, or two of one template.      *)
(***************************************************************************)
EXTENDS Expand, TLC

CONSTANTS A, B, C, p, q, m, gnd, x, y, X1, X2

E(i, ns) == [kind |-> "Elem", inst |-> i, nodes |-> ns]
S(t, i, ns) == [kind |-> "Sub", type |-> t, inst |-> i, nodes |-> ns]

MCTemplates == {A, B, C}
MCPorts == (A :> <<p, q>>) @@ (B :> <<p, q>>) @@ (C :> <<p>>)
MCNodes == {p, q, m, gnd}
MCInsts == {x, y, X1, X2}

CBodies == {<<E(x, <<p, m>>)>>, <<E(x, <<m, gnd>>), E(y, <<p, m>>)>>}
BBodies == {<<S(C, x, <<n>>), E(y, <<q, m>>)>> : n \in MCNodes}
             \cup {<<E(x, <<p, q>>)>>}
ABodies == {<<S(B, x, <<n1, n2>>), S(C, y, <<n3>>)>> :
               n1 \in MCNodes, n2 \in MCNodes, n3 \in {q, m}}
             \cup {<<E(x, <<q, m>>), S(B, y, <<n1, n2>>)>> :
                      n1 \in {p, q, m}, n2 \in {p, q, m}}
MCBodySpace == {(A :> a) @@ (B :> b) @@ (C :> c) :
                    a \in ABodies, b \in BBodies, c \in CBodies}
MCRootSpace == {<<S(A, X1, <<p, q>>)>>,
                <<E(X1, <<p, q>>), S(A, X2, <<q, gnd>>)>>,
                <<S(B, X1, <<m, p>>), S(A, X2, <<p, m>>)>>,
                <<S(A, X1, <<q, p>>), S(A, X2, <<m, q>>)>>}
=============================================================================
