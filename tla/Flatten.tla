------------------------------ MODULE Flatten ------------------------------
(***************************************************************************)
(* The netlists the subcircuit expander of check_netlist.cpp works on, the *)
(* names it builds, and the flattening it is meant to compute.  A body or  *)
(* top-level definition is an element [kind |-> "Elem", inst, nodes] or a  *)
(* subcircuit instance [kind |-> "Sub", type, inst, nodes], with nodes the *)
(* sequence of its node names.  The names the code builds with sprintf     *)
(* ("type.instances.instance.name", the instance list joined by ".") are   *)
(* records of their parts: distinct parts give distinct names as long as   *)
(* no identifier holds a '.'.                                              *)
(***************************************************************************)
EXTENDS Naturals, Sequences, FiniteSets

CONSTANTS
    Templates,  \* the subcircuit templates (subcircuit_root)
    Ports,      \* Ports[t]: the formal node names of template t (type->nodes)
    Nodes,      \* node names as written in the netlist
    GND,        \* the node name "gnd"
    Insts,      \* instance names as written in the netlist
    NoNode,     \* a NULL xlate slot
    BodySpace,  \* candidate template bodies: functions Templates -> Seq
    RootSpace   \* candidate top-level lists

ASSUME ExpandAssumption ==
    /\ IsFiniteSet(Templates)
    /\ Ports \in [Templates -> Seq(Nodes)]
    /\ GND \in Nodes
    /\ NoNode \notin Nodes

IsSub(d) == d.kind = "Sub"

\* checker_subcircuit_node: the internal node n of the copy of template t
\* made for instance i inside the instances l.
Internal(t, l, i, n) == [t |-> t, l |-> l, i |-> i, n |-> n]

\* A node left blank (NULL) for the enclosing call, with its xlatenr.
Blank(nr) == [blank |-> nr]

IsBlank(v) == v \in [blank : Nat]

\* checker_subcircuit_instance: the instance name of an element copy.
CopyName(t, l, i, base) == [t |-> t, l |-> l, i |-> i, base |-> base]

Elems(s) == {s[k] : k \in DOMAIN s}

\* The definitions of an accepted netlist: an element, or a "Sub" whose
\* type names a template and whose node count is the template's
\* (checker_validate_subcircuits counts an error for any other, and the
\* expander only runs on a netlist without errors).
ElemDefs == [kind : {"Elem"}, inst : Insts, nodes : Seq(Nodes)]

SubDefs ==
    {d \in [kind : {"Sub"}, type : Templates, inst : Insts, nodes : Seq(Nodes)] :
        Len(d.nodes) = Len(Ports[d.type])}

Defn == ElemDefs \cup SubDefs

\* The bodies and top-level lists the expander is handed are made of such
\* definitions, and no netlist node name is NULL.
ASSUME AcceptedShape ==
    /\ BodySpace \subseteq [Templates -> Seq(Defn)]
    /\ RootSpace \subseteq Seq(Defn)
    /\ \A n \in Nodes : ~IsBlank(n)

-----------------------------------------------------------------------------
(***************************************************************************)
(* The reference flattening (the spec's Subcircuit Expander): for a top-   *)
(* level instance s, every chain c = <<s, s2, ..., sn>> of nested "Sub"    *)
(* instances, each in the body of the previous one's template, and every   *)
(* element e of the body of sn's template gives one copy.  Its name joins  *)
(* sn's template, the instance names of s..s(n-1), sn's name and e's name. *)
(* A node of level j (a name in the body of c[j]'s template) that is a     *)
(* formal port of that template is the instance's node at that port, taken *)
(* one level up (at level 1 it is a netlist name); "gnd" stays "gnd"; any  *)
(* other node is internal to c[j] and named after the levels above it.    *)
(***************************************************************************)
Chains(body, s) ==
    LET ch[d \in Nat \ {0}] ==
          IF d = 1 THEN {<<s>>}
          ELSE UNION {{Append(c, x) :
                          x \in {y \in Elems(body[c[d - 1].type]) : IsSub(y)}} :
                       c \in ch[d - 1]}
    IN  UNION {ch[d] : d \in 1..Cardinality(Templates)}

InstPath(c, j) == [k \in 1..j - 1 |-> c[k].inst]

\* The index of the formal node n of template t, 0 when n is none; with a
\* repeated formal name the last index (checker_xlat_subcircuit_nodes
\* overwrites the slot for each match).
PortIndex(t, n) ==
    LET is == {i \in 1..Len(Ports[t]) : Ports[t][i] = n}
    IN  IF is = {} THEN 0 ELSE CHOOSE i \in is : \A i2 \in is : i2 <= i

Resolve(c, n) ==
    LET r[j \in 1..Len(c)] ==
          [m \in Nodes |->
             LET i == PortIndex(c[j].type, m)
             IN  IF i # 0
                   THEN IF j = 1 THEN c[1].nodes[i] ELSE r[j - 1][c[j].nodes[i]]
                 ELSE IF m = GND THEN m
                 ELSE Internal(c[j].type, InstPath(c, j), c[j].inst, m)]
    IN  r[Len(c)][n]

Flat(body, s) ==
    UNION {{[kind |-> e.kind,
             inst |-> CopyName(c[Len(c)].type, InstPath(c, Len(c)),
                               c[Len(c)].inst, e.inst),
             nodes |-> [j \in DOMAIN e.nodes |-> Resolve(c, e.nodes[j])]] :
              e \in {y \in Elems(body[c[Len(c)].type]) : ~IsSub(y)}} :
           c \in Chains(body, s)}
=============================================================================
