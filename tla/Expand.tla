------------------------------ MODULE Expand ------------------------------
(***************************************************************************)
(* checker_expand_subcircuits and checker_copy_subcircuits                 *)
(* (check_netlist.cpp): the flattening of an accepted netlist.  The        *)
(* driver walks the top-level list and replaces each "Sub" instance by the *)
(* copies of its template's body; the copy is a recursion over nested      *)
(* instances, here an explicit stack of frames holding each call's locals  *)
(* (type, inst, the loop position, the list `root' built so far, and       *)
(* `instcopy', the instance list saved around a nested call).  Shared by   *)
(* all calls are `*instances', the list of enclosing instance names, and   *)
(* the translation slots (xlate, xlatenr) that checker_xlat_subcircuit_    *)
(* nodes writes into the nodes of the template bodies and                  *)
(* checker_cleanup_xlat_nodes clears.                                      *)
(*                                                                         *)
(* Names the code builds with sprintf ("type.instances.instance.name") are *)
(* records of their parts; a blank (NULL) node waiting for the enclosing   *)
(* call is a record holding its port index.                                *)
(***************************************************************************)
EXTENDS Flatten

VARIABLES
    body,       \* the template bodies (def->sub of each template)
    defs,       \* the top-level definition list
    pos,        \* the driver's `def', an index into defs
    stack,      \* frames of the active checker_copy_subcircuits calls
    instances,  \* *instances (NULL is the empty list)
    xl          \* xl[<<t, k>>][j]: xlate and xlatenr of node j of body[t][k]

vars == <<body, defs, pos, stack, instances, xl>>

Slots == UNION {{<<t, k>> : k \in 1..Len(body[t])} : t \in Templates}

Clear(d) == [j \in DOMAIN d.nodes |-> [x |-> NoNode, nr |-> 0]]

(***************************************************************************)
(* checker_xlat_subcircuit_nodes: every node of the body definition d      *)
(* named like the i-th formal node of template t gets the i-th node of the *)
(* instance and the index i; with repeated formal names the last one wins. *)
(***************************************************************************)
\* Variant of Xlat that numbers the formal nodes from 0.
XlatFromZero(t, inst, d) ==
    [j \in DOMAIN d.nodes |->
       LET i == PortIndex(t, d.nodes[j])
       IN  IF i = 0 THEN [x |-> NoNode, nr |-> 0]
           ELSE [x |-> inst.nodes[i], nr |-> i - 1]]

Xlat(t, inst, d) ==
    [j \in DOMAIN d.nodes |->
       LET i == PortIndex(t, d.nodes[j])
       IN  IF i = 0 THEN [x |-> NoNode, nr |-> 0]
           ELSE [x |-> inst.nodes[i], nr |-> i]]

\* How a node n of a body definition of template t, with translation slot
\* s, is named in a copy made for instance inst with instance list l: the
\* netlist name it is wired to (outermost call), blank for the enclosing
\* call, "gnd", or an internal name (the branches shared by
\* checker_copy_subcircuit_nodes and checker_copy_circuit_nodes).
NodeName(t, inst, n, s, l) ==
    IF s.x # NoNode THEN (IF l = <<>> THEN s.x ELSE Blank(s.nr))
    ELSE IF n = GND THEN n
    ELSE Internal(t, l, inst.inst, n)

\* Variant of CopyElem that leaves the instance list out of the name.
CopyElemNoPath(t, inst, d, l) ==
    LET s == Xlat(t, inst, d)
    IN  [kind |-> d.kind, inst |-> CopyName(t, <<>>, inst.inst, d.inst),
         nodes |-> [j \in DOMAIN d.nodes |-> NodeName(t, inst, d.nodes[j], s[j], l)]]

\* checker_copy_subcircuit plus checker_copy_subcircuit_nodes: the copy of
\* element d of template t's body for instance inst.
CopyElem(t, inst, d, l) ==
    LET s == Xlat(t, inst, d)
    IN  [kind |-> d.kind, inst |-> CopyName(t, l, inst.inst, d.inst),
         nodes |-> [j \in DOMAIN d.nodes |-> NodeName(t, inst, d.nodes[j], s[j], l)]]

\* Variant of FixNodes that resolves as if every caller were outermost.
FixNodesAsOutermost(t, inst, sub, s, c, l) ==
    [c EXCEPT !.nodes =
        [j \in DOMAIN c.nodes |->
           IF IsBlank(c.nodes[j])
             THEN NodeName(t, inst, sub.nodes[c.nodes[j].blank],
                           s[c.nodes[j].blank], <<>>)
             ELSE c.nodes[j]]]

\* checker_copy_circuit_nodes: the blank nodes of copy c, made inside the
\* nested instance sub of template t's body, are resolved one level up.
FixNodes(t, inst, sub, s, c, l) ==
    [c EXCEPT !.nodes =
        [j \in DOMAIN c.nodes |->
           IF IsBlank(c.nodes[j])
             THEN NodeName(t, inst, sub.nodes[c.nodes[j].blank],
                           s[c.nodes[j].blank], l)
             ELSE c.nodes[j]]]

Frame(t, inst) == [t |-> t, inst |-> inst, k |-> 1, root |-> <<>>,
                   instcopy |-> <<>>]

Top == stack[Len(stack)]

\* The body definition the innermost call is at.
Cur == body[Top.t][Top.k]

Remove(s, i) == SubSeq(s, 1, i - 1) \o SubSeq(s, i + 1, Len(s))

-----------------------------------------------------------------------------
Init ==
    /\ body \in BodySpace
    /\ defs \in RootSpace
    /\ pos = 1
    /\ stack = <<>>
    /\ instances = <<>>
    /\ xl = [p \in Slots |-> Clear(body[p[1]][p[2]])]

\* Variant of DriverSkip that steps over the next definition too.
DriverSkipTwo ==
    /\ stack = <<>>
    /\ pos <= Len(defs)
    /\ ~IsSub(defs[pos])
    /\ pos' = pos + 2
    /\ UNCHANGED <<body, defs, stack, instances, xl>>

\* The driver passes over a definition that is no "Sub".
DriverSkip ==
    /\ stack = <<>>
    /\ pos <= Len(defs)
    /\ ~IsSub(defs[pos])
    /\ pos' = pos + 1
    /\ UNCHANGED <<body, defs, stack, instances, xl>>

\* `copy = checker_copy_subcircuits (sub, def, &instances)' starts.
DriverExpand ==
    /\ stack = <<>>
    /\ pos <= Len(defs)
    /\ IsSub(defs[pos])
    /\ stack' = <<Frame(defs[pos].type, defs[pos])>>
    /\ UNCHANGED <<body, defs, pos, instances, xl>>

\* One element of the body: translate, copy, chain in front, clean up.
CopyElement ==
    /\ stack # <<>>
    /\ Top.k <= Len(body[Top.t])
    /\ ~IsSub(Cur)
    /\ stack' = [stack EXCEPT ![Len(stack)] =
                   [Top EXCEPT !.root = <<CopyElem(Top.t, Top.inst, Cur,
                                                   instances)>> \o @,
                               !.k = @ + 1]]
    /\ xl' = [xl EXCEPT ![<<Top.t, Top.k>>] = Clear(Cur)]
    /\ UNCHANGED <<body, defs, pos, instances>>

\* A nested "Sub": translate its nodes, save the instance list, append
\* this call's instance name and recurse.
Descend ==
    /\ stack # <<>>
    /\ Top.k <= Len(body[Top.t])
    /\ IsSub(Cur)
    /\ xl' = [xl EXCEPT ![<<Top.t, Top.k>>] = Xlat(Top.t, Top.inst, Cur)]
    /\ instances' = Append(instances, Top.inst.inst)
    /\ stack' = Append([stack EXCEPT ![Len(stack)] =
                          [Top EXCEPT !.instcopy = instances]],
                       Frame(Cur.type, Cur))
    /\ UNCHANGED <<body, defs, pos>>

\* Variant of Return that keeps the instance list the nested call saw.
ReturnNoRestore ==
    /\ Len(stack) > 1
    /\ Top.k > Len(body[Top.t])
    /\ LET p   == stack[Len(stack) - 1]
           sub == body[p.t][p.k]
           s   == xl[<<p.t, p.k>>]
           cp  == [j \in DOMAIN Top.root |->
                     FixNodes(p.t, p.inst, sub, s, Top.root[j], p.instcopy)]
       IN  /\ stack' = Append(SubSeq(stack, 1, Len(stack) - 2),
                              [p EXCEPT !.root = cp \o @, !.k = @ + 1])
           /\ xl' = [xl EXCEPT ![<<p.t, p.k>>] = Clear(sub)]
    /\ UNCHANGED <<body, defs, pos, instances>>

\* The nested call returns its copies; their blank nodes are resolved
\* with this call's translation of the "Sub", they are chained in front,
\* the instance list is restored and the slots are cleaned.
Return ==
    /\ Len(stack) > 1
    /\ Top.k > Len(body[Top.t])
    /\ LET p   == stack[Len(stack) - 1]
           sub == body[p.t][p.k]
           s   == xl[<<p.t, p.k>>]
           cp  == [j \in DOMAIN Top.root |->
                     FixNodes(p.t, p.inst, sub, s, Top.root[j], p.instcopy)]
       IN  /\ stack' = Append(SubSeq(stack, 1, Len(stack) - 2),
                              [p EXCEPT !.root = cp \o @, !.k = @ + 1])
           /\ instances' = p.instcopy
           /\ xl' = [xl EXCEPT ![<<p.t, p.k>>] = Clear(sub)]
    /\ UNCHANGED <<body, defs, pos>>

\* The outermost call returns: the instance is unchained and freed, its
\* copies are put in front of the list and the walk goes on at the old
\* head (or, with no copies, at the instance's successor).
DriverReplace ==
    /\ Len(stack) = 1
    /\ Top.k > Len(body[Top.t])
    /\ defs' = Top.root \o Remove(defs, pos)
    /\ pos' = IF Top.root # <<>> THEN Len(Top.root) + 1 ELSE pos
    /\ stack' = <<>>
    /\ instances' = <<>>
    /\ UNCHANGED <<body, xl>>

Next ==
    \/ DriverSkip \/ DriverExpand \/ CopyElement \/ Descend \/ Return
    \/ DriverReplace

Spec == Init /\ [][Next]_vars /\ WF_vars(Next)

-----------------------------------------------------------------------------
TypeOK ==
    /\ body \in BodySpace
    /\ \A k \in DOMAIN defs : defs[k].kind \in {"Elem", "Sub"}
    /\ pos \in 1..Len(defs) + 1
    /\ \A k \in DOMAIN stack :
          /\ stack[k].t \in Templates
          /\ stack[k].k \in 1..Len(body[stack[k].t]) + 1
          /\ stack[k].instcopy \in Seq(Insts)
    /\ instances \in Seq(Insts)
    /\ DOMAIN xl = Slots

\* *instances holds the instance names of the enclosing calls, outermost
\* first: each nested call appends its caller's instance and the caller
\* puts back the list it saved (instcopy) when the call returns.
InstancesIsPath ==
    instances = [k \in 1..Len(stack) - 1 |-> stack[k].inst.inst]

\* Every blank node is one checker_copy_circuit_nodes can resolve: a copy
\* held by the call k levels down has a blank node only when that call is
\* nested (the outermost call names the netlist node itself), and the
\* blank's xlatenr is a position of the node list of that call's instance,
\* which checker_get_circuit_node (line 1105) walks to when the call
\* returns (xlatenr 0 fails the assertion of line 1103, and one past the
\* end the assertion of line 1070); no blank ever reaches the top level.
BlanksResolvable ==
    /\ \A k \in DOMAIN defs : \A j \in DOMAIN defs[k].nodes :
          ~IsBlank(defs[k].nodes[j])
    /\ \A k \in DOMAIN stack : \A i \in DOMAIN stack[k].root :
          \A j \in DOMAIN stack[k].root[i].nodes :
             LET v == stack[k].root[i].nodes[j]
             IN  IsBlank(v) => /\ k >= 2
                               /\ v.blank \in DOMAIN stack[k].inst.nodes

\* The flattened list keeps instance names unique among definitions of one
\* kind, at every nesting depth (names of copies join the template, the
\* enclosing instances, the instance and the element's own name).
UniqueNames ==
    \A i, j \in DOMAIN defs :
        (i # j /\ defs[i].kind = defs[j].kind) => defs[i].inst # defs[j].inst

Abstract == INSTANCE ExpandAbstract WITH net <- Elems(defs)

\* checker_expand_subcircuits replaces, one at a time, every top-level
\* "Sub" by exactly the reference flattening of it (names and wiring of
\* every copy), and eventually none is left.
RefinesAbstract == Abstract!ASpec

Done == stack = <<>> /\ pos > Len(defs)
=============================================================================
