-------------------------- MODULE ExpandTypeProofs --------------------------
(***************************************************************************)
(* Proofs that the expander of module Expand keeps its state well typed    *)
(* and never hands a blank node to the top-level list, for every accepted  *)
(* netlist (assumption AcceptedShape of module Flatten).                   *)
(*                                                                         *)
(* A blank node is made by checker_copy_subcircuit_nodes for a node wired  *)
(* to a formal port in a nested call, and resolved one level up by         *)
(* checker_copy_circuit_nodes.  The invariant says where blanks may be:    *)
(* only in copies held by a frame k >= 2, and only with an index among the *)
(* formal ports of frame k's template, which is the node count of the      *)
(* instance frame k copies (the "Sub" at the caller's loop position).      *)
(***************************************************************************)
EXTENDS ExpandProofs, WellFoundedInduction

\* The names a copy's nodes can have: a netlist name, a blank, an internal
\* node name (checker_subcircuit_node).
InternalNames == [t : Templates, l : Seq(Insts), i : Insts, n : Nodes]

NodeVals == Nodes \cup [blank : Nat] \cup InternalNames

CopyNames == [t : Templates, l : Seq(Insts), i : Insts, base : Insts]

\* An element copy made by checker_copy_subcircuit.
CopyDefs == [kind : {"Elem"}, inst : CopyNames, nodes : Seq(NodeVals)]

\* A node of a copy held by frame k, a call for template t, is blank only
\* below the outermost call, with the index of one of t's formal ports.
NodeOK(v, k, t) ==
    IsBlank(v) => /\ k >= 2
                  /\ v.blank \in 1..Len(Ports[t])

Copies(k, t) == {c \in CopyDefs : \A j \in DOMAIN c.nodes : NodeOK(c.nodes[j], k, t)}

NoBlank(d) == \A j \in DOMAIN d.nodes : ~IsBlank(d.nodes[j])

\* The definitions the top-level list may hold.
TopDefs == {d \in Defn \cup CopyDefs : NoBlank(d)}

\* Frame k copies the instance at its caller's loop position.
FrameOK(k) ==
    /\ stack[k].t \in Templates
    /\ stack[k].inst \in SubDefs
    /\ stack[k].inst.type = stack[k].t
    /\ stack[k].k \in 1..Len(body[stack[k].t]) + 1
    /\ stack[k].instcopy \in Seq(Insts)
    /\ stack[k].root \in Seq(Copies(k, stack[k].t))
    /\ k < Len(stack) =>
          /\ stack[k].k <= Len(body[stack[k].t])
          /\ body[stack[k].t][stack[k].k] = stack[k + 1].inst

\* A translation slot holds, for each node of its body definition, a node
\* name or NULL, and a formal port index when the name is set.
SlotVals == [x : Nodes \cup {NoNode}, nr : Nat]

XlSlotOK(sl) ==
    /\ xl[sl] \in [DOMAIN body[sl[1]][sl[2]].nodes -> SlotVals]
    /\ \A j \in DOMAIN xl[sl] :
          xl[sl][j].x # NoNode => xl[sl][j].nr \in 1..Len(Ports[sl[1]])

(***************************************************************************)
(* TypeOK and BlanksResolvable strengthened: InstancesIsPath's invariant, *)
(* the typing of every frame, the link of each frame to the "Sub" its      *)
(* caller is at, where blanks may be, and the typing of the translation    *)
(* slots.                                                                  *)
(***************************************************************************)
TInv ==
    /\ IInv
    /\ body \in BodySpace
    /\ defs \in Seq(TopDefs)
    /\ pos \in 1..Len(defs) + 1
    /\ stack # <<>> => pos <= Len(defs)
    /\ instances \in Seq(Insts)
    /\ \A k \in DOMAIN stack : FrameOK(k)
    /\ DOMAIN xl = Slots
    /\ \A sl \in Slots : XlSlotOK(sl)

-----------------------------------------------------------------------------
\* checker_xlat_subcircuit_nodes only ever writes an index of a formal node:
\* PortIndex is 0 or the last index of the name among template t's ports.
LEMMA PortIndexRange ==
    ASSUME NEW t \in Templates, NEW n
    PROVE  PortIndex(t, n) \in 0..Len(Ports[t])
<1> DEFINE N == Len(Ports[t])
           is == {i \in 1..N : Ports[t][i] = n}
<1>0. N \in Nat
  BY ExpandAssumption
<1>1. CASE is = {}
  BY <1>1 DEF PortIndex
<1>2. CASE is # {}
  <2>1. \E i \in is : \A i2 \in is : i2 <= i
    <3> DEFINE T == {N - i : i \in is}
    <3>1. T \subseteq Nat /\ T # {}
      <4>1. \A i \in is : N - i \in Nat
        BY <1>0
      <4>. QED
        BY <4>1, <1>2, ZenonT(30)
    <3>2. PICK x \in T : \A y \in T : ~(<<y, x>> \in OpToRel(<, Nat))
      BY <3>1, NatLessThanWellFounded, WFMin
    <3>3. PICK i0 \in is : x = N - i0
      BY <3>2
    <3>4. SUFFICES ASSUME NEW i2 \in is, N - i2 < N - i0 PROVE FALSE
      BY <3>3, <1>0
    <3>5. N - i2 \in T /\ N - i2 \in Nat /\ x \in Nat
      BY <3>1, <3>2, <1>0
    <3>6. <<N - i2, x>> \in OpToRel(<, Nat)
      BY <3>3, <3>4, <3>5, SMTT(30) DEF OpToRel
    <3>. QED
      BY <3>2, <3>5, <3>6
  <2> DEFINE c == CHOOSE i \in is : \A i2 \in is : i2 <= i
  <2>2. c \in is
    BY <2>1, Zenon
  <2>3. PortIndex(t, n) = c
    BY <1>2, ZenonT(30) DEF PortIndex
  <2>4. c \in 1..N
    BY <2>2
  <2>. QED
    BY <2>3, <2>4, <1>0
<1>. QED
  BY <1>1, <1>2

\* Removing the i-th definition of a list (the unchaining of the expanded
\* instance in checker_expand_subcircuits) shifts the later ones down.
LEMMA RemoveProperties ==
    ASSUME NEW S, NEW s \in Seq(S), NEW i \in 1..Len(s)
    PROVE  /\ Remove(s, i) \in Seq(S)
           /\ Len(Remove(s, i)) = Len(s) - 1
           /\ \A j \in 1..Len(s) - 1 :
                 Remove(s, i)[j] = IF j < i THEN s[j] ELSE s[j + 1]
<1> DEFINE s1 == SubSeq(s, 1, i - 1)
           s2 == SubSeq(s, i + 1, Len(s))
<1>1. /\ s1 \in Seq(S) /\ Len(s1) = i - 1
      /\ \A j \in 1..i - 1 : s1[j] = s[j]
  BY SubSeqProperties
<1>2. /\ s2 \in Seq(S) /\ Len(s2) = Len(s) - i
      /\ \A j \in 1..Len(s) - i : s2[j] = s[i + j]
  BY SubSeqProperties
<1>. HIDE DEF s1, s2
<1>3. /\ s1 \o s2 \in Seq(S)
      /\ Len(s1 \o s2) = Len(s1) + Len(s2)
      /\ \A j \in 1..Len(s1) + Len(s2) :
            (s1 \o s2)[j] = IF j <= Len(s1) THEN s1[j] ELSE s2[j - Len(s1)]
  BY <1>1, <1>2, ConcatProperties, ZenonT(30)
<1>4. Remove(s, i) = s1 \o s2
  BY DEF Remove, s1, s2
<1>5. Len(s) \in Nat /\ Len(s1) = i - 1 /\ Len(s2) = Len(s) - i
  BY <1>1, <1>2
<1>6. ASSUME NEW j \in 1..Len(s) - 1
      PROVE  (s1 \o s2)[j] = IF j < i THEN s[j] ELSE s[j + 1]
  <2>1. CASE j < i
    BY <2>1, <1>1, <1>3, <1>5
  <2>2. CASE ~(j < i)
    <3>1. j - (i - 1) \in 1..Len(s) - i /\ i + (j - (i - 1)) = j + 1
      BY <2>2, <1>5
    <3>2. (s1 \o s2)[j] = s2[j - (i - 1)]
      BY <2>2, <1>3, <1>5
    <3>3. s2[j - (i - 1)] = s[i + (j - (i - 1))]
      BY <3>1, <1>2
    <3>. QED
      BY <2>2, <3>1, <3>2, <3>3
  <2>. QED
    BY <2>1, <2>2, ZenonT(30)
<1>. QED
  BY <1>3, <1>4, <1>5, <1>6

\* A function on the indices of a sequence is a sequence.
LEMMA SeqOnDomain ==
    ASSUME NEW S, NEW T, NEW s \in Seq(S), NEW g \in [DOMAIN s -> T]
    PROVE  g \in Seq(T)
<1>1. Len(s) \in Nat /\ DOMAIN s = 1..Len(s)
  BY LenProperties
<1>. QED
  BY <1>1, SeqDef


\* A name that is not blank: a netlist node or an internal node name.
LEMMA NotBlank ==
    /\ \A n \in Nodes : ~IsBlank(n)
    /\ \A v \in InternalNames : ~IsBlank(v)
<1>1. \A n \in Nodes : ~IsBlank(n)
  BY AcceptedShape
<1>2. \A v \in InternalNames : ~IsBlank(v)
  BY DEF InternalNames, IsBlank
<1>. QED
  BY <1>1, <1>2

\* checker_xlat_subcircuit_nodes, for an instance with as many nodes as its
\* template has ports, writes a node of the instance and a port index.
LEMMA XlatShape ==
    ASSUME NEW t \in Templates, NEW inst \in SubDefs, inst.type = t, NEW d
    PROVE  /\ Xlat(t, inst, d) \in [DOMAIN d.nodes -> SlotVals]
           /\ \A j \in DOMAIN d.nodes :
                 Xlat(t, inst, d)[j].x # NoNode =>
                    Xlat(t, inst, d)[j].nr \in 1..Len(Ports[t])
<1>1. inst.nodes \in Seq(Nodes) /\ Len(inst.nodes) = Len(Ports[t])
  BY DEF SubDefs
<1>2. ASSUME NEW j \in DOMAIN d.nodes
      PROVE  /\ Xlat(t, inst, d)[j] \in SlotVals
             /\ Xlat(t, inst, d)[j].x # NoNode =>
                   Xlat(t, inst, d)[j].nr \in 1..Len(Ports[t])
  <2> DEFINE i == PortIndex(t, d.nodes[j])
  <2>1. i \in 0..Len(Ports[t])
    BY PortIndexRange
  <2>2. i # 0 => inst.nodes[i] \in Nodes
    BY <2>1, <1>1
  <2>. HIDE DEF i
  <2>3. Xlat(t, inst, d)[j] = IF i = 0 THEN [x |-> NoNode, nr |-> 0]
                                       ELSE [x |-> inst.nodes[i], nr |-> i]
    BY DEF Xlat, i
  <2>. QED
    BY <2>1, <2>2, <2>3, ExpandAssumption DEF SlotVals
<1>. QED
  BY <1>2, ZenonT(30) DEF Xlat

\* checker_cleanup_xlat_nodes sets every slot to NULL.
LEMMA ClearShape ==
    ASSUME NEW d
    PROVE  /\ Clear(d) \in [DOMAIN d.nodes -> SlotVals]
           /\ \A j \in DOMAIN d.nodes : Clear(d)[j].x = NoNode
BY DEF Clear, SlotVals

\* The name NodeName gives a node is a node name, blank only in a nested
\* call (non-empty instance list) and then with the slot's port index.
LEMMA NodeNameShape ==
    ASSUME NEW t \in Templates, NEW inst, inst.inst \in Insts,
           NEW n \in Nodes, NEW sv \in SlotVals, NEW l \in Seq(Insts)
    PROVE  /\ NodeName(t, inst, n, sv, l) \in NodeVals
           /\ IsBlank(NodeName(t, inst, n, sv, l)) =>
                 /\ l # <<>>
                 /\ sv.x # NoNode
                 /\ NodeName(t, inst, n, sv, l).blank = sv.nr
<1>1. Internal(t, l, inst.inst, n) \in InternalNames
  BY DEF Internal, InternalNames
<1>2. CASE sv.x # NoNode
  <2>1. CASE l = <<>>
    BY <1>2, <2>1, NotBlank DEF NodeName, SlotVals, NodeVals
  <2>2. CASE l # <<>>
    BY <1>2, <2>2 DEF NodeName, SlotVals, NodeVals, Blank
  <2>. QED
    BY <2>1, <2>2
<1>3. CASE sv.x = NoNode
  BY <1>1, <1>3, NotBlank, ExpandAssumption DEF NodeName, NodeVals
<1>. QED
  BY <1>2, <1>3

\* checker_copy_subcircuit: the copy of an element of template t's body is
\* an element, blank only in a nested call and then at a port of t.
LEMMA CopyElemShape ==
    ASSUME NEW t \in Templates, NEW inst \in SubDefs, inst.type = t,
           NEW d \in ElemDefs, NEW l \in Seq(Insts)
    PROVE  /\ CopyElem(t, inst, d, l) \in CopyDefs
           /\ \A j \in DOMAIN CopyElem(t, inst, d, l).nodes :
                 IsBlank(CopyElem(t, inst, d, l).nodes[j]) =>
                    /\ l # <<>>
                    /\ CopyElem(t, inst, d, l).nodes[j].blank \in 1..Len(Ports[t])
<1> DEFINE sv == Xlat(t, inst, d)
           nd == [j \in DOMAIN d.nodes |-> NodeName(t, inst, d.nodes[j], sv[j], l)]
<1>1. d.nodes \in Seq(Nodes) /\ d.kind = "Elem" /\ d.inst \in Insts
      /\ inst.inst \in Insts
  BY DEF ElemDefs, SubDefs
<1>2. /\ sv \in [DOMAIN d.nodes -> SlotVals]
      /\ \A j \in DOMAIN d.nodes : sv[j].x # NoNode => sv[j].nr \in 1..Len(Ports[t])
  BY XlatShape
<1>. HIDE DEF sv
<1>3. ASSUME NEW j \in DOMAIN d.nodes
      PROVE  /\ nd[j] \in NodeVals
             /\ IsBlank(nd[j]) => l # <<>> /\ nd[j].blank \in 1..Len(Ports[t])
  <2>1. d.nodes[j] \in Nodes /\ sv[j] \in SlotVals
    BY <1>1, <1>2
  <2>2. /\ NodeName(t, inst, d.nodes[j], sv[j], l) \in NodeVals
        /\ IsBlank(NodeName(t, inst, d.nodes[j], sv[j], l)) =>
              /\ l # <<>>
              /\ sv[j].x # NoNode
              /\ NodeName(t, inst, d.nodes[j], sv[j], l).blank = sv[j].nr
    BY <1>1, <2>1, NodeNameShape
  <2>. QED
    BY <2>2, <1>2
<1>4. nd \in Seq(NodeVals)
  <2>1. nd \in [DOMAIN d.nodes -> NodeVals]
    BY <1>3, ZenonT(30)
  <2>. QED
    BY <2>1, <1>1, SeqOnDomain
<1>5. CopyName(t, l, inst.inst, d.inst) \in CopyNames
  BY <1>1 DEF CopyName, CopyNames
<1>6. CopyElem(t, inst, d, l) = [kind |-> d.kind,
                                 inst |-> CopyName(t, l, inst.inst, d.inst),
                                 nodes |-> nd]
  BY DEF CopyElem, sv
<1>7. DOMAIN nd = DOMAIN d.nodes
  OBVIOUS
<1>. HIDE DEF nd
<1>. QED
  BY <1>1, <1>3, <1>4, <1>5, <1>6, <1>7 DEF CopyDefs

\* checker_copy_circuit_nodes, for a copy whose blanks index the nodes of
\* the nested instance sub, fills every blank: the result is blank only if
\* the caller is itself nested, and then at a port of the caller's template.
LEMMA FixNodesShape ==
    ASSUME NEW t \in Templates, NEW inst, inst.inst \in Insts,
           NEW sub \in SubDefs,
           NEW sv \in [DOMAIN sub.nodes -> SlotVals],
           \A j \in DOMAIN sv : sv[j].x # NoNode => sv[j].nr \in 1..Len(Ports[t]),
           NEW c \in CopyDefs,
           \A j \in DOMAIN c.nodes :
              IsBlank(c.nodes[j]) => c.nodes[j].blank \in DOMAIN sub.nodes,
           NEW l \in Seq(Insts)
    PROVE  /\ FixNodes(t, inst, sub, sv, c, l) \in CopyDefs
           /\ \A j \in DOMAIN FixNodes(t, inst, sub, sv, c, l).nodes :
                 IsBlank(FixNodes(t, inst, sub, sv, c, l).nodes[j]) =>
                    /\ l # <<>>
                    /\ FixNodes(t, inst, sub, sv, c, l).nodes[j].blank
                          \in 1..Len(Ports[t])
<1> DEFINE nd == [j \in DOMAIN c.nodes |->
                    IF IsBlank(c.nodes[j])
                      THEN NodeName(t, inst, sub.nodes[c.nodes[j].blank],
                                    sv[c.nodes[j].blank], l)
                      ELSE c.nodes[j]]
<1>1. c.nodes \in Seq(NodeVals) /\ sub.nodes \in Seq(Nodes)
  BY SMTT(30) DEF CopyDefs, SubDefs
<1>2. ASSUME NEW j \in DOMAIN c.nodes
      PROVE  /\ nd[j] \in NodeVals
             /\ IsBlank(nd[j]) => l # <<>> /\ nd[j].blank \in 1..Len(Ports[t])
  <2>1. CASE IsBlank(c.nodes[j])
    <3> DEFINE b == c.nodes[j].blank
    <3>1. b \in DOMAIN sub.nodes /\ sub.nodes[b] \in Nodes /\ sv[b] \in SlotVals
      BY <2>1, <1>1
    <3>2. nd[j] = NodeName(t, inst, sub.nodes[b], sv[b], l)
      BY <2>1
    <3>. HIDE DEF b
    <3>3. /\ NodeName(t, inst, sub.nodes[b], sv[b], l) \in NodeVals
          /\ IsBlank(NodeName(t, inst, sub.nodes[b], sv[b], l)) =>
                /\ l # <<>>
                /\ sv[b].x # NoNode
                /\ NodeName(t, inst, sub.nodes[b], sv[b], l).blank = sv[b].nr
      BY <3>1, NodeNameShape, SMTT(30)
    <3>. QED
      BY <3>1, <3>2, <3>3, ZenonT(30)
  <2>2. CASE ~IsBlank(c.nodes[j])
    BY <2>2, <1>1
  <2>. QED
    BY <2>1, <2>2, ZenonT(30)
<1>3. nd \in Seq(NodeVals)
  <2>1. nd \in [DOMAIN c.nodes -> NodeVals]
    BY <1>2, ZenonT(30)
  <2>. QED
    BY <2>1, <1>1, SeqOnDomain, ZenonT(30)
<1>4. FixNodes(t, inst, sub, sv, c, l) = [c EXCEPT !.nodes = nd]
  BY DEF FixNodes
<1>6. DOMAIN nd = DOMAIN c.nodes
  OBVIOUS
<1>. HIDE DEF nd
<1>5. [c EXCEPT !.nodes = nd] \in CopyDefs /\ [c EXCEPT !.nodes = nd].nodes = nd
  BY <1>3, Zenon DEF CopyDefs
<1>. QED
  BY <1>2, <1>4, <1>5, <1>6

-----------------------------------------------------------------------------
\* The fields of a frame after the updates the actions make.
LEMMA FrameFieldsUpdate ==
    ASSUME NEW f, DOMAIN f = FrameFields, NEW r, NEW kk, NEW c
    PROVE  /\ [f EXCEPT !.root = r, !.k = kk].t = f.t
           /\ [f EXCEPT !.root = r, !.k = kk].inst = f.inst
           /\ [f EXCEPT !.root = r, !.k = kk].instcopy = f.instcopy
           /\ [f EXCEPT !.root = r, !.k = kk].root = r
           /\ [f EXCEPT !.root = r, !.k = kk].k = kk
           /\ [f EXCEPT !.instcopy = c].t = f.t
           /\ [f EXCEPT !.instcopy = c].inst = f.inst
           /\ [f EXCEPT !.instcopy = c].instcopy = c
           /\ [f EXCEPT !.instcopy = c].root = f.root
           /\ [f EXCEPT !.instcopy = c].k = f.k
BY Zenon DEF FrameFields

LEMMA NewFrameFields ==
    ASSUME NEW t, NEW inst
    PROVE  /\ Frame(t, inst).t = t /\ Frame(t, inst).inst = inst
           /\ Frame(t, inst).k = 1 /\ Frame(t, inst).root = <<>>
           /\ Frame(t, inst).instcopy = <<>>
BY DEF Frame

\* The definitions of a template body are accepted definitions.
LEMMA BodyDefs ==
    ASSUME body \in BodySpace, NEW t \in Templates
    PROVE  /\ body[t] \in Seq(Defn)
           /\ Len(body[t]) \in Nat
           /\ \A k \in 1..Len(body[t]) : body[t][k] \in Defn
BY AcceptedShape

\* A definition of an accepted netlist is an element or an instance, after
\* its kind, and holds no blank node.
LEMMA DefnKinds ==
    ASSUME NEW d \in Defn \cup CopyDefs
    PROVE  /\ IsSub(d) => d \in SubDefs
           /\ d \in Defn => (~IsSub(d) => d \in ElemDefs)
           /\ d \in Defn => NoBlank(d)
           /\ d.kind \in {"Elem", "Sub"}
<1>1. d \in Defn => NoBlank(d)
  BY AcceptedShape DEF Defn, ElemDefs, SubDefs, NoBlank
<1>. QED
  BY <1>1 DEF IsSub, Defn, ElemDefs, SubDefs, CopyDefs

LEMMA TInvInit == Init => TInv
<1> SUFFICES ASSUME Init PROVE TInv
  OBVIOUS
<1>1. IInv
  BY IInvInit
<1>2. defs \in Seq(TopDefs)
  <2>1. Defn \subseteq TopDefs
    BY DefnKinds DEF TopDefs
  <2>. QED
    BY <2>1, AcceptedShape, SeqMonotonic DEF Init
<1>4. \A sl \in Slots : XlSlotOK(sl)
  BY ClearShape, SMTT(30) DEF Init, XlSlotOK, SlotVals
<1>. QED
  BY <1>1, <1>2, <1>4, EmptySeq DEF Init, TInv

\* The actions that leave the stack empty and the slots alone.
LEMMA TInvDriverSkip == TInv /\ DriverSkip => TInv'
<1> SUFFICES ASSUME TInv, DriverSkip PROVE TInv'
  OBVIOUS
<1>1. IInv'
  BY IInvStep DEF Next, TInv
<1>2. stack = <<>> /\ stack' = <<>> /\ pos <= Len(defs)
  BY DEF DriverSkip
<1>3. Slots' = Slots
  BY DEF DriverSkip, Slots
<1>. QED
  BY <1>1, <1>2, <1>3 DEF DriverSkip, TInv, XlSlotOK

LEMMA TInvStutter == TInv /\ UNCHANGED vars => TInv'
<1> SUFFICES ASSUME TInv, UNCHANGED vars PROVE TInv'
  OBVIOUS
<1>1. IInv'
  BY IInvStep DEF TInv
<1>2. /\ body' = body /\ defs' = defs /\ pos' = pos /\ stack' = stack
      /\ instances' = instances /\ xl' = xl
  BY DEF vars
<1>3. Slots' = Slots
  BY <1>2 DEF Slots
<1>4. \A k \in DOMAIN stack' : FrameOK(k)'
  BY <1>2 DEF TInv, FrameOK
<1>5. \A sl \in Slots' : XlSlotOK(sl)'
  BY <1>2, <1>3 DEF TInv, XlSlotOK
<1>. QED
  BY <1>1, <1>2, <1>3, <1>4, <1>5 DEF TInv

LEMMA TInvDriverExpand == TInv /\ DriverExpand => TInv'
<1> SUFFICES ASSUME TInv, DriverExpand PROVE TInv'
  OBVIOUS
<1>1. IInv'
  BY IInvStep DEF Next, TInv
<1>2. defs[pos] \in SubDefs
  BY DefnKinds DEF TInv, DriverExpand, TopDefs
<1> DEFINE g == Frame(defs[pos].type, defs[pos])
<1>3. /\ g.t \in Templates /\ g.inst \in SubDefs /\ g.inst.type = g.t
      /\ g.k = 1 /\ g.root = <<>> /\ g.instcopy = <<>>
  BY <1>2, NewFrameFields DEF SubDefs
<1>4. Len(body[g.t]) \in Nat
  BY <1>3, BodyDefs DEF TInv
<1>. HIDE DEF g
<1>5. stack' = <<g>>
  BY DEF DriverExpand, g
<1>6. FrameOK(1)'
  <2>1. body' = body /\ stack'[1] = g /\ Len(stack') = 1
    BY <1>5 DEF DriverExpand
  <2>2. <<>> \in Seq(Insts) /\ <<>> \in Seq(Copies(1, g.t))
    BY EmptySeq
  <2>3. g.k \in 1..Len(body[g.t]) + 1 /\ ~(1 < Len(stack'))
    BY <1>3, <1>4, <2>1
  <2>. QED
    BY <1>3, <2>1, <2>2, <2>3, Zenon DEF FrameOK
<1>7. Slots' = Slots
  BY DEF DriverExpand, Slots
<1>8. \A k \in DOMAIN stack' : FrameOK(k)'
  BY <1>5, <1>6
<1>9. \A sl \in Slots' : XlSlotOK(sl)'
  BY <1>7 DEF DriverExpand, TInv, XlSlotOK
<1>10. stack' # <<>> => pos' <= Len(defs')
  BY DEF DriverExpand
<1>. QED
  BY <1>1, <1>7, <1>8, <1>9, <1>10 DEF DriverExpand, TInv

\* A copy made by frame k (nested when its instance list is not empty) is
\* a copy frame k may hold.
LEMMA CopyElemIn ==
    ASSUME NEW t \in Templates, NEW inst \in SubDefs, inst.type = t,
           NEW d \in ElemDefs, NEW l \in Seq(Insts),
           NEW k \in Nat, l # <<>> => k >= 2
    PROVE  CopyElem(t, inst, d, l) \in Copies(k, t)
BY CopyElemShape DEF Copies, NodeOK

LEMMA FixNodesIn ==
    ASSUME NEW t \in Templates, NEW inst, inst.inst \in Insts,
           NEW sub \in SubDefs,
           NEW sv \in [DOMAIN sub.nodes -> SlotVals],
           \A j \in DOMAIN sv : sv[j].x # NoNode => sv[j].nr \in 1..Len(Ports[t]),
           NEW c \in CopyDefs,
           \A j \in DOMAIN c.nodes :
              IsBlank(c.nodes[j]) => c.nodes[j].blank \in DOMAIN sub.nodes,
           NEW l \in Seq(Insts),
           NEW k \in Nat, l # <<>> => k >= 2
    PROVE  FixNodes(t, inst, sub, sv, c, l) \in Copies(k, t)
BY FixNodesShape DEF Copies, NodeOK

\* Facts about the stack that every action on a non-empty stack uses.
LEMMA StackFacts ==
    ASSUME TInv, stack # <<>>
    PROVE  /\ Len(stack) \in Nat \ {0}
           /\ DOMAIN stack = 1..Len(stack)
           /\ \A k \in 1..Len(stack) : DOMAIN stack[k] = FrameFields
           /\ \A k \in 1..Len(stack) : FrameOK(k)
           /\ Top = stack[Len(stack)]
           /\ instances = Path(stack, Len(stack) - 1)
           /\ \A k \in 1..Len(stack) - 1 : stack[k].instcopy = Path(stack, k - 1)
<1>1. stack \in Seq(Range(stack))
  BY DEF TInv, IInv
<1>2. Len(stack) \in Nat /\ DOMAIN stack = 1..Len(stack)
  BY <1>1, LenProperties
<1>3. Len(stack) # 0
  BY <1>1, <1>2, EmptySeq
<1>. QED
  BY <1>2, <1>3, ZenonT(30) DEF TInv, IInv, Top

LEMMA TInvCopyElement == TInv /\ CopyElement => TInv'
<1> SUFFICES ASSUME TInv, CopyElement PROVE TInv'
  OBVIOUS
<1>1. IInv'
  BY IInvStep DEF Next, TInv
<1> DEFINE n == Len(stack)
<1>0. /\ n \in Nat \ {0}
      /\ DOMAIN stack = 1..n
      /\ \A k \in 1..n : DOMAIN stack[k] = FrameFields
      /\ \A k \in 1..n : FrameOK(k)
      /\ Top = stack[n]
      /\ instances = Path(stack, n - 1)
  BY StackFacts DEF CopyElement
<1>00. n \in Nat \ {0}
  BY <1>0
<1>2. /\ Top.t \in Templates /\ Top.inst \in SubDefs /\ Top.inst.type = Top.t
      /\ Top.k \in 1..Len(body[Top.t]) /\ Top.root \in Seq(Copies(n, Top.t))
      /\ instances \in Seq(Insts)
  BY <1>0 DEF FrameOK, CopyElement, TInv
<1>3. Cur \in ElemDefs
  <2>1. Cur \in Defn
    BY <1>2, BodyDefs DEF TInv, Cur
  <2>. QED
    BY <2>1, DefnKinds DEF CopyElement
<1>4. instances # <<>> => n >= 2
  <2>1. n = 1 => instances = <<>>
    BY <1>0 DEF Path
  <2>. QED
    BY <2>1, <1>0
<1> DEFINE ce == CopyElem(Top.t, Top.inst, Cur, instances)
           f == [Top EXCEPT !.root = <<ce>> \o Top.root, !.k = Top.k + 1]
<1>5. ce \in Copies(n, Top.t)
  BY <1>0, <1>2, <1>3, <1>4, CopyElemIn
<1>6. /\ f.t = Top.t /\ f.inst = Top.inst /\ f.instcopy = Top.instcopy
      /\ f.root = <<ce>> \o Top.root /\ f.k = Top.k + 1
  BY <1>0, FrameFieldsUpdate
<1>7. stack' = [stack EXCEPT ![n] = f]
  BY DEF CopyElement
<1>. HIDE DEF ce, f
<1>8. /\ Len(stack') = n /\ DOMAIN stack' = 1..n
      /\ stack'[n] = f
      /\ \A k \in 1..n - 1 : stack'[k] = stack[k]
  BY <1>0, <1>7
<1>9. f.root \in Seq(Copies(n, Top.t))
  BY <1>2, <1>5, <1>6, ConcatProperties, EmptySeq, AppendProperties
<1>10. body' = body
  BY DEF CopyElement
<1>11. FrameOK(n)'
  <2>1. Top.instcopy \in Seq(Insts) /\ Len(body[Top.t]) \in Nat
    BY <1>0, <1>2, BodyDefs DEF FrameOK, TInv
  <2>2. f.k \in 1..Len(body[f.t]) + 1
    BY <1>2, <1>6, <2>1, SMTT(30)
  <2>3. ~(n < Len(stack'))
    BY <1>8
  <2>. QED
    BY <1>2, <1>6, <1>8, <1>9, <1>10, <2>1, <2>2, <2>3, Zenon DEF FrameOK
<1>12. ASSUME NEW k \in 1..n - 1 PROVE FrameOK(k)'
  <2>1. FrameOK(k) /\ stack'[k] = stack[k] /\ k < n
    BY <1>0, <1>8
  <2>2. stack'[k + 1].inst = stack[k + 1].inst
    <3>1. CASE k + 1 = n
      BY <3>1, <1>0, <1>6, <1>8
    <3>2. CASE k + 1 # n
      <4>1. k + 1 \in 1..n - 1
        BY <3>2, <1>00
      <4>. QED
        BY <4>1, <1>8
    <3>. QED
      BY <3>1, <3>2
  <2>. QED
    BY <2>1, <2>2, <1>8, <1>10 DEF FrameOK
<1>13. <<Top.t, Top.k>> \in Slots
  BY <1>2 DEF Slots
<1>14. \A sl \in Slots' : XlSlotOK(sl)'
  <2>1. Slots' = Slots
    BY <1>10 DEF Slots
  <2>2. xl' = [xl EXCEPT ![<<Top.t, Top.k>>] = Clear(Cur)]
    BY DEF CopyElement
  <2>3. Clear(Cur) \in [DOMAIN Cur.nodes -> SlotVals]
    BY ClearShape
  <2>4. ASSUME NEW sl \in Slots PROVE XlSlotOK(sl)'
    <3>1. CASE sl = <<Top.t, Top.k>>
      <4>1. xl'[sl] = Clear(Cur) /\ body[sl[1]][sl[2]] = Cur
        BY <3>1, <2>2, <1>13 DEF TInv, Cur
      <4>2. /\ Clear(Cur) \in [DOMAIN Cur.nodes -> SlotVals]
            /\ \A j \in DOMAIN Cur.nodes : Clear(Cur)[j].x = NoNode
        BY ClearShape
      <4>3. xl'[sl] \in [DOMAIN body'[sl[1]][sl[2]].nodes -> SlotVals]
        BY <4>1, <4>2, <1>10
      <4>4. \A j \in DOMAIN xl'[sl] : xl'[sl][j].x = NoNode
        BY <4>1, <4>2
      <4>5. \A j \in DOMAIN xl'[sl] :
               xl'[sl][j].x # NoNode => xl'[sl][j].nr \in 1..Len(Ports[sl[1]])
        BY <4>4, SMTT(30)
      <4>. QED
        BY <4>3, <4>5 DEF XlSlotOK
    <3>2. CASE sl # <<Top.t, Top.k>>
      BY <3>2, <2>2, <1>10 DEF TInv, XlSlotOK
    <3>. QED
      BY <3>1, <3>2
  <2>. QED
    BY <2>1, <2>4
<1>15. DOMAIN xl' = Slots'
  BY <1>10 DEF CopyElement, TInv, Slots
<1>. QED
  BY <1>1, <1>8, <1>11, <1>12, <1>14, <1>15 DEF CopyElement, TInv

LEMMA TInvDescend == TInv /\ Descend => TInv'
<1> SUFFICES ASSUME TInv, Descend PROVE TInv'
  OBVIOUS
<1>1. IInv'
  BY IInvStep, SMTT(30) DEF Next, TInv
<1>00. PICK n \in Nat \ {0} : n = Len(stack)
  BY StackFacts, ZenonT(30) DEF Descend
<1>0. /\ DOMAIN stack = 1..n
      /\ \A k \in 1..n : DOMAIN stack[k] = FrameFields
      /\ \A k \in 1..n : FrameOK(k)
      /\ Top = stack[n]
  BY <1>00, StackFacts DEF Descend
<1>2. /\ Top.t \in Templates /\ Top.inst \in SubDefs /\ Top.inst.type = Top.t
      /\ Top.k \in 1..Len(body[Top.t]) /\ Top.root \in Seq(Copies(n, Top.t))
      /\ instances \in Seq(Insts)
  BY <1>0 DEF FrameOK, Descend, TInv
<1>3. Cur \in SubDefs
  <2>1. Cur \in Defn
    BY <1>2, BodyDefs DEF TInv, Cur
  <2>. QED
    BY <2>1, DefnKinds DEF Descend
<1> DEFINE f == [Top EXCEPT !.instcopy = instances]
           g == Frame(Cur.type, Cur)
           s2 == [stack EXCEPT ![n] = f]
<1>4. /\ f.t = Top.t /\ f.inst = Top.inst /\ f.instcopy = instances
      /\ f.root = Top.root /\ f.k = Top.k
  BY <1>0, <1>00, FrameFieldsUpdate
<1>5. /\ g.t = Cur.type /\ g.inst = Cur /\ g.k = 1 /\ g.root = <<>>
      /\ g.instcopy = <<>>
  BY NewFrameFields
<1>6. stack' = Append(s2, g)
  BY <1>00 DEF Descend
<1>. HIDE DEF f, g, s2
<1>7. /\ Len(stack') = n + 1 /\ DOMAIN stack' = 1..n + 1
      /\ stack'[n + 1] = g /\ stack'[n] = f
      /\ \A k \in 1..n - 1 : stack'[k] = stack[k]
  <2> DEFINE FS == Range(stack) \cup {f, g}
  <2>1. stack \in Seq(FS)
    BY SeqMonotonic DEF TInv, IInv
  <2>2. /\ s2 \in Seq(FS) /\ Len(s2) = n
        /\ \A j \in 1..n : s2[j] = IF j = n THEN f ELSE stack[j]
    BY <2>1, <1>00, ExceptSeq DEF s2
  <2>3. /\ Append(s2, g) \in Seq(FS) /\ Len(Append(s2, g)) = n + 1
        /\ \A j \in 1..n : Append(s2, g)[j] = s2[j]
        /\ Append(s2, g)[n + 1] = g
    BY <2>2, AppendProperties
  <2>4. DOMAIN stack' = 1..n + 1
    BY <2>3, <1>6, <1>00, LenProperties
  <2>. QED
    BY <2>2, <2>3, <2>4, <1>6, <1>00
<1>8. body' = body
  BY DEF Descend
<1>9. <<>> \in Seq(Insts) /\ <<>> \in Seq(Copies(n + 1, g.t))
  BY EmptySeq
<1>10. Len(body[Cur.type]) \in Nat /\ Cur.type \in Templates /\ Cur.type = Cur.type
  BY <1>3, BodyDefs DEF TInv, SubDefs
<1>11. FrameOK(n + 1)'
  <2>1. g.k \in 1..Len(body[g.t]) + 1 /\ ~(n + 1 < Len(stack'))
    BY <1>5, <1>7, <1>10
  <2>2. g.t \in Templates /\ g.inst \in SubDefs /\ g.inst.type = g.t
    BY <1>3, <1>5, <1>10
  <2>. QED
    BY <1>5, <1>7, <1>8, <1>9, <2>1, <2>2, Zenon DEF FrameOK
<1>12. FrameOK(n)'
  <2>1. Len(body[Top.t]) \in Nat
    BY <1>2, BodyDefs DEF TInv
  <2>2. /\ f.k \in 1..Len(body[f.t]) + 1
        /\ n < Len(stack') /\ f.k <= Len(body[f.t])
    BY <1>2, <1>4, <1>7, <2>1, <1>00
  <2>3. body[f.t][f.k] = stack'[n + 1].inst
    BY <1>4, <1>5, <1>7, SMTT(30) DEF Cur
  <2>. QED
    BY <1>2, <1>4, <1>7, <1>8, <2>2, <2>3, Zenon DEF FrameOK
<1>13. ASSUME NEW k \in 1..n - 1 PROVE FrameOK(k)'
  <2>1. FrameOK(k) /\ stack'[k] = stack[k] /\ k < n /\ k < n + 1
    BY <1>0, <1>7, <1>00
  <2>2. stack'[k + 1].inst = stack[k + 1].inst
    <3>1. CASE k + 1 = n
      BY <3>1, <1>0, <1>4, <1>7
    <3>2. CASE k + 1 # n
      <4>1. k + 1 \in 1..n - 1
        BY <3>2, <1>00
      <4>. QED
        BY <4>1, <1>7
    <3>. QED
      BY <3>1, <3>2
  <2>3. Len(stack) = n /\ Len(stack') = n + 1
    BY <1>7, <1>00
  <2>. QED
    BY <2>1, <2>2, <2>3, <1>8 DEF FrameOK
<1>14. \A k \in DOMAIN stack' : FrameOK(k)'
  <2> SUFFICES ASSUME NEW k \in 1..n + 1 PROVE FrameOK(k)'
    BY <1>7
  <2>1. k \in 1..n - 1 \/ k = n \/ k = n + 1
    BY <1>00
  <2>. QED
    BY <2>1, <1>11, <1>12, <1>13
<1>15. <<Top.t, Top.k>> \in Slots
  BY <1>2 DEF Slots
<1>16. \A sl \in Slots' : XlSlotOK(sl)'
  <2>1. Slots' = Slots
    BY <1>8 DEF Slots
  <2>2. xl' = [xl EXCEPT ![<<Top.t, Top.k>>] = Xlat(Top.t, Top.inst, Cur)]
    BY DEF Descend
  <2>3. /\ Xlat(Top.t, Top.inst, Cur) \in [DOMAIN Cur.nodes -> SlotVals]
        /\ \A j \in DOMAIN Cur.nodes :
              Xlat(Top.t, Top.inst, Cur)[j].x # NoNode =>
                 Xlat(Top.t, Top.inst, Cur)[j].nr \in 1..Len(Ports[Top.t])
    BY <1>2, XlatShape, SMTT(30)
  <2>4. ASSUME NEW sl \in Slots PROVE XlSlotOK(sl)'
    <3>1. CASE sl = <<Top.t, Top.k>>
      <4>1. /\ xl'[sl] = Xlat(Top.t, Top.inst, Cur)
            /\ body[sl[1]][sl[2]] = Cur /\ sl[1] = Top.t
        BY <3>1, <2>2, <1>15, SMTT(30) DEF TInv, Cur
      <4>. QED
        BY <4>1, <2>3, <1>8 DEF XlSlotOK
    <3>2. CASE sl # <<Top.t, Top.k>>
      BY <3>2, <2>2, <1>8, SMTT(30) DEF TInv, XlSlotOK
    <3>. QED
      BY <3>1, <3>2
  <2>. QED
    BY <2>1, <2>4
<1>17. DOMAIN xl' = Slots'
  BY <1>8 DEF Descend, TInv, Slots
<1>18. instances' \in Seq(Insts)
  BY <1>2, AppendProperties DEF Descend, SubDefs
<1>19. stack' # <<>> => pos' <= Len(defs')
  <2>1. stack # <<>>
    BY SMTT(30) DEF Descend
  <2>. QED
    BY <2>1 DEF Descend, TInv
<1>. QED
  BY <1>1, <1>14, <1>16, <1>17, <1>18, <1>19, <1>8, SMTT(30) DEF Descend, TInv

LEMMA TInvReturn == TInv /\ Return => TInv'
<1> SUFFICES ASSUME TInv, Return PROVE TInv'
  OBVIOUS
<1>1. IInv'
  BY IInvStep DEF Next, TInv
<1>00. PICK n \in Nat \ {0} : n = Len(stack)
  BY StackFacts DEF Return
<1>01. n >= 2
  BY <1>00, SMTT(30) DEF Return
<1>0. /\ DOMAIN stack = 1..n
      /\ \A k \in 1..n : DOMAIN stack[k] = FrameFields
      /\ \A k \in 1..n : FrameOK(k)
      /\ Top = stack[n]
      /\ \A k \in 1..n - 1 : stack[k].instcopy = Path(stack, k - 1)
  BY <1>00, StackFacts, SMTT(30) DEF Return
<1> DEFINE p == stack[n - 1]
           sub == body[p.t][p.k]
           sv == xl[<<p.t, p.k>>]
           cp == [j \in DOMAIN Top.root |->
                    FixNodes(p.t, p.inst, sub, sv, Top.root[j], p.instcopy)]
           f == [p EXCEPT !.root = cp \o p.root, !.k = p.k + 1]
<1>2. /\ p.t \in Templates /\ p.inst \in SubDefs /\ p.inst.type = p.t
      /\ p.k \in 1..Len(body[p.t]) /\ sub = stack[n].inst
      /\ p.instcopy \in Seq(Insts) /\ p.root \in Seq(Copies(n - 1, p.t))
      /\ DOMAIN p = FrameFields
  <2>1. n - 1 \in 1..n /\ n - 1 < Len(stack)
    BY <1>00, <1>01
  <2>2. FrameOK(n - 1)
    BY <2>1, <1>0, SMTT(30)
  <2>. QED
    BY <2>1, <2>2, <1>0 DEF FrameOK
<1>3. /\ Top.t \in Templates /\ Top.inst \in SubDefs /\ Top.inst.type = Top.t
      /\ Top.root \in Seq(Copies(n, Top.t)) /\ Top.inst = sub
  BY <1>0, <1>2, <1>00, SMTT(30) DEF FrameOK
<1>4. /\ sub \in SubDefs
      /\ DOMAIN sub.nodes = 1..Len(Ports[Top.t])
  <2>0. sub \in SubDefs /\ sub.type = Top.t
    BY <1>3
  <2>. HIDE DEF sub
  <2>1. sub.nodes \in Seq(Nodes) /\ Len(sub.nodes) = Len(Ports[Top.t])
    BY <2>0, Zenon DEF SubDefs
  <2>. QED
    BY <1>3, <2>1, LenProperties, SMTT(30)
<1>5. /\ <<p.t, p.k>> \in Slots
      /\ sv \in [DOMAIN sub.nodes -> SlotVals]
      /\ \A j \in DOMAIN sv : sv[j].x # NoNode => sv[j].nr \in 1..Len(Ports[p.t])
  <2>1. <<p.t, p.k>> \in Slots
    BY <1>2 DEF Slots
  <2>2. XlSlotOK(<<p.t, p.k>>)
    BY <2>1 DEF TInv
  <2>. QED
    BY <2>1, <2>2, Zenon DEF XlSlotOK
<1>6. p.instcopy # <<>> => n - 1 >= 2
  <2>1. n - 1 \in 1..n - 1
    BY <1>01
  <2>2. p.instcopy = Path(stack, n - 2)
    BY <2>1, <1>0
  <2>3. n = 2 => Path(stack, n - 2) = <<>>
    BY DEF Path
  <2>. QED
    BY <2>2, <2>3, <1>01
<1>7. \A j \in DOMAIN Top.root :
         FixNodes(p.t, p.inst, sub, sv, Top.root[j], p.instcopy) \in Copies(n - 1, p.t)
  <2> SUFFICES ASSUME NEW j \in DOMAIN Top.root
               PROVE  FixNodes(p.t, p.inst, sub, sv, Top.root[j], p.instcopy)
                         \in Copies(n - 1, p.t)
    OBVIOUS
  <2>1. Top.root[j] \in Copies(n, Top.t)
    BY <1>3, ElementOfSeq, LenProperties, SMTT(30)
  <2>2. /\ Top.root[j] \in CopyDefs
        /\ \A i \in DOMAIN Top.root[j].nodes :
              IsBlank(Top.root[j].nodes[i]) =>
                 Top.root[j].nodes[i].blank \in DOMAIN sub.nodes
    BY <2>1, <1>4 DEF Copies, NodeOK
  <2>3. p.inst.inst \in Insts /\ n - 1 \in Nat
    BY <1>2, <1>01 DEF SubDefs
  <2>. QED
    BY <1>2, <1>4, <1>5, <1>6, <2>2, <2>3, FixNodesIn, ZenonT(30)
<1>8. cp \o p.root \in Seq(Copies(n - 1, p.t))
  <2>1. cp \in [DOMAIN Top.root -> Copies(n - 1, p.t)]
    BY <1>7
  <2>2. cp \in Seq(Copies(n - 1, p.t))
    BY <2>1, <1>3, SeqOnDomain, ZenonT(30)
  <2>3. p.root \in Seq(Copies(n - 1, p.t))
    BY <1>2
  <2>. HIDE DEF cp, p
  <2>. QED
    BY <2>2, <2>3, ConcatProperties, SMTT(30)
<1>9. /\ f.t = p.t /\ f.inst = p.inst /\ f.instcopy = p.instcopy
      /\ f.root = cp \o p.root /\ f.k = p.k + 1
  <2>1. DOMAIN p = FrameFields
    BY <1>2
  <2>. HIDE DEF p, cp
  <2>. QED
    BY <2>1, Zenon DEF FrameFields
<1>10. stack' = Append(SubSeq(stack, 1, n - 2), f)
  BY <1>00 DEF Return
<1>. HIDE DEF p, sub, sv, cp, f
<1>11. /\ Len(stack') = n - 1 /\ DOMAIN stack' = 1..n - 1
       /\ stack'[n - 1] = f
       /\ \A k \in 1..n - 2 : stack'[k] = stack[k]
  <2> DEFINE FS == Range(stack) \cup {f}
  <2>1. stack \in Seq(FS)
    BY SeqMonotonic DEF TInv, IInv
  <2>2. /\ SubSeq(stack, 1, n - 2) \in Seq(FS)
        /\ Len(SubSeq(stack, 1, n - 2)) = n - 2
        /\ \A i \in 1..n - 2 : SubSeq(stack, 1, n - 2)[i] = stack[i]
    <3>1. n - 2 \in Nat /\ n - 2 <= Len(stack)
      BY <1>00, <1>01
    <3>. QED
      BY <2>1, <3>1, PrefixProperties
  <2>3. f \in FS
    OBVIOUS
  <2>. HIDE DEF FS
  <2>4. /\ Append(SubSeq(stack, 1, n - 2), f) \in Seq(FS)
        /\ Len(Append(SubSeq(stack, 1, n - 2), f)) = n - 1
        /\ \A i \in 1..n - 2 : Append(SubSeq(stack, 1, n - 2), f)[i] = stack[i]
        /\ Append(SubSeq(stack, 1, n - 2), f)[n - 1] = f
    BY <2>2, <2>3, <1>01, AppendProperties
  <2>5. DOMAIN stack' = 1..n - 1
    BY <2>4, <1>10, LenProperties, SMTT(30)
  <2>. QED
    BY <2>4, <2>5, <1>10
<1>12. body' = body
  BY DEF Return
<1>13. FrameOK(n - 1)'
  <2>1. Len(body[p.t]) \in Nat
    BY <1>2, BodyDefs DEF TInv
  <2>2. f.k \in 1..Len(body[f.t]) + 1 /\ ~(n - 1 < Len(stack'))
    BY <1>2, <1>9, <1>11, <2>1
  <2>3. f.root \in Seq(Copies(n - 1, f.t))
    BY <1>8, <1>9
  <2>. QED
    BY <1>2, <1>9, <1>11, <1>12, <2>2, <2>3, Zenon DEF FrameOK
<1>14. ASSUME NEW k \in 1..n - 2 PROVE FrameOK(k)'
  <2>1. FrameOK(k) /\ stack'[k] = stack[k] /\ k < n /\ k < n - 1
    BY <1>0, <1>11, <1>00
  <2>2. stack'[k + 1].inst = stack[k + 1].inst
    <3>1. CASE k + 1 = n - 1
      BY <3>1, <1>9, <1>11 DEF p
    <3>2. CASE k + 1 # n - 1
      <4>1. k + 1 \in 1..n - 2
        BY <3>2, <1>00
      <4>. QED
        BY <4>1, <1>11
    <3>. QED
      BY <3>1, <3>2
  <2>3. Len(stack) = n /\ Len(stack') = n - 1
    BY <1>11, <1>00
  <2>. QED
    BY <2>1, <2>2, <2>3, <1>12 DEF FrameOK
<1>15. \A k \in DOMAIN stack' : FrameOK(k)'
  <2> SUFFICES ASSUME NEW k \in 1..n - 1 PROVE FrameOK(k)'
    BY <1>11
  <2>1. k \in 1..n - 2 \/ k = n - 1
    BY <1>00, SMTT(30)
  <2>. QED
    BY <2>1, <1>13, <1>14
<1>16. \A sl \in Slots' : XlSlotOK(sl)'
  <2>1. Slots' = Slots
    BY <1>12 DEF Slots
  <2>2. xl' = [xl EXCEPT ![<<p.t, p.k>>] = Clear(sub)]
    BY <1>00 DEF Return, p, sub
  <2>3. /\ Clear(sub) \in [DOMAIN sub.nodes -> SlotVals]
        /\ \A j \in DOMAIN sub.nodes : Clear(sub)[j].x = NoNode
    BY ClearShape
  <2>4. ASSUME NEW sl \in Slots PROVE XlSlotOK(sl)'
    <3>1. CASE sl = <<p.t, p.k>>
      <4>1. xl'[sl] = Clear(sub) /\ body[sl[1]][sl[2]] = sub
        BY <3>1, <2>2, <1>5 DEF TInv, sub
      <4>2. xl'[sl] \in [DOMAIN body'[sl[1]][sl[2]].nodes -> SlotVals]
        BY <4>1, <2>3, <1>12
      <4>3. \A j \in DOMAIN xl'[sl] :
               xl'[sl][j].x # NoNode => xl'[sl][j].nr \in 1..Len(Ports[sl[1]])
        BY <4>1, <2>3, SMTT(30)
      <4>. QED
        BY <4>2, <4>3, SMTT(30) DEF XlSlotOK
    <3>2. CASE sl # <<p.t, p.k>>
      BY <3>2, <2>2, <1>12, SMTT(30) DEF TInv, XlSlotOK
    <3>. QED
      BY <3>1, <3>2
  <2>. QED
    BY <2>1, <2>4
<1>17. DOMAIN xl' = Slots'
  BY <1>12, SMTT(30) DEF Return, TInv, Slots
<1>18. instances' \in Seq(Insts)
  BY <1>2, <1>00, SMTT(30) DEF Return, p
<1>19. stack' # <<>> => pos' <= Len(defs')
  <2>1. stack # <<>>
    BY <1>00, <1>0
  <2>. QED
    BY <2>1 DEF Return, TInv
<1>. QED
  BY <1>1, <1>12, <1>15, <1>16, <1>17, <1>18, <1>19, SMTT(30) DEF Return, TInv

\* A copy the outermost call holds has no blank node.
LEMMA OutermostCopies ==
    ASSUME NEW t
    PROVE  Copies(1, t) \subseteq TopDefs
BY DEF Copies, NodeOK, TopDefs, NoBlank

LEMMA TInvDriverReplace == TInv /\ DriverReplace => TInv'
<1> SUFFICES ASSUME TInv, DriverReplace PROVE TInv'
  OBVIOUS
<1>1. IInv'
  BY IInvStep DEF Next, TInv
<1>01. stack # <<>> /\ Len(stack) = 1
  <2>1. Len(stack) = 1
    BY DEF DriverReplace
  <2>2. Len(<<>>) = 0
    BY EmptySeq
  <2>. QED
    BY <2>1, <2>2
<1>0. /\ Len(stack) = 1 /\ FrameOK(1) /\ Top = stack[1]
      /\ pos \in 1..Len(defs) /\ defs \in Seq(TopDefs)
  <2>1. \A k \in 1..Len(stack) : FrameOK(k)
    BY <1>01, StackFacts
  <2>2. pos \in 1..Len(defs) /\ defs \in Seq(TopDefs)
    BY <1>01 DEF TInv
  <2>. QED
    BY <1>01, <2>1, <2>2 DEF Top
<1>2. Top.root \in Seq(TopDefs)
  <2>1. Top.root \in Seq(Copies(1, Top.t))
    BY <1>0 DEF FrameOK
  <2>. QED
    BY <2>1, OutermostCopies, SeqMonotonic
<1>3. /\ Remove(defs, pos) \in Seq(TopDefs)
      /\ Len(Remove(defs, pos)) = Len(defs) - 1
  BY <1>0, RemoveProperties
<1>4. /\ defs' \in Seq(TopDefs)
      /\ Len(defs') = Len(Top.root) + (Len(defs) - 1)
  <2>1. defs' = Top.root \o Remove(defs, pos)
    BY DEF DriverReplace
  <2>2. Top.root \o Remove(defs, pos) \in Seq(TopDefs)
    BY <1>2, <1>3, ConcatProperties
  <2>3. Len(Top.root \o Remove(defs, pos)) = Len(Top.root) + Len(Remove(defs, pos))
    BY <1>2, <1>3, ConcatProperties, ZenonT(30)
  <2>. QED
    BY <2>1, <2>2, <2>3, <1>3
<1>5. pos' \in 1..Len(defs') + 1
  <2>1. Len(Top.root) \in Nat /\ Len(defs) \in Nat
    BY <1>0, <1>2, LenProperties
  <2>2. CASE Top.root # <<>>
    <3>1. Len(Top.root) >= 1
      BY <2>2, <1>2, EmptySeq
    <3>. QED
      BY <2>1, <2>2, <3>1, <1>0, <1>4 DEF DriverReplace
  <2>3. CASE Top.root = <<>>
    BY <2>1, <2>3, <1>0, <1>4 DEF DriverReplace
  <2>. QED
    BY <2>2, <2>3
<1>6. /\ stack' = <<>> /\ instances' = <<>> /\ body' = body /\ xl' = xl
  BY DEF DriverReplace
<1>7. Slots' = Slots
  BY <1>6 DEF Slots
<1>8. \A sl \in Slots' : XlSlotOK(sl)'
  BY <1>6, <1>7 DEF TInv, XlSlotOK
<1>. QED
  BY <1>1, <1>4, <1>5, <1>6, <1>7, <1>8, EmptySeq, SMTT(30) DEF TInv

LEMMA TInvStep == TInv /\ [Next]_vars => TInv'
BY TInvDriverSkip, TInvDriverExpand, TInvCopyElement, TInvDescend,
   TInvReturn, TInvDriverReplace, TInvStutter DEF Next

\* checker_expand_subcircuits keeps the state of the expansion well typed:
\* the frames of the recursion of checker_copy_subcircuits, the instance
\* list, the list position and the translation slots.
THEOREM TypeCorrect == Spec => []TypeOK
<1>1. TInv => TypeOK
  <2> SUFFICES ASSUME TInv PROVE TypeOK
    OBVIOUS
  <2>1. \A k \in DOMAIN defs : defs[k].kind \in {"Elem", "Sub"}
    <3> SUFFICES ASSUME NEW k \in DOMAIN defs PROVE defs[k].kind \in {"Elem", "Sub"}
      OBVIOUS
    <3>1. defs[k] \in Defn \cup CopyDefs
      BY ElementOfSeq, LenProperties DEF TInv, TopDefs
    <3>. QED
      BY <3>1, DefnKinds
  <2>2. \A k \in DOMAIN stack :
           /\ stack[k].t \in Templates
           /\ stack[k].k \in 1..Len(body[stack[k].t]) + 1
           /\ stack[k].instcopy \in Seq(Insts)
    BY DEF TInv, FrameOK
  <2>. QED
    BY <2>1, <2>2 DEF TInv, TypeOK
<1>. QED
  BY <1>1, TInvInit, TInvStep, PTL DEF Spec

\* Every blank node the expansion makes can be resolved: a copy held by a
\* nested call of checker_copy_subcircuits is blank only at a position of
\* the node list of that call's instance, which checker_copy_circuit_nodes
\* looks up through checker_get_circuit_node when the call returns; the
\* outermost call makes no blanks, so none reaches the top-level list.
THEOREM BlanksAlwaysResolvable == Spec => []BlanksResolvable
<1>1. TInv => BlanksResolvable
  <2> SUFFICES ASSUME TInv PROVE BlanksResolvable
    OBVIOUS
  <2>1. ASSUME NEW k \in DOMAIN defs
        PROVE  \A j \in DOMAIN defs[k].nodes : ~IsBlank(defs[k].nodes[j])
    <3>1. defs[k] \in TopDefs
      BY ElementOfSeq, LenProperties DEF TInv
    <3>. QED
      BY <3>1 DEF TopDefs, NoBlank
  <2>2. ASSUME NEW k \in DOMAIN stack, NEW i \in DOMAIN stack[k].root,
               NEW j \in DOMAIN stack[k].root[i].nodes,
               IsBlank(stack[k].root[i].nodes[j])
        PROVE  /\ k >= 2
               /\ stack[k].root[i].nodes[j].blank \in DOMAIN stack[k].inst.nodes
    <3>1. FrameOK(k)
      BY DEF TInv
    <3>2. stack[k].root[i] \in Copies(k, stack[k].t)
      BY <3>1, ElementOfSeq, LenProperties DEF FrameOK
    <3>3. NodeOK(stack[k].root[i].nodes[j], k, stack[k].t)
      BY <3>2 DEF Copies
    <3>4. DOMAIN stack[k].inst.nodes = 1..Len(Ports[stack[k].t])
      <4>1. /\ stack[k].inst.nodes \in Seq(Nodes)
            /\ Len(stack[k].inst.nodes) = Len(Ports[stack[k].t])
        BY <3>1 DEF FrameOK, SubDefs
      <4>. QED
        BY <4>1, LenProperties
    <3>. QED
      BY <2>2, <3>3, <3>4 DEF NodeOK
  <2>. QED
    BY <2>1, <2>2 DEF BlanksResolvable
<1>. QED
  BY <1>1, TInvInit, TInvStep, PTL DEF Spec
=============================================================================
