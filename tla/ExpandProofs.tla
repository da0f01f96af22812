---------------------------- MODULE ExpandProofs ----------------------------
(***************************************************************************)
(* Proofs about the expander of module Expand, for every set of templates, *)
(* ports, node and instance names and every candidate netlist.             *)
(***************************************************************************)
EXTENDS Expand, SequenceTheorems, TLAPS

FrameFields == {"t", "inst", "k", "root", "instcopy"}

\* The instance names of the frames s[1], ..., s[n].
Path(s, n) == [j \in 1..n |-> s[j].inst.inst]

(***************************************************************************)
(* InstancesIsPath strengthened: the stack is a sequence of frames, and    *)
(* every frame below the innermost one saved, in instcopy, the instance    *)
(* names of the frames below it; Return puts that copy back.               *)
(***************************************************************************)
IInv ==
    /\ stack \in Seq(Range(stack))
    /\ \A k \in DOMAIN stack : DOMAIN stack[k] = FrameFields
    /\ instances = Path(stack, Len(stack) - 1)
    /\ \A k \in 1..Len(stack) - 1 : stack[k].instcopy = Path(stack, k - 1)

\* A new frame has the frame fields.
LEMMA FrameDomain ==
    ASSUME NEW t, NEW inst
    PROVE  DOMAIN Frame(t, inst) = FrameFields
BY DEF Frame, FrameFields

\* Updating fields of a frame keeps its domain and the fields not updated.
LEMMA FrameUpdate ==
    ASSUME NEW f, DOMAIN f = FrameFields, NEW r, NEW kk, NEW c
    PROVE  /\ DOMAIN [f EXCEPT !.root = r, !.k = kk] = FrameFields
           /\ [f EXCEPT !.root = r, !.k = kk].inst = f.inst
           /\ [f EXCEPT !.root = r, !.k = kk].instcopy = f.instcopy
           /\ DOMAIN [f EXCEPT !.instcopy = c] = FrameFields
           /\ [f EXCEPT !.instcopy = c].inst = f.inst
           /\ [f EXCEPT !.instcopy = c].instcopy = c
BY DEF FrameFields

\* A prefix of a sequence is a sequence over the same set, of the given
\* length, with the same elements.
LEMMA PrefixProperties ==
    ASSUME NEW S, NEW st \in Seq(S), NEW m \in Nat, m <= Len(st)
    PROVE  /\ SubSeq(st, 1, m) \in Seq(S)
           /\ Len(SubSeq(st, 1, m)) = m
           /\ \A i \in 1..m : SubSeq(st, 1, m)[i] = st[i]
<1>1. \A i \in 1..m : st[i] \in S
  OBVIOUS
<1>. QED
  BY <1>1, SubSeqProperties

LEMMA IInvInit == Init => IInv
<1> SUFFICES ASSUME Init PROVE IInv
  OBVIOUS
<1>1. stack = <<>> /\ instances = <<>>
  BY DEF Init
<1>2. Path(stack, Len(stack) - 1) = <<>>
  BY <1>1 DEF Path
<1>. QED
  BY <1>1, <1>2 DEF IInv, Range

LEMMA IInvStep == IInv /\ [Next]_vars => IInv'
<1> SUFFICES ASSUME IInv, [Next]_vars PROVE IInv'
  OBVIOUS
<1> DEFINE n == Len(stack)
           R == Range(stack)
<1>0. /\ stack \in Seq(R)
      /\ n \in Nat
      /\ DOMAIN stack = 1..n
      /\ \A k \in 1..n : DOMAIN stack[k] = FrameFields
      /\ instances = Path(stack, n - 1)
      /\ \A k \in 1..n - 1 : stack[k].instcopy = Path(stack, k - 1)
  BY LenProperties DEF IInv
<1>1. CASE DriverSkip
  BY <1>1 DEF DriverSkip, IInv
<1>2. CASE DriverExpand
  <2>1. stack = <<>> /\ instances = <<>>
    BY <1>2, <1>0 DEF DriverExpand, IInv, Path
  <2>2. stack' = <<Frame(defs[pos].type, defs[pos])>> /\ instances' = <<>>
    BY <1>2, <2>1 DEF DriverExpand
  <2>3. stack' \in Seq(Range(stack'))
    BY <2>2 DEF Range
  <2>. QED
    BY <2>2, <2>3, FrameDomain DEF IInv, Path
<1>3. CASE CopyElement
  <2>1. n \in Nat \ {0}
    BY <1>3, <1>0 DEF CopyElement
  <2> DEFINE f == [Top EXCEPT !.root = <<CopyElem(Top.t, Top.inst, Cur,
                                                  instances)>> \o @,
                              !.k = @ + 1]
  <2>2. stack' = [stack EXCEPT ![n] = f] /\ instances' = instances
    BY <1>3 DEF CopyElement
  <2>3. DOMAIN Top = FrameFields
    BY <1>0, <2>1 DEF Top
  <2>4. DOMAIN f = FrameFields /\ f.inst = Top.inst /\ f.instcopy = Top.instcopy
    BY <2>3, FrameUpdate
  <2>5. stack \in Seq(R \cup {f})
    BY <1>0, SeqMonotonic
  <2>6. /\ stack' \in Seq(R \cup {f})
        /\ Len(stack') = n
        /\ \A j \in 1..n : stack'[j] = IF j = n THEN f ELSE stack[j]
    BY <2>1, <2>2, <2>5
  <2>7. stack' \in Seq(Range(stack'))
    BY <2>6, SeqOfRange
  <2>8. \A k \in 1..n : /\ stack'[k].inst = stack[k].inst
                        /\ stack'[k].instcopy = stack[k].instcopy
                        /\ DOMAIN stack'[k] = FrameFields
    <3> SUFFICES ASSUME NEW k \in 1..n
                 PROVE  /\ stack'[k].inst = stack[k].inst
                        /\ stack'[k].instcopy = stack[k].instcopy
                        /\ DOMAIN stack'[k] = FrameFields
      OBVIOUS
    <3>1. CASE k = n
      <4>1. stack'[k] = f /\ Top = stack[k]
        BY <3>1, <2>6 DEF Top
      <4>. QED
        BY <4>1, <2>4
    <3>2. CASE k # n
      BY <3>2, <2>6, <1>0
    <3>. QED
      BY <3>1, <3>2
  <2>9. \A k \in 0..n : Path(stack', k) = Path(stack, k)
    BY <2>1, <2>8 DEF Path
  <2>10. \A k \in DOMAIN stack' : DOMAIN stack'[k] = FrameFields
    BY <2>6, <2>8
  <2>11. instances' = Path(stack', Len(stack') - 1)
    <3>1. n - 1 \in 0..n /\ Len(stack') - 1 = n - 1
      BY <2>1, <2>6
    <3>2. Path(stack', n - 1) = Path(stack, n - 1)
      BY <3>1, <2>9
    <3>3. instances' = instances
      BY <2>2
    <3>. QED
      BY <3>1, <3>2, <3>3, <1>0
  <2>12. \A k \in 1..Len(stack') - 1 : stack'[k].instcopy = Path(stack', k - 1)
    BY <1>0, <2>1, <2>6, <2>8, <2>9
  <2>. QED
    BY <2>7, <2>10, <2>11, <2>12, Zenon DEF IInv
<1>4. CASE Descend
  <2>1. n \in Nat \ {0}
    BY <1>4, <1>0 DEF Descend
  <2> DEFINE f == [Top EXCEPT !.instcopy = instances]
             g == Frame(Cur.type, Cur)
             s2 == [stack EXCEPT ![n] = f]
             FS == R \cup {f, g}
  <2>2. stack' = Append(s2, g) /\ instances' = Append(instances, Top.inst.inst)
    BY <1>4 DEF Descend
  <2>3. DOMAIN Top = FrameFields /\ Top = stack[n]
    BY <1>0, <2>1 DEF Top
  <2>4. DOMAIN f = FrameFields /\ f.inst = Top.inst /\ f.instcopy = instances
    BY <2>3, FrameUpdate
  <2>5. DOMAIN g = FrameFields
    BY FrameDomain
  <2>6. stack \in Seq(FS)
    BY <1>0, SeqMonotonic
  <2>7. /\ s2 \in Seq(FS)
        /\ Len(s2) = n
        /\ \A j \in 1..n : s2[j] = IF j = n THEN f ELSE stack[j]
        /\ g \in FS
    BY <2>1, <2>6
  <2> HIDE DEF f, g, s2, FS
  <2>8. /\ stack' \in Seq(FS)
        /\ Len(stack') = n + 1
        /\ \A k \in 1..n : stack'[k] = s2[k]
        /\ stack'[n + 1] = g
    BY <2>1, <2>2, <2>7
  <2>9. stack' \in Seq(Range(stack'))
    BY <2>8, SeqOfRange
  <2>10. \A k \in 1..n - 1 : stack'[k] = stack[k]
    BY <2>1, <2>7, <2>8
  <2>11. stack'[n] = f
    BY <2>1, <2>7, <2>8
  <2>12. \A k \in DOMAIN stack' : DOMAIN stack'[k] = FrameFields
    BY <1>0, <2>1, <2>4, <2>5, <2>8, <2>10, <2>11
  <2>13. \A k \in 0..n - 1 : Path(stack', k) = Path(stack, k)
    BY <2>1, <2>10 DEF Path
  <2>14. Path(stack', n) = Append(Path(stack, n - 1), Top.inst.inst)
    <3>1. stack'[n].inst.inst = Top.inst.inst
      BY <2>4, <2>11
    <3>2. Path(stack', n) = [j \in 1..n |-> IF j = n THEN Top.inst.inst
                                            ELSE stack[j].inst.inst]
      BY <2>1, <2>10, <3>1 DEF Path
    <3>. QED
      BY <2>1, <3>2 DEF Path
  <2>15. instances' = Path(stack', Len(stack') - 1)
    BY <1>0, <2>1, <2>2, <2>8, <2>14
  <2>16. \A k \in 1..Len(stack') - 1 : stack'[k].instcopy = Path(stack', k - 1)
    <3> SUFFICES ASSUME NEW k \in 1..n PROVE stack'[k].instcopy = Path(stack', k - 1)
      BY <2>1, <2>8
    <3>1. CASE k < n
      BY <3>1, <1>0, <2>1, <2>10, <2>13
    <3>2. CASE k = n
      BY <3>2, <1>0, <2>1, <2>4, <2>11, <2>13
    <3>. QED
      BY <3>1, <3>2, <2>1
  <2>. QED
    BY <2>9, <2>12, <2>15, <2>16, Zenon DEF IInv
<1>5. CASE Return
  <2>1. n \in Nat /\ n > 1
    BY <1>5, <1>0 DEF Return
  <2> DEFINE p == stack[n - 1]
             sub == body[p.t][p.k]
             s == xl[<<p.t, p.k>>]
             cp == [j \in DOMAIN Top.root |->
                      FixNodes(p.t, p.inst, sub, s, Top.root[j], p.instcopy)]
             f == [p EXCEPT !.root = cp \o @, !.k = @ + 1]
             s2 == SubSeq(stack, 1, n - 2)
             FS == R \cup {f}
  <2>2. stack' = Append(s2, f) /\ instances' = p.instcopy
    BY <1>5 DEF Return
  <2>3. DOMAIN p = FrameFields
    BY <1>0, <2>1
  <2>4. DOMAIN f = FrameFields /\ f.inst = p.inst /\ f.instcopy = p.instcopy
    BY <2>3, FrameUpdate
  <2>5. p.instcopy = Path(stack, n - 2)
    BY <1>0, <2>1
  <2> HIDE DEF p, sub, s, cp, f, s2, FS
  <2>6. R \subseteq FS /\ f \in FS
    BY DEF FS
  <2>7. stack \in Seq(FS)
    BY <1>0, <2>6, SeqMonotonic
  <2>20. /\ s2 \in Seq(FS)
         /\ Len(s2) = n - 2
         /\ \A i \in 1..n - 2 : s2[i] = stack[i]
    <3>1. n - 2 \in Nat /\ n - 2 <= Len(stack)
      BY <2>1
    <3>2. \A m \in Nat : m <= Len(stack) =>
              /\ SubSeq(stack, 1, m) \in Seq(FS)
              /\ Len(SubSeq(stack, 1, m)) = m
              /\ \A i \in 1..m : SubSeq(stack, 1, m)[i] = stack[i]
      BY <2>7, PrefixProperties
    <3>3. /\ SubSeq(stack, 1, n - 2) \in Seq(FS)
          /\ Len(SubSeq(stack, 1, n - 2)) = n - 2
          /\ \A i \in 1..n - 2 : SubSeq(stack, 1, n - 2)[i] = stack[i]
      BY <3>1, <3>2, Zenon
    <3>. QED
      BY <3>3, Zenon DEF s2
  <2>8. /\ stack' \in Seq(FS)
        /\ Len(stack') = n - 1
        /\ \A k \in 1..n - 2 : stack'[k] = stack[k]
        /\ stack'[n - 1] = f
    BY <2>1, <2>2, <2>6, <2>20
  <2>9. stack' \in Seq(Range(stack'))
    BY <2>8, SeqOfRange
  <2>10. \A k \in DOMAIN stack' : DOMAIN stack'[k] = FrameFields
    BY <1>0, <2>1, <2>4, <2>8
  <2>11. \A k \in 1..n - 1 : stack'[k].inst = stack[k].inst
    BY <2>1, <2>4, <2>8 DEF p
  <2>12. \A k \in 0..n - 1 : Path(stack', k) = Path(stack, k)
    BY <2>1, <2>11 DEF Path
  <2>13. instances' = Path(stack', Len(stack') - 1)
    BY <2>1, <2>2, <2>5, <2>8, <2>12
  <2>14. \A k \in 1..Len(stack') - 1 : stack'[k].instcopy = Path(stack', k - 1)
    <3> SUFFICES ASSUME NEW k \in 1..n - 2
                 PROVE  stack'[k].instcopy = Path(stack', k - 1)
      BY <2>1, <2>8
    <3>0. stack'[k] = stack[k] /\ k \in 1..n - 1
      BY <2>1, <2>8
    <3>1. stack'[k].instcopy = Path(stack, k - 1)
      BY <3>0, <1>0
    <3>2. Path(stack', k - 1) = Path(stack, k - 1)
      BY <2>1, <2>12
    <3>. QED
      BY <3>1, <3>2
  <2>. QED
    BY <2>9, <2>10, <2>13, <2>14, Zenon DEF IInv
<1>6. CASE DriverReplace
  <2>1. stack' = <<>> /\ instances' = <<>>
    BY <1>6 DEF DriverReplace
  <2>. QED
    BY <2>1 DEF IInv, Path, Range
<1>7. CASE UNCHANGED vars
  BY <1>7 DEF vars, IInv, Path
<1>. QED
  BY <1>1, <1>2, <1>3, <1>4, <1>5, <1>6, <1>7 DEF Next

\* The instance list the expander shares between its recursive calls is,
\* in every reachable state, the chain of instances the active calls of
\* checker_copy_subcircuits are copying, outermost first.
THEOREM InstancesArePath == Spec => []InstancesIsPath
<1>1. IInv => InstancesIsPath
  BY DEF IInv, InstancesIsPath, Path
<1>. QED
  BY <1>1, IInvInit, IInvStep, PTL DEF Spec
=============================================================================
