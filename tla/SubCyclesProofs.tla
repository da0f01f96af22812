-------------------------- MODULE SubCyclesProofs --------------------------
(***************************************************************************)
(* Proofs about the subcircuit cycle search of module SubCycles, for every *)
(* set of templates and every bound on the bodies.                         *)
(***************************************************************************)
EXTENDS SubCycles, TLAPS

\* Every body the parser can hand over is a sequence of definitions.
LEMMA BodyIsSeq ==
    ASSUME NEW b \in Bodies, NEW t \in Templates
    PROVE  b[t] \in Seq(Stmts)
<1>1. PICK m \in 0..MaxBody : b[t] \in [1..m -> Stmts]
  BY DEF Bodies
<1>2. m \in Nat
  BY NetlistAssumption
<1>. QED
  BY <1>1, <1>2

\* The "Type" of a "Sub" definition is a name.
LEMMA SubTypeIsName ==
    ASSUME NEW d \in Stmts, IsSub(d)
    PROVE  d.type \in Names
BY DEF Stmts, IsSub, SubStmt, Elem

-----------------------------------------------------------------------------
(***************************************************************************)
(* The type invariant, strengthened by the fact that a running search has *)
(* an active call, so that the innermost frame is defined.                *)
(***************************************************************************)
TypeInv ==
    /\ TypeOK
    /\ status = "run" => Len(stack) >= 1

\* Facts about the innermost frame of a running search, used by each step.
LEMMA TopFacts ==
    ASSUME TypeInv, status = "run"
    PROVE  /\ Len(stack) \in Nat \ {0}
           /\ Top \in Frame
           /\ body[Top.t] \in Seq(Stmts)
           /\ Top.i <= Len(body[Top.t]) => Cur \in Stmts
<1>1. Len(stack) \in Nat \ {0} /\ stack \in Seq(Frame)
  BY DEF TypeInv, TypeOK
<1>2. Top \in Frame
  BY <1>1 DEF Top
<1>3. body[Top.t] \in Seq(Stmts)
  BY <1>2, BodyIsSeq DEF TypeInv, TypeOK, Frame
<1>. QED
  BY <1>1, <1>2, <1>3 DEF Cur, Frame

\* The frame updates of the steps stay frames.
LEMMA FrameNext ==
    ASSUME NEW f \in Frame
    PROVE  [f EXCEPT !.i = @ + 1] \in Frame
BY DEF Frame

LEMMA FrameCyclic ==
    ASSUME NEW f \in Frame, NEW n \in Names
    PROVE  [f EXCEPT !.checked = @ \cup {n}, !.err = @ + 1, !.i = @ + 1]
             \in Frame
<1>1. /\ f.checked \cup {n} \in SUBSET Names
      /\ f.err + 1 \in Nat /\ f.i + 1 \in Nat \ {0}
  BY DEF Frame
<1>. QED
  BY <1>1, Zenon DEF Frame

LEMMA FrameSave ==
    ASSUME NEW f \in Frame, NEW n \in Names, NEW s \in Seq(Templates)
    PROVE  [f EXCEPT !.checked = @ \cup {n}, !.saved = s] \in Frame
BY DEF Frame

LEMMA FrameResume ==
    ASSUME NEW f \in Frame, NEW e \in Nat
    PROVE  [f EXCEPT !.err = @ + e, !.i = @ + 1] \in Frame
<1>1. f.err + e \in Nat /\ f.i + 1 \in Nat \ {0}
  BY DEF Frame
<1>. QED
  BY <1>1, Zenon DEF Frame

LEMMA TypeInvInit == Init => TypeInv
BY DEF Init, TypeInv, TypeOK, NewFrame, Frame

LEMMA TypeInvStep == TypeInv /\ [Next]_vars => TypeInv'
<1> SUFFICES ASSUME TypeInv, [Next]_vars PROVE TypeInv'
  OBVIOUS
<1>0. /\ body \in Bodies /\ start \in Templates /\ stack \in Seq(Frame)
      /\ deps \in Seq(Templates) /\ result \in Nat
  BY DEF TypeInv, TypeOK
<1>1. CASE Skip
  <2>1. status = "run"
    BY <1>1 DEF Skip
  <2>2. Top \in Frame /\ Len(stack) \in Nat \ {0}
    BY <2>1, TopFacts
  <2>3. [Top EXCEPT !.i = @ + 1] \in Frame
    BY <2>2, FrameNext
  <2>4. stack' \in Seq(Frame) /\ Len(stack') = Len(stack)
    BY <1>0, <1>1, <2>2, <2>3 DEF Skip, SetTop
  <2>. QED
    BY <1>0, <1>1, <2>1, <2>2, <2>4 DEF Skip, TypeInv, TypeOK
<1>2. CASE CallUndefined
  BY <1>2 DEF CallUndefined, TypeInv, TypeOK
<1>3. CASE CallCyclic
  <2>1. status = "run" /\ Top.i <= Len(body[Top.t]) /\ Unchecked
    BY <1>3 DEF CallCyclic
  <2>2. Top \in Frame /\ Len(stack) \in Nat \ {0} /\ Cur \in Stmts
    BY <2>1, TopFacts
  <2>3. Cur.type \in Names
    BY <2>1, <2>2, SubTypeIsName DEF Unchecked
  <2>4. [Top EXCEPT !.checked = @ \cup {Cur.type}, !.err = @ + 1,
                    !.i = @ + 1] \in Frame
    BY <2>2, <2>3, FrameCyclic
  <2>5. stack' \in Seq(Frame) /\ Len(stack') = Len(stack)
    BY <1>0, <1>3, <2>2, <2>4 DEF CallCyclic, SetTop
  <2>. QED
    BY <1>0, <1>3, <2>1, <2>2, <2>5 DEF CallCyclic, TypeInv, TypeOK
<1>4. CASE Call
  <2>1. status = "run" /\ Top.i <= Len(body[Top.t]) /\ Unchecked
        /\ Cur.type \in Templates
    BY <1>4 DEF Call
  <2>2. Top \in Frame /\ Len(stack) \in Nat \ {0}
    BY <2>1, TopFacts
  <2>3. [Top EXCEPT !.checked = @ \cup {Cur.type}, !.saved = deps] \in Frame
    BY <1>0, <2>1, <2>2, FrameSave DEF Names
  <2>4. NewFrame(Cur.type) \in Frame
    BY <2>1 DEF NewFrame, Frame
  <2>5. [stack EXCEPT ![Len(stack)] =
           [Top EXCEPT !.checked = @ \cup {Cur.type}, !.saved = deps]]
          \in Seq(Frame)
    BY <1>0, <2>2, <2>3
  <2>6. stack' \in Seq(Frame) /\ Len(stack') >= 1
    BY <1>4, <2>4, <2>5 DEF Call
  <2>7. deps' \in Seq(Templates)
    BY <1>0, <1>4, <2>1 DEF Call
  <2>. QED
    BY <1>0, <1>4, <2>1, <2>6, <2>7 DEF Call, TypeInv, TypeOK
<1>5. CASE Return
  <2>1. status = "run"
    BY <1>5 DEF Return
  <2>2. Top \in Frame /\ Len(stack) \in Nat \ {0}
    BY <2>1, TopFacts
  <2>3. CASE Len(stack) = 1
    <3>1. stack' = <<>> /\ status' = "done" /\ result' = Top.err
          /\ UNCHANGED <<deps, body, start>>
      BY <1>5, <2>3 DEF Return
    <3>. QED
      BY <1>0, <2>2, <3>1 DEF TypeInv, TypeOK, Frame
  <2>4. CASE Len(stack) # 1
    <3>0. Len(stack) - 1 \in 1..Len(stack)
      BY <2>2, <2>4
    <3>1. stack[Len(stack) - 1] \in Frame
      BY <1>0, <3>0
    <3>2. [stack[Len(stack) - 1] EXCEPT !.err = @ + Top.err, !.i = @ + 1]
            \in Frame
      BY <2>2, <3>1, FrameResume DEF Frame
    <3>3. SubSeq(stack, 1, Len(stack) - 2) \in Seq(Frame)
      BY <1>0, <2>2, <2>4, <3>0
    <3>4. stack' \in Seq(Frame) /\ Len(stack') >= 1
      BY <1>5, <2>4, <3>2, <3>3 DEF Return
    <3>5. deps' \in Seq(Templates)
      BY <1>0, <1>5, <2>4, <3>1 DEF Return, Frame
    <3>. QED
      BY <1>0, <1>5, <2>1, <2>4, <3>4, <3>5 DEF Return, TypeInv, TypeOK
  <2>. QED
    BY <2>3, <2>4
<1>6. CASE UNCHANGED vars
  BY <1>6 DEF vars, TypeInv, TypeOK
<1>. QED
  BY <1>1, <1>2, <1>3, <1>4, <1>5, <1>6 DEF Next

-----------------------------------------------------------------------------
(***************************************************************************)
(* The invariant behind DepsIsCallPath.  A caller's copy `saved' of *deps, *)
(* taken before its current child call, is the chain of templates from the *)
(* outermost call down to the caller, as long as no call on that chain has *)
(* counted an error: an error-free call only ever sees the dependency list *)
(* of its own chain, and errors are never taken back.                      *)
(***************************************************************************)
\* The templates of the k outermost calls.
Path(k) == [m \in 1..k |-> stack[m].t]

\* None of the k outermost calls has counted an error.
NoErrBelow(k) == \A m \in 1..k : stack[m].err = 0

SavedInv ==
    \A k \in 1..Len(stack) - 1 : NoErrBelow(k) => stack[k].saved = Path(k)

DepsInv ==
    (status = "run" /\ NoErrBelow(Len(stack))) => deps = Path(Len(stack))

IInv == TypeInv /\ SavedInv /\ DepsInv

\* What each frame update leaves of a frame's template, error count and
\* saved copy (the fields the invariant reads).
LEMMA FieldsNext ==
    ASSUME NEW f \in Frame
    PROVE  /\ [f EXCEPT !.i = @ + 1].t = f.t
           /\ [f EXCEPT !.i = @ + 1].err = f.err
           /\ [f EXCEPT !.i = @ + 1].saved = f.saved
BY Zenon DEF Frame

LEMMA FieldsCyclic ==
    ASSUME NEW f \in Frame, NEW n
    PROVE  [f EXCEPT !.checked = @ \cup {n}, !.err = @ + 1, !.i = @ + 1].err
             = f.err + 1
BY Zenon DEF Frame

LEMMA FieldsSave ==
    ASSUME NEW f \in Frame, NEW n, NEW s
    PROVE  /\ [f EXCEPT !.checked = @ \cup {n}, !.saved = s].t = f.t
           /\ [f EXCEPT !.checked = @ \cup {n}, !.saved = s].err = f.err
           /\ [f EXCEPT !.checked = @ \cup {n}, !.saved = s].saved = s
BY Zenon DEF Frame

LEMMA FieldsResume ==
    ASSUME NEW f \in Frame, NEW e
    PROVE  /\ [f EXCEPT !.err = @ + e, !.i = @ + 1].t = f.t
           /\ [f EXCEPT !.err = @ + e, !.i = @ + 1].err = f.err + e
BY Zenon DEF Frame

\* A step that keeps the n outermost frames keeps SavedInv for them.
LEMMA SavedPrefix ==
    ASSUME SavedInv, NEW n \in Nat, n <= Len(stack) - 1,
           \A m \in 1..n : stack'[m] = stack[m]
    PROVE  \A k \in 1..n : NoErrBelow(k)' => stack'[k].saved = Path(k)'
<1> SUFFICES ASSUME NEW k \in 1..n, NoErrBelow(k)'
             PROVE  stack'[k].saved = Path(k)'
  OBVIOUS
<1>1. NoErrBelow(k) /\ Path(k)' = Path(k)
  BY DEF NoErrBelow, Path
<1> QED
  BY <1>1 DEF SavedInv

LEMMA IInvInit == Init => IInv
<1> SUFFICES ASSUME Init PROVE IInv
  OBVIOUS
<1>1. TypeInv
  BY TypeInvInit
<1>2. Len(stack) = 1 /\ stack[1].t = start /\ deps = <<start>>
  BY DEF Init, NewFrame
<1> QED
  BY <1>1, <1>2 DEF IInv, SavedInv, DepsInv, Path

LEMMA IInvStep == IInv /\ [Next]_vars => IInv'
<1> SUFFICES ASSUME IInv, [Next]_vars PROVE TypeInv' /\ SavedInv' /\ DepsInv'
  BY DEF IInv
<1>t. TypeInv'
  BY TypeInvStep DEF IInv
<1>0. /\ stack \in Seq(Frame) /\ deps \in Seq(Templates)
      /\ stack' \in Seq(Frame)
      /\ SavedInv /\ DepsInv /\ TypeInv
  BY <1>t DEF IInv, TypeInv, TypeOK
<1>1. CASE Skip
  <2>1. status = "run"
    BY <1>1 DEF Skip
  <2>2. Top \in Frame /\ Len(stack) \in Nat \ {0}
    BY <1>0, <2>1, TopFacts
  <2>3. /\ [Top EXCEPT !.i = @ + 1].t = Top.t
        /\ [Top EXCEPT !.i = @ + 1].err = Top.err
    BY <2>2, FieldsNext
  <2>4. /\ Len(stack') = Len(stack)
        /\ \A m \in 1..Len(stack) - 1 : stack'[m] = stack[m]
        /\ stack'[Len(stack)].t = Top.t /\ stack'[Len(stack)].err = Top.err
    BY <1>0, <1>1, <2>2, <2>3 DEF Skip, SetTop
  <2>5. SavedInv'
    BY <1>0, <2>2, <2>4, SavedPrefix DEF SavedInv
  <2>6. NoErrBelow(Len(stack))' = NoErrBelow(Len(stack))
        /\ Path(Len(stack))' = Path(Len(stack))
    BY <2>2, <2>4 DEF NoErrBelow, Path, Top
  <2>7. DepsInv'
    BY <1>0, <1>1, <2>4, <2>6 DEF Skip, DepsInv
  <2> QED
    BY <1>t, <2>5, <2>7
<1>2. CASE CallUndefined
  BY <1>0, <1>2, <1>t DEF CallUndefined, SavedInv, DepsInv, NoErrBelow, Path
<1>3. CASE CallCyclic
  <2>1. status = "run" /\ Top.i <= Len(body[Top.t]) /\ Unchecked
    BY <1>3 DEF CallCyclic
  <2>2. Top \in Frame /\ Len(stack) \in Nat \ {0}
    BY <1>0, <2>1, TopFacts
  <2>3. [Top EXCEPT !.checked = @ \cup {Cur.type}, !.err = @ + 1,
                    !.i = @ + 1].err = Top.err + 1
    BY <2>2, FieldsCyclic
  <2>4. /\ Len(stack') = Len(stack)
        /\ \A m \in 1..Len(stack) - 1 : stack'[m] = stack[m]
        /\ stack'[Len(stack)].err = Top.err + 1
    BY <1>0, <1>3, <2>2, <2>3 DEF CallCyclic, SetTop
  <2>5. SavedInv'
    BY <1>0, <2>2, <2>4, SavedPrefix DEF SavedInv
  <2>6. ~NoErrBelow(Len(stack))'
    BY <2>2, <2>4 DEF NoErrBelow, Frame
  <2>7. DepsInv'
    BY <2>4, <2>6 DEF DepsInv
  <2> QED
    BY <1>t, <2>5, <2>7
<1>4. CASE Call
  <2>1. status = "run" /\ Top.i <= Len(body[Top.t]) /\ Unchecked
        /\ Cur.type \in Templates
    BY <1>4 DEF Call
  <2>2. Top \in Frame /\ Len(stack) \in Nat \ {0}
    BY <1>0, <2>1, TopFacts
  <2>3. PICK L \in Nat \ {0} : L = Len(stack)
    BY <2>2
  <2> DEFINE ft == [Top EXCEPT !.checked = @ \cup {Cur.type}, !.saved = deps]
  <2>4. ft.t = Top.t /\ ft.err = Top.err /\ ft.saved = deps
    BY <2>2, FieldsSave
  <2>5. /\ stack' = Append([stack EXCEPT ![L] = ft], NewFrame(Cur.type))
        /\ deps' = Append(deps, Cur.type) /\ status' = status
    BY <1>4, <2>3 DEF Call
  <2> HIDE DEF ft
  <2>6. /\ Len(stack') = L + 1
        /\ \A m \in 1..L - 1 : stack'[m] = stack[m]
        /\ stack'[L] = ft
        /\ stack'[L + 1] = NewFrame(Cur.type)
    BY <1>0, <2>3, <2>5
  <2>7. NewFrame(Cur.type).t = Cur.type
    BY DEF NewFrame
  <2>8. /\ NoErrBelow(L)' => NoErrBelow(L)
        /\ Path(L)' = Path(L)
    BY <2>3, <2>4, <2>6 DEF NoErrBelow, Path, Top
  <2>9. NoErrBelow(L) => deps = Path(L)
    BY <1>0, <2>1, <2>3 DEF DepsInv
  <2>10. SavedInv'
    <3>1. \A k \in 1..L - 1 : NoErrBelow(k)' => stack'[k].saved = Path(k)'
      BY <1>0, <2>3, <2>6, SavedPrefix
    <3>2. NoErrBelow(L)' => stack'[L].saved = Path(L)'
      BY <2>4, <2>6, <2>8, <2>9
    <3> QED
      BY <2>3, <2>6, <3>1, <3>2 DEF SavedInv
  <2>11. DepsInv'
    <3>1. NoErrBelow(L + 1)' => NoErrBelow(L)'
      BY <2>3 DEF NoErrBelow
    <3>2. Path(L + 1)' = Append(Path(L)', Cur.type)
      BY <2>3, <2>6, <2>7 DEF Path
    <3> QED
      BY <2>3, <2>5, <2>6, <2>8, <2>9, <3>1, <3>2 DEF DepsInv
  <2> QED
    BY <1>t, <2>10, <2>11
<1>5. CASE Return
  <2>1. status = "run" /\ Top.i > Len(body[Top.t])
    BY <1>5 DEF Return
  <2>2. Top \in Frame /\ Len(stack) \in Nat \ {0}
    BY <1>0, <2>1, TopFacts
  <2>3. PICK L \in Nat \ {0} : L = Len(stack)
    BY <2>2
  <2>4. CASE L = 1
    <3>1. stack' = <<>> /\ status' = "done"
      BY <1>5, <2>3, <2>4 DEF Return
    <3> QED
      BY <1>t, <3>1 DEF SavedInv, DepsInv
  <2>5. CASE L # 1
    <3>1. stack[L - 1] \in Frame /\ L - 1 \in 1..L - 1
      BY <1>0, <2>3, <2>5
    <3> DEFINE cf == [stack[L - 1] EXCEPT !.err = @ + Top.err, !.i = @ + 1]
    <3>2. cf.t = stack[L - 1].t /\ cf.err = stack[L - 1].err + Top.err
      BY <3>1, FieldsResume
    <3>3. /\ stack' = Append(SubSeq(stack, 1, L - 2), cf)
          /\ deps' = IF Top.err = 0 THEN stack[L - 1].saved ELSE deps
          /\ status' = status
      BY <1>5, <2>3, <2>5 DEF Return
    <3> HIDE DEF cf
    <3>4. /\ Len(stack') = L - 1
          /\ \A m \in 1..L - 2 : stack'[m] = stack[m]
          /\ stack'[L - 1] = cf
      BY <1>0, <2>3, <2>5, <3>3
    <3>5. SavedInv'
      <4>0. L - 2 \in Nat /\ L - 2 <= Len(stack) - 1
        BY <2>3, <2>5
      <4>1. \A k \in 1..L - 2 : NoErrBelow(k)' => stack'[k].saved = Path(k)'
        BY <1>0, <4>0, <3>4, SavedPrefix
      <4> QED
        BY <3>4, <4>1 DEF SavedInv
    <3>6. NoErrBelow(L - 1)' => NoErrBelow(L - 1) /\ Top.err = 0
      <4>1. stack[L - 1].err \in Nat /\ Top.err \in Nat
        BY <2>2, <3>1 DEF Frame
      <4>2. SUFFICES ASSUME NoErrBelow(L - 1)'
                     PROVE  NoErrBelow(L - 1) /\ Top.err = 0
        OBVIOUS
      <4>3. stack'[L - 1].err = 0
        BY <3>1, <4>2 DEF NoErrBelow
      <4>4. stack[L - 1].err = 0 /\ Top.err = 0
        BY <3>2, <3>4, <4>1, <4>3
      <4>5. \A m \in 1..L - 2 : stack[m].err = 0
        BY <3>4, <4>2 DEF NoErrBelow
      <4> QED
        BY <2>3, <2>5, <4>4, <4>5 DEF NoErrBelow
    <3>7. Path(L - 1)' = Path(L - 1)
      BY <2>3, <2>5, <3>2, <3>4 DEF Path
    <3>8. NoErrBelow(L - 1) => stack[L - 1].saved = Path(L - 1)
      BY <1>0, <2>3, <3>1 DEF SavedInv
    <3>9. DepsInv'
      BY <3>3, <3>4, <3>6, <3>7, <3>8 DEF DepsInv
    <3> QED
      BY <1>t, <3>5, <3>9
  <2> QED
    BY <2>4, <2>5
<1>6. CASE UNCHANGED vars
  BY <1>0, <1>6, <1>t DEF vars, SavedInv, DepsInv, NoErrBelow, Path
<1> QED
  BY <1>1, <1>2, <1>3, <1>4, <1>5, <1>6 DEF Next

\* The search's variables keep their types in every reachable state.
THEOREM TypeCorrect == Spec => []TypeOK
<1>1. Spec => []TypeInv
  BY TypeInvInit, TypeInvStep, PTL DEF Spec
<1>. QED
  BY <1>1, PTL DEF TypeInv

\* While no call of checker_validate_sub_cycles has met a cycle, the
\* shared dependency list *deps is exactly the chain of templates of the
\* active calls, for every set of templates and every bound on the bodies:
\* the copy-and-restore around each error-free child call undoes what the
\* child appended.
THEOREM DepsAreCallPath == Spec => []DepsIsCallPath
<1>1. IInv => DepsIsCallPath
  BY DEF IInv, DepsInv, DepsIsCallPath, NoErrBelow, Path, CallPath
<1>. QED
  BY IInvInit, IInvStep, <1>1, PTL DEF Spec
=============================================================================
