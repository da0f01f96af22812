---------------------------- MODULE SweepsProofs ----------------------------
(***************************************************************************)
(* Proofs about Sweeps (checker_validate_para and                          *)
(* checker_validate_para_cycles): the type invariant and the reference     *)
(* checks of spec invariant 6, for every set of names and definition list. *)
(***************************************************************************)
EXTENDS Sweeps, TLAPS

\* The sweeps whose "Sim" checks checker_validate_para has already run.
Checked(k) == k < i \/ (phase = "cycles" /\ k = i)

\* The reference checks a sweep at position k passes.
RefsOK(k) ==
    /\ defs[k].sim # NoRef
    /\ defs[k].sim # defs[k].inst
    /\ Cardinality(ActionsNamed(defs[k].sim)) = 1

(***************************************************************************)
(* The inductive invariant.  A running chain search belongs to a sweep     *)
(* with a "Sim" identifier and looks for a name; a finished check has      *)
(* passed every definition; while no error is counted, every sweep checked *)
(* so far passes the reference checks.                                     *)
(***************************************************************************)
IInv ==
    /\ TypeOK
    /\ phase = "cycles" =>
          /\ i \in 1..Len(defs) /\ cur \in Names
          /\ IsSweep(defs[i]) /\ defs[i].sim # NoRef
    /\ phase = "done" => i = Len(defs) + 1
    /\ errors = 0 =>
          \A k \in DOMAIN defs : (Checked(k) /\ IsSweep(defs[k])) => RefsOK(k)

\* checker_count_action counts exactly the actions of the name.
LEMMA CountIsActionsNamed ==
    ASSUME NEW n
    PROVE  CountAction(n) = Cardinality(ActionsNamed(n))
<1>1. {k \in DOMAIN defs : IsActionNamed(defs[k], n)} = ActionsNamed(n)
  BY DEF IsActionNamed, ActionsNamed
<1> QED
  BY <1>1 DEF CountAction

\* The four conjuncts of IInv.
CyclesInv ==
    phase = "cycles" =>
        /\ i \in 1..Len(defs) /\ cur \in Names
        /\ IsSweep(defs[i]) /\ defs[i].sim # NoRef

DoneInv == phase = "done" => i = Len(defs) + 1

RefsInv ==
    errors = 0 =>
        \A k \in DOMAIN defs : (Checked(k) /\ IsSweep(defs[k])) => RefsOK(k)

LEMMA IInvDef == IInv = (TypeOK /\ CyclesInv /\ DoneInv /\ RefsInv)
BY DEF IInv, CyclesInv, DoneInv, RefsInv

\* The reference checks read the definition list alone.
LEMMA RefsStable ==
    ASSUME defs' = defs
    PROVE  \A k : /\ RefsOK(k)' = RefsOK(k)
                 /\ IsSweep(defs[k])' = IsSweep(defs[k])
BY DEF RefsOK, ActionsNamed, IsSweep

LEMMA IInvInit == Init => IInv
<1> SUFFICES ASSUME Init PROVE IInv
  OBVIOUS
<1>1. defs \in Seq(Defs)
  BY SweepsAssumption DEF Init
<1> QED
  BY <1>1, SweepsAssumption DEF Init, IInv, TypeOK, Checked

\* A step that leaves the list and the count alone and moves the check
\* only over sweeps that passed, keeps RefsInv.
LEMMA RefsKept ==
    ASSUME RefsInv, defs' = defs, errors' = errors,
           \A k \in DOMAIN defs : Checked(k)' /\ IsSweep(defs[k])
                                   => Checked(k)
    PROVE  RefsInv'
<1>1. \A k : RefsOK(k)' = RefsOK(k) /\ IsSweep(defs[k])' = IsSweep(defs[k])
  BY RefsStable
<1> HIDE DEF RefsOK, IsSweep, Checked
<1> QED
  BY <1>1 DEF RefsInv

LEMMA IInvStep == IInv /\ [Next]_vars => IInv'
<1> SUFFICES ASSUME TypeOK, CyclesInv, DoneInv, RefsInv, [Next]_vars
             PROVE  TypeOK' /\ CyclesInv' /\ DoneInv' /\ RefsInv'
  BY Zenon DEF IInv, CyclesInv, DoneInv, RefsInv
<1>0. /\ defs \in Seq(Defs) /\ i \in 1..Len(defs) + 1 /\ j \in 1..Len(defs) + 1
      /\ errors \in Nat /\ deps \in Seq(Names)
      /\ results \in [DOMAIN defs -> {-1, 0, 1}]
  BY DEF TypeOK
<1>1. CASE ParaSkip
  <2>1. TypeOK' /\ CyclesInv' /\ DoneInv'
    BY <1>0, <1>1 DEF ParaSkip, TypeOK, CyclesInv, DoneInv
  <2>2. RefsInv'
    BY <1>0, <1>1, RefsKept DEF ParaSkip, Checked
  <2> QED
    BY <2>1, <2>2
<1>2. CASE ParaNoSim
  <2>1. TypeOK' /\ CyclesInv' /\ DoneInv'
    BY <1>0, <1>2 DEF ParaNoSim, TypeOK, CyclesInv, DoneInv
  <2>2. RefsInv'
    BY <1>0, <1>2 DEF ParaNoSim, RefsInv
  <2> QED
    BY <2>1, <2>2
<1>3. CASE ParaCheck
  <2>1. defs[i] \in Defs /\ i \in DOMAIN defs
    BY <1>0, <1>3, <1>0 DEF ParaCheck
  <2>2. TypeOK' /\ CyclesInv' /\ DoneInv'
    BY <1>0, <1>3, <2>1 DEF ParaCheck, TypeOK, CyclesInv, DoneInv, Defs
  <2>3. errors' = 0 => errors = 0 /\ RefsOK(i)
    BY <1>0, <1>3, <2>1, CountIsActionsNamed DEF ParaCheck, RefsOK
  <2>4. RefsInv'
    <3>1. \A k : RefsOK(k)' = RefsOK(k) /\ IsSweep(defs[k])' = IsSweep(defs[k])
      BY <1>0, <1>3, RefsStable DEF ParaCheck
    <3>2. \A k \in DOMAIN defs : Checked(k)' => Checked(k) \/ k = i
      BY <1>0, <1>3 DEF ParaCheck, Checked
    <3> HIDE DEF RefsOK, IsSweep, Checked
    <3> QED
      BY <1>0, <1>3, <2>3, <3>1, <3>2 DEF RefsInv, ParaCheck
  <2> QED
    BY <2>2, <2>4
<1>4. CASE CycleScan
  <2>1. TypeOK' /\ CyclesInv' /\ DoneInv'
    BY <1>0, <1>4 DEF CycleScan, TypeOK, CyclesInv, DoneInv
  <2>2. RefsInv'
    BY <1>0, <1>4, RefsKept DEF CycleScan, Checked
  <2> QED
    BY <2>1, <2>2
<1>5. CASE CycleFound
  <2>0. i \in 1..Len(defs)
    BY <1>5 DEF CycleFound, CyclesInv
  <2>a. results' \in [DOMAIN defs' -> {-1, 0, 1}]
    BY <1>0, <1>5, <2>0 DEF CycleFound
  <2>b. phase' = "para" /\ i' = i + 1 /\ defs' = defs
    BY <1>5 DEF CycleFound
  <2>1. TypeOK' /\ CyclesInv' /\ DoneInv'
    BY <1>0, <1>5, <2>0, <2>a, <2>b DEF CycleFound, TypeOK, CyclesInv, DoneInv
  <2>2. errors' # 0
    BY <1>0, <1>5 DEF CycleFound
  <2>3. RefsInv'
    BY <2>2 DEF RefsInv
  <2> QED
    BY <2>1, <2>3
<1>6. CASE CycleFollow
  <2>1. defs[j] \in Defs
    BY <1>0, <1>6, <1>0 DEF CycleFollow
  <2>2. TypeOK' /\ CyclesInv' /\ DoneInv'
    BY <1>0, <1>6, <2>1 DEF CycleFollow, TypeOK, CyclesInv, DoneInv, Defs
  <2>3. RefsInv'
    BY <1>0, <1>6, RefsKept DEF CycleFollow, Checked
  <2> QED
    BY <2>2, <2>3
<1>7. CASE CycleContinue
  <2>1. TypeOK' /\ CyclesInv' /\ DoneInv'
    BY <1>0, <1>7 DEF CycleContinue, TypeOK, CyclesInv, DoneInv
  <2>2. RefsInv'
    BY <1>0, <1>7, RefsKept DEF CycleContinue, Checked
  <2> QED
    BY <2>1, <2>2
<1>8. CASE CycleEnd
  <2>0. i \in 1..Len(defs)
    BY <1>8 DEF CycleEnd, CyclesInv
  <2>a. results' \in [DOMAIN defs' -> {-1, 0, 1}]
    BY <1>0, <1>8, <2>0 DEF CycleEnd
  <2>b. phase' = "para" /\ i' = i + 1 /\ defs' = defs
    BY <1>8 DEF CycleEnd
  <2>1. TypeOK' /\ CyclesInv' /\ DoneInv'
    BY <1>0, <1>8, <2>0, <2>a, <2>b DEF CycleEnd, TypeOK, CyclesInv, DoneInv
  <2>3. \A k \in DOMAIN defs : Checked(k)' /\ IsSweep(defs[k]) => Checked(k)
    <3> SUFFICES ASSUME NEW k \in DOMAIN defs, Checked(k)' PROVE Checked(k)
      OBVIOUS
    <3>1. k < i + 1
      BY <2>b DEF Checked
    <3>2. k \in Nat
      BY <1>0
    <3> QED
      BY <3>1, <3>2, <1>0, <1>8 DEF CycleEnd, Checked
  <2>2. RefsInv'
    BY <1>8, <2>3, RefsKept DEF CycleEnd
  <2> QED
    BY <2>1, <2>2
<1>9. CASE ParaDone
  <2>1. TypeOK' /\ CyclesInv' /\ DoneInv'
    BY <1>0, <1>9 DEF ParaDone, TypeOK, CyclesInv, DoneInv
  <2>2. RefsInv'
    BY <1>0, <1>9, RefsKept DEF ParaDone, Checked
  <2> QED
    BY <2>1, <2>2
<1>10. CASE UNCHANGED vars
  <2>1. TypeOK' /\ CyclesInv' /\ DoneInv'
    BY <1>0, <1>10 DEF vars, TypeOK, CyclesInv, DoneInv
  <2>2. RefsInv'
    BY <1>0, <1>10, RefsKept DEF vars, Checked
  <2> QED
    BY <2>1, <2>2
<1> QED
  BY <1>0, <1>1, <1>2, <1>3, <1>4, <1>5, <1>6, <1>7, <1>8, <1>9, <1>10 DEF Next

\* The type invariant of Sweeps, for every set of names and every
\* definition list: in particular the shared strlist only holds names.
THEOREM TypeCorrect == Spec => []TypeOK
<1>1. IInv => TypeOK
  BY DEF IInv
<1> QED
  BY IInvInit, IInvStep, <1>1, PTL DEF Spec

(***************************************************************************)
(* The reference checks of checker_validate_para, for every set of names   *)
(* and definition list: an error-free sweep check leaves every sweep with  *)
(* a "Sim" identifier that is not its own name and names exactly one       *)
(* action.                                                                 *)
(***************************************************************************)
THEOREM ReferencesAccepted == Spec => []AcceptedReferences
<1>1. IInv => AcceptedReferences
  BY DEF IInv, TypeOK, AcceptedReferences, Checked, RefsOK
<1> QED
  BY IInvInit, IInvStep, <1>1, PTL DEF Spec
=============================================================================
