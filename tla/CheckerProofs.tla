--------------------------- MODULE CheckerProofs ---------------------------
(***************************************************************************)
(* Proofs about netlist_checker as modelled in module Checker: the .DC     *)
(* policy of an accepted netlist, for every set of templates and every     *)
(* bound on the lists.                                                     *)
(***************************************************************************)
EXTENDS Checker, TLAPS

SCP == INSTANCE SubCyclesProofs

(***************************************************************************)
(* The inductive invariant.  The global checker_sub_cycles (flag) is the   *)
(* count of the last cycle search, which netlist_checker has also added to *)
(* its errors, so it never exceeds them; a decided netlist without errors  *)
(* has passed the .DC rules on the whole circuit.                          *)
(***************************************************************************)
IInv ==
    /\ SCP!TypeInv
    /\ errors \in Nat /\ flag \in Nat
    /\ flag <= errors
    /\ phase = "expanded" => errors = 0
    /\ (phase \in {"decide", "expanded"} /\ errors = 0) =>
          /\ dc <= 1
          /\ (acsp /\ NonlinearInFlat(body, root) >= 1) => dc = 1

\* The variables of the cycle search keep their types (the search leaves
\* them to the checker between two searches).
\* The assumption of the instantiated search module is Netlist's own.
LEMMA SearchAssumption == SCP!NetlistAssumption
BY NetlistAssumption DEF SCP!IsFiniteSet, IsFiniteSet

\* The bodies the search is typed over are the bodies of the checker.
LEMMA SameBodies == SCP!Bodies = Bodies
BY DEF SCP!Bodies, Bodies, SCP!Stmts, Stmts, SCP!SubStmt, SubStmt,
       SCP!Elem, Elem, SCP!Names, Names

LEMMA SearchTypeInit == Init => SCP!TypeInv
<1> SUFFICES ASSUME Init PROVE SCP!TypeInv
  OBVIOUS
<1>1. (CHOOSE t \in Templates : TRUE) \in Templates
  BY NetlistAssumption
<1> QED
  BY <1>1, SameBodies DEF Init, SCP!TypeInv, SCP!TypeOK

LEMMA IInvInit == Init => IInv
BY SearchTypeInit DEF Init, IInv

\* A step of the checker that leaves the search's variables alone keeps
\* their types.
LEMMA SearchTypeKept ==
    ASSUME SCP!TypeInv, UNCHANGED searchVars
    PROVE  SCP!TypeInv'
BY DEF searchVars, SCP!TypeInv, SCP!TypeOK

LEMMA IInvStep == IInv /\ [Next]_vars => IInv'
<1> SUFFICES ASSUME IInv, [Next]_vars PROVE IInv'
  OBVIOUS
<1>0. /\ SCP!TypeInv /\ errors \in Nat /\ flag \in Nat /\ flag <= errors
      /\ result \in Nat
  BY DEF IInv, SCP!TypeInv, SCP!TypeOK
<1>1. CASE ScanOther
  BY <1>0, <1>1, SearchTypeKept DEF ScanOther, IInv
<1>2. CASE ScanUnknown
  BY <1>0, <1>2, SearchTypeKept DEF ScanUnknown, IInv
<1>3. CASE ScanSearch
  <2>1. CurDef.type \in Templates
    BY <1>3 DEF ScanSearch
  <2>2. SCP!TypeInv'
    BY <1>0, <1>3, <2>1 DEF ScanSearch, SCP!TypeInv, SCP!TypeOK,
                             SC!NewFrame, SCP!Frame
  <2> QED
    BY <1>0, <1>3, <2>2 DEF ScanSearch, IInv
<1>4. CASE Search
  <2>0. SC!Next => SCP!Next
    BY DEF SC!Next, SCP!Next, SC!Skip, SCP!Skip, SC!CallUndefined, SCP!CallUndefined, SC!CallCyclic, SCP!CallCyclic, SC!Call, SCP!Call, SC!Return, SCP!Return, SC!Top, SCP!Top, SC!Cur, SCP!Cur, SC!Unchecked, SCP!Unchecked, SC!SetTop, SCP!SetTop, SC!NewFrame, SCP!NewFrame, SC!Contains, SCP!Contains, SC!IsSub, SCP!IsSub
  <2>1. SCP!TypeInv /\ [SCP!Next]_SCP!vars => SCP!TypeInv'
    BY SCP!TypeInvStep, SearchAssumption
  <2>2. SCP!Next
    BY <1>4, <2>0 DEF Search
  <2>3. SCP!TypeInv'
    BY <1>0, <2>1, <2>2, Zenon
  <2> QED
    BY <1>0, <1>4, <2>3 DEF Search, IInv
<1>5. CASE SearchDone
  BY <1>0, <1>5, SearchTypeKept DEF SearchDone, IInv
<1>6. CASE NextList
  BY <1>0, <1>6, SearchTypeKept DEF NextList, IInv
<1>7. CASE ValidateActions
  <2>1. PICK ndc \in 0..2, an \in BOOLEAN, others \in BOOLEAN :
          /\ dc' = ndc
          /\ acsp' = an
          /\ IF ndc = 0 /\ ~an
               THEN /\ errors' = errors + 1 + (IF others THEN 1 ELSE 0)
                    /\ phase' = "decide"
                    /\ UNCHANGED nonlin
               ELSE IF CountDiverges
                 THEN /\ phase' = "overflow"
                      /\ UNCHANGED <<errors, nonlin>>
                 ELSE LET c == CountNonlinearities
                      IN  /\ nonlin' = c
                          /\ errors' = errors
                                       + (IF ndc > 1 THEN 1 ELSE 0)
                                       + (IF an /\ c >= 1 /\ ndc < 1
                                            THEN 1 ELSE 0)
                                       + (IF others THEN 1 ELSE 0)
                          /\ phase' = "decide"
    BY <1>7 DEF ValidateActions
  <2>2. UNCHANGED <<searchVars, flag>> /\ body' = body /\ root' = root
    BY <1>7 DEF ValidateActions, searchVars
  <2>3. SCP!TypeInv'
    BY <1>0, <2>2, SearchTypeKept
  <2>4. errors' \in Nat /\ errors' >= errors
    BY <1>0, <2>1
  <2>5. (phase' \in {"decide", "expanded"} /\ errors' = 0) =>
          /\ dc' <= 1
          /\ (acsp' /\ NonlinearInFlat(body, root) >= 1) => dc' = 1
    <3> SUFFICES ASSUME phase' \in {"decide", "expanded"}, errors' = 0
                 PROVE  /\ dc' <= 1
                        /\ (acsp' /\ NonlinearInFlat(body, root) >= 1)
                             => dc' = 1
      OBVIOUS
    <3>1. errors = 0 /\ flag = 0
      BY <1>0, <2>4
    <3>2. CountNonlinearities = NonlinearInFlat(body, root)
      BY <3>1 DEF CountNonlinearities
    <3> HIDE DEF CountNonlinearities, NonlinearInFlat
    <3> QED
      BY <1>0, <2>1, <3>1, <3>2
  <2> QED
    BY <1>0, <2>1, <2>2, <2>3, <2>4, <2>5 DEF IInv
<1>8. CASE Decide
  <2>1. body' = body /\ root' = root /\ UNCHANGED <<errors, flag, dc, acsp>>
    BY <1>8 DEF Decide, searchVars
  <2>2. NonlinearInFlat(body, root)' = NonlinearInFlat(body, root)
    BY <2>1
  <2>3. SCP!TypeInv'
    BY <1>0, <1>8, SearchTypeKept DEF Decide
  <2> HIDE DEF NonlinearInFlat
  <2> QED
    BY <1>0, <1>8, <2>1, <2>2, <2>3 DEF Decide, IInv
<1>9. CASE UNCHANGED vars
  BY <1>0, <1>9, SearchTypeKept DEF vars, searchVars, IInv
<1> QED
  BY <1>1, <1>2, <1>3, <1>4, <1>5, <1>6, <1>7, <1>8, <1>9 DEF Next

\* netlist_checker expands only a netlist that obeys the .DC rules for the
\* circuit the solver will see, nonlinear elements inside subcircuits
\* included, for every set of templates and every bound on the lists: an
\* error-free run has checker_sub_cycles = 0, so
\* checker_count_nonlinearities counts through every subcircuit.
THEOREM DCPolicyHolds == Spec => []DCPolicy
<1>1. IInv => DCPolicy
  BY DEF IInv, DCPolicy
<1> QED
  BY IInvInit, IInvStep, <1>1, PTL DEF Spec
=============================================================================
