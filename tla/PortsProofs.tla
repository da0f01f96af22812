---------------------------- MODULE PortsProofs ----------------------------
(***************************************************************************)
(* Proofs about Ports (checker_validate_ports): the type invariant and     *)
(* spec invariant 8, for every set of types and every definition list.     *)
(***************************************************************************)
EXTENDS Ports, TLAPS

\* Two distinct ports whose numbers the S-parameter analysis would merge.
Dup(k1, k2) ==
    /\ k1 # k2
    /\ IsPort(defs[k1]) /\ IsPort(defs[k2])
    /\ defs[k1].num # NoNum /\ defs[k2].num # NoNum
    /\ ToInt(defs[k1].num) = ToInt(defs[k2].num)

(***************************************************************************)
(* The inductive invariant.  While no error is counted, no duplicate pair  *)
(* starts at a port the outer loop has passed, nor at the current port     *)
(* with a partner the inner loop has passed; an inner walk only runs for a *)
(* numbered port, and a finished check has passed every definition.        *)
(***************************************************************************)
IInv ==
    /\ TypeOK
    /\ phase = "inner" => IsPort(defs[d]) /\ defs[d].num # NoNum /\ d <= Len(defs)
    /\ phase = "done" => d = Len(defs) + 1
    /\ errors = 0 =>
         \A k1, k2 \in DOMAIN defs :
            Dup(k1, k2) => ~(k1 < d \/ (phase = "inner" /\ k1 = d /\ k2 < p))

LEMMA IInvInit == Init => IInv
PROOF
<1> SUFFICES ASSUME Init PROVE IInv
  OBVIOUS
<1>1. defs \in Seq(Defs)
  BY PortsAssumption DEF Init
<1> QED
  BY <1>1 DEF Init, IInv, TypeOK

LEMMA IInvStep == IInv /\ [Next]_vars => IInv'
PROOF
<1> SUFFICES ASSUME IInv, [Next]_vars PROVE IInv'
  OBVIOUS
<1> USE DEF IInv, TypeOK
<1>1. CASE OuterScan
  BY <1>1 DEF OuterScan, Dup
<1>2. CASE OuterNoNum
  BY <1>2 DEF OuterNoNum, Dup
<1>3. CASE OuterPort
  BY <1>3 DEF OuterPort, Dup
<1>4. CASE InnerScan
  BY <1>4 DEF InnerScan, Dup
<1>5. CASE InnerCompare
  <2>1. TypeOK'
    BY <1>5 DEF InnerCompare
  <2>2. errors' = 0 => errors = 0 /\ ~Dup(d, p)
    BY <1>5 DEF InnerCompare, SameNumber, Dup
  <2> QED
    BY <1>5, <2>1, <2>2 DEF InnerCompare, Dup
<1>6. CASE InnerEnd
  BY <1>6 DEF InnerEnd, Dup
<1>7. CASE OuterEnd
  BY <1>7 DEF OuterEnd, Dup
<1>8. CASE UNCHANGED vars
  BY <1>8 DEF vars, Dup
<1> QED
  BY <1>1, <1>2, <1>3, <1>4, <1>5, <1>6, <1>7, <1>8 DEF Next

\* Both walks of checker_validate_ports stay within the list (a def or
\* port one past the end is the NULL that ends a loop), for every list.
THEOREM TypeCorrect == Spec => []TypeOK
PROOF
<1>1. IInv => TypeOK
  BY DEF IInv
<1> QED
  BY IInvInit, IInvStep, <1>1, PTL DEF Spec

\* Spec invariant 8 for every definition list: an error-free port check
\* (checker_validate_ports) leaves pairwise distinct int port numbers.
THEOREM PortsAreUnique == Spec => []PortsUnique
PROOF
<1>1. IInv => PortsUnique
  BY DEF IInv, TypeOK, PortsUnique, Dup
<1> QED
  BY IInvInit, IInvStep, <1>1, PTL DEF Spec
=============================================================================
