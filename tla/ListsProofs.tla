---------------------------- MODULE ListsProofs ----------------------------
(***************************************************************************)
(* Proofs about Lists: the scale evaluation of netlist_checker_intern and  *)
(* of checker_validate_lists folds every scale into its value exactly      *)
(* once, for every definition list the parser can hand over.               *)
(***************************************************************************)
EXTENDS Lists, SequenceTheorems, TLAPS

\* A value as parsed (no step) or with its scale folded in (one step at
\* most, no scale left).
Once(v) ==
    /\ Len(v.num.steps) <= 1
    /\ v.num.steps # <<>> => v.scale = <<>>

\* The const and list sweeps checker_validate_lists has evaluated.
ListsPassed(k) ==
    \/ phase = "done"
    \/ phase = "lists" /\ k < i

\* The four facts the invariant keeps about the definition at position k.
NonEmpty(k) == IsList(defs[k]) => defs[k].vals # <<>>

ValuesOnce(k) == \A n \in DOMAIN defs[k].vals : Once(defs[k].vals[n])

FirstFolded(k) ==
    (IsList(defs[k]) /\ (phase # "intern" \/ k < i))
        => defs[k].vals[1].scale = <<>>

AllFolded(k) ==
    (/\ IsList(defs[k]) /\ IsSwept(defs[k])
     /\ defs[k].kind \in {"const", "list"} /\ ListsPassed(k))
        => \A n \in DOMAIN defs[k].vals : defs[k].vals[n].scale = <<>>

(***************************************************************************)
(* The inductive invariant.  Every value is parsed or folded once; the     *)
(* first value of a list is folded once the intern pass has passed its     *)
(* definition; every value of a const or list sweep is folded once the     *)
(* list check has passed it; a finished check has passed every definition. *)
(***************************************************************************)
IInv ==
    /\ TypeOK
    /\ phase = "done" => i = Len(defs) + 1
    /\ \A k \in DOMAIN defs :
          NonEmpty(k) /\ ValuesOnce(k) /\ FirstFolded(k) /\ AllFolded(k)

-----------------------------------------------------------------------------
\* The switch of checker_evaluate_scale consumes at most three characters
\* and yields a step.
LEMMA ScaleUseType ==
    ASSUME NEW s \in Seq(Chars), s # <<>>
    PROVE  ScaleUse(s) \in [n : 0..3, db : BOOLEAN, e : Int]
BY DEF ScaleUse, Prefix

\* Adding a step to a number keeps it a number.
LEMMA StepsUpdate ==
    ASSUME NEW n \in Numbers, NEW t \in Seq(Steps)
    PROVE  /\ [n EXCEPT !.steps = t] \in Numbers
           /\ [n EXCEPT !.steps = t].steps = t
BY Zenon DEF Numbers

\* checker_evaluate_scale on a parsed or folded value leaves a folded value
\* with no scale.
LEMMA EvaluateScaleFacts ==
    ASSUME NEW v \in Values, Once(v)
    PROVE  /\ EvaluateScale(v) \in Values
           /\ Once(EvaluateScale(v))
           /\ EvaluateScale(v).scale = <<>>
<1>1. CASE v.scale = <<>>
  BY <1>1 DEF EvaluateScale
<1>2. CASE v.scale # <<>>
  <2> DEFINE u    == ScaleUse(v.scale)
             rest == SubSeq(v.scale, u.n + 1, Len(v.scale))
             st   == [db |-> u.db, e |-> u.e]
  <2>1. v.scale \in Seq(Chars) /\ v.num \in Numbers /\ v.unit \in Seq(Chars)
    BY DEF Values
  <2>2. u \in [n : 0..3, db : BOOLEAN, e : Int]
    BY <1>2, <2>1, ScaleUseType
  <2>3. rest \in Seq(Chars)
    <3>1. \A k \in u.n + 1 .. Len(v.scale) : v.scale[k] \in Chars
      BY <2>1, <2>2, LenProperties
    <3>2. u.n + 1 \in Int /\ Len(v.scale) \in Int
      BY <2>1, <2>2, LenProperties
    <3> QED
      BY <3>1, <3>2, SubSeqProperties, Zenon
  <2>4. v.num.steps = <<>>
    BY <1>2 DEF Once
  <2>5. st \in Steps
    BY <2>2 DEF Steps
  <2>6. Apply(v.num, st) \in Numbers /\ Len(Apply(v.num, st).steps) <= 1
    <3>1. CASE st = [db |-> FALSE, e |-> 0]
      BY <2>1, <2>4, <3>1 DEF Apply
    <3>2. CASE st # [db |-> FALSE, e |-> 0]
      <4> DEFINE nn == Append(v.num.steps, st)
                 an == [v.num EXCEPT !.steps = nn]
      <4>1. Apply(v.num, st) = an
        BY <3>2, Zenon DEF Apply
      <4>2. nn \in Seq(Steps) /\ Len(nn) = 1
        BY <2>4, <2>5
      <4>3. an \in Numbers /\ an.steps = nn
        BY <2>1, <4>2, StepsUpdate, Zenon
      <4>4. Apply(v.num, st) \in Numbers /\ Apply(v.num, st).steps = nn
        BY <4>1, <4>3, Zenon
      <4> HIDE DEF st, nn, an
      <4>5. Len(nn) <= 1
        BY <4>2
      <4> QED
        BY <4>4, <4>5, Zenon
    <3> QED
      BY <3>1, <3>2
  <2>7. EvaluateScale(v) = [num   |-> Apply(v.num, st), scale |-> <<>>,
                            unit  |-> IF rest # <<>> THEN rest ELSE v.unit]
    BY <1>2 DEF EvaluateScale
  <2> HIDE DEF u, rest, st
  <2> QED
    BY <2>1, <2>3, <2>6, <2>7 DEF Values, Once
<1> QED
  BY <1>1, <1>2

\* checker_validate_lists' loop over a value list folds every value.
LEMMA EvaluateAllFacts ==
    ASSUME NEW vs \in Seq(Values), \A n \in DOMAIN vs : Once(vs[n])
    PROVE  /\ EvaluateAll(vs) \in Seq(Values)
           /\ DOMAIN EvaluateAll(vs) = DOMAIN vs
           /\ \A n \in DOMAIN vs : /\ Once(EvaluateAll(vs)[n])
                                  /\ EvaluateAll(vs)[n].scale = <<>>
<1>1. \A n \in DOMAIN vs : /\ EvaluateScale(vs[n]) \in Values
                           /\ Once(EvaluateScale(vs[n]))
                           /\ EvaluateScale(vs[n]).scale = <<>>
  BY EvaluateScaleFacts, LenProperties
<1> QED
  BY <1>1, LenProperties DEF EvaluateAll

\* Replacing the value list of one definition keeps a definition list and
\* changes nothing else.
LEMMA ValsUpdate ==
    ASSUME NEW ds \in Seq(Defs), NEW k \in DOMAIN ds, NEW vs \in Seq(Values)
    PROVE  /\ [ds EXCEPT ![k].vals = vs] \in Seq(Defs)
           /\ DOMAIN [ds EXCEPT ![k].vals = vs] = DOMAIN ds
           /\ [ds EXCEPT ![k].vals = vs][k].vals = vs
           /\ [ds EXCEPT ![k].vals = vs][k].vform = ds[k].vform
           /\ [ds EXCEPT ![k].vals = vs][k].action = ds[k].action
           /\ [ds EXCEPT ![k].vals = vs][k].type = ds[k].type
           /\ [ds EXCEPT ![k].vals = vs][k].kind = ds[k].kind
           /\ \A m \in DOMAIN ds \ {k} : [ds EXCEPT ![k].vals = vs][m] = ds[m]
<1> DEFINE d2 == [ds[k] EXCEPT !.vals = vs]
<1>1. ds[k] \in Defs
  BY LenProperties
<1>2. d2 \in Defs /\ d2.vals = vs /\ d2.vform = ds[k].vform
      /\ d2.action = ds[k].action /\ d2.type = ds[k].type
      /\ d2.kind = ds[k].kind
  BY <1>1, Zenon DEF Defs
<1>3. [ds EXCEPT ![k].vals = vs] = [ds EXCEPT ![k] = d2]
  BY Zenon
<1> HIDE DEF d2
<1> QED
  BY <1>2, <1>3, LenProperties

LEMMA IInvInit == Init => IInv
<1> SUFFICES ASSUME Init PROVE IInv
  OBVIOUS
<1>1. defs \in Seq(Defs) /\ parsed = defs
  BY ListsAssumption DEF Init
<1>2. \A k \in DOMAIN defs :
        /\ IsList(defs[k]) => defs[k].vals # <<>>
        /\ \A n \in DOMAIN defs[k].vals : defs[k].vals[n].num.steps = <<>>
  BY ListsAssumption DEF Init, IsList
<1> QED
  BY <1>1, <1>2 DEF Init, IInv, TypeOK, NonEmpty, ValuesOnce, Once,
                    FirstFolded, AllFolded, ListsPassed

\* The steps that leave the definition list alone.
LEMMA IInvSameDefs ==
    ASSUME IInv, Next, defs' = defs, parsed' = parsed,
           i' \in 1..Len(defs) + 1, errors' \in Nat,
           phase' \in {"intern", "lists", "done", "crashed"},
           phase' = "done" => i' = Len(defs) + 1,
           \A k \in DOMAIN defs :
              /\ (IsList(defs[k]) /\ (phase' # "intern" \/ k < i'))
                    => (phase # "intern" \/ k < i)
              /\ (/\ IsList(defs[k]) /\ IsSwept(defs[k])
                  /\ defs[k].kind \in {"const", "list"}
                  /\ (phase' = "done" \/ (phase' = "lists" /\ k < i')))
                    => ListsPassed(k)
    PROVE  IInv'
BY DEF IInv, TypeOK, NonEmpty, ValuesOnce, FirstFolded, AllFolded, ListsPassed

LEMMA IInvStep == IInv /\ [Next]_vars => IInv'
<1> SUFFICES ASSUME IInv, [Next]_vars PROVE IInv'
  OBVIOUS
<1>0. /\ defs \in Seq(Defs) /\ i \in 1..Len(defs) + 1
      /\ \A k \in DOMAIN defs : NonEmpty(k) /\ ValuesOnce(k)
                                /\ FirstFolded(k) /\ AllFolded(k)
  BY DEF IInv, TypeOK
<1>1. CASE InternDef
  <2>1. CASE ~IsList(defs[i])
    BY <1>1, <2>1, IInvSameDefs DEF InternDef, Next, IInv, TypeOK,
       FirstFolded, ListsPassed
  <2>2. CASE IsList(defs[i])
    <3> DEFINE vs == defs[i].vals
               nv == [vs EXCEPT ![1] = EvaluateScale(vs[1])]
    <3>0. i \in DOMAIN defs /\ defs[i] \in Defs
      BY <1>1, <1>0, LenProperties DEF InternDef
    <3>1. vs \in Seq(Values) /\ vs # <<>> /\ Once(vs[1])
      <4>1. NonEmpty(i) /\ ValuesOnce(i)
        BY <1>0, <3>0
      <4>2. vs \in Seq(Values)
        BY <3>0 DEF Defs
      <4>3. 1 \in DOMAIN vs
        BY <2>2, <4>1, <4>2, EmptySeq, LenProperties DEF NonEmpty
      <4> QED
        BY <2>2, <4>1, <4>2, <4>3 DEF NonEmpty, ValuesOnce
    <3>2. vs[1] \in Values
      BY <3>1, LenProperties, EmptySeq
    <3>3. /\ EvaluateScale(vs[1]) \in Values
          /\ Once(EvaluateScale(vs[1]))
          /\ EvaluateScale(vs[1]).scale = <<>>
      BY <3>1, <3>2, EvaluateScaleFacts
    <3>4. /\ nv \in Seq(Values) /\ DOMAIN nv = DOMAIN vs
          /\ nv[1] = EvaluateScale(vs[1])
          /\ \A n \in DOMAIN vs \ {1} : nv[n] = vs[n]
      BY <3>1, <3>3, LenProperties, EmptySeq
    <3>5. defs' = [defs EXCEPT ![i].vals = nv]
      BY <1>1, <2>2, Zenon DEF InternDef
    <3>7. /\ defs' \in Seq(Defs) /\ DOMAIN defs' = DOMAIN defs
          /\ defs'[i].vals = nv
          /\ defs'[i].vform = defs[i].vform
          /\ \A m \in DOMAIN defs \ {i} : defs'[m] = defs[m]
      <4> HIDE DEF nv
      <4> QED
        BY <3>4, <3>5, <3>0, <1>0, ValsUpdate
    <3>8. UNCHANGED <<parsed, errors, phase>> /\ i' = i + 1 /\ phase = "intern"
      BY <1>1 DEF InternDef
    <3>9. TypeOK'
      BY <3>0, <3>7, <3>8, <1>0, LenProperties DEF IInv, TypeOK
    <3>10. ASSUME NEW k \in DOMAIN defs'
           PROVE  NonEmpty(k)' /\ ValuesOnce(k)' /\ FirstFolded(k)'
                  /\ AllFolded(k)'
      <4>1. CASE k = i
        <5>0. \A n \in DOMAIN vs : Once(vs[n])
          BY <1>0, <3>0 DEF ValuesOnce
        <5> HIDE DEF nv
        <5>1. \A n \in DOMAIN nv : Once(nv[n])
          BY <5>0, <3>3, <3>4
        <5> QED
          BY <2>2, <3>1, <3>3, <3>4, <3>7, <3>8, <4>1, <5>1
          DEF NonEmpty, ValuesOnce, FirstFolded, AllFolded, ListsPassed,
              IsList
      <4>2. CASE k # i
        <5> HIDE DEF nv
        <5> QED
          BY <3>7, <3>8, <4>2, <1>0
          DEF NonEmpty, ValuesOnce, FirstFolded, AllFolded, ListsPassed
      <4> QED
        BY <4>1, <4>2
    <3> QED
      BY <3>7, <3>8, <3>9, <3>10 DEF IInv
  <2> QED
    BY <2>1, <2>2
<1>2. CASE InternDone
  BY <1>2, IInvSameDefs DEF InternDone, Next, IInv, TypeOK
<1>3. CASE ListsSkip
  BY <1>3, IInvSameDefs DEF ListsSkip, Next, IInv, TypeOK, ListsPassed
<1>4. CASE ListsNullType
  BY <1>4, IInvSameDefs DEF ListsNullType, Next, IInv, TypeOK, ListsPassed
<1>5. CASE ListsConst
  <2>0. i \in DOMAIN defs /\ defs[i] \in Defs
    BY <1>5, <1>0, LenProperties DEF ListsConst
  <2>e. errors' \in Nat
    BY <1>5 DEF ListsConst, IInv, TypeOK, Num
  <2>1. CASE ~IsList(defs[i])
    BY <1>5, <2>1, <2>e, IInvSameDefs DEF ListsConst, Next, IInv, TypeOK,
       ListsPassed
  <2>2. CASE IsList(defs[i])
    <3> DEFINE vs == defs[i].vals
               nv == EvaluateAll(vs)
    <3>1. vs \in Seq(Values) /\ \A n \in DOMAIN vs : Once(vs[n])
      BY <1>0, <2>0 DEF Defs, ValuesOnce
    <3>2. /\ nv \in Seq(Values) /\ DOMAIN nv = DOMAIN vs
          /\ \A n \in DOMAIN vs : Once(nv[n]) /\ nv[n].scale = <<>>
      BY <3>1, EvaluateAllFacts
    <3>3. defs' = [defs EXCEPT ![i].vals = nv]
      BY <1>5, <2>2, Zenon DEF ListsConst
    <3>4. /\ defs' \in Seq(Defs) /\ DOMAIN defs' = DOMAIN defs
          /\ defs'[i].vals = nv
          /\ defs'[i].vform = defs[i].vform
          /\ \A m \in DOMAIN defs \ {i} : defs'[m] = defs[m]
      <4> HIDE DEF nv
      <4> QED
        BY <3>2, <3>3, <2>0, <1>0, ValsUpdate
    <3>5. UNCHANGED <<parsed, phase>> /\ i' = i + 1 /\ phase = "lists"
      BY <1>5 DEF ListsConst
    <3>6. TypeOK'
      BY <2>0, <2>e, <3>4, <3>5, <1>0, LenProperties DEF IInv, TypeOK
    <3>7. ASSUME NEW k \in DOMAIN defs'
          PROVE  NonEmpty(k)' /\ ValuesOnce(k)' /\ FirstFolded(k)'
                 /\ AllFolded(k)'
      <4>1. CASE k = i
        <5>0. NonEmpty(i)
          BY <1>0, <2>0
        <5> HIDE DEF nv
        <5> QED
          BY <2>2, <3>2, <3>4, <3>5, <4>1, <5>0
          DEF NonEmpty, ValuesOnce, FirstFolded, AllFolded, IsList
      <4>2. CASE k # i
        <5> HIDE DEF nv
        <5> QED
          BY <3>4, <3>5, <4>2, <1>0
          DEF NonEmpty, ValuesOnce, FirstFolded, AllFolded, ListsPassed
      <4> QED
        BY <4>1, <4>2
    <3> QED
      BY <3>4, <3>5, <3>6, <3>7 DEF IInv
  <2> QED
    BY <2>1, <2>2
<1>6. CASE ListsStepped
  BY <1>6, IInvSameDefs DEF ListsStepped, Next, IInv, TypeOK, ListsPassed,
     Num
<1>7. CASE ListsOther
  BY <1>7, IInvSameDefs DEF ListsOther, Next, IInv, TypeOK, ListsPassed
<1>8. CASE ListsDone
  BY <1>8, IInvSameDefs DEF ListsDone, Next, IInv, TypeOK, ListsPassed
<1>9. CASE UNCHANGED vars
  BY <1>9 DEF vars, IInv, TypeOK, NonEmpty, ValuesOnce, FirstFolded,
     AllFolded, ListsPassed
<1> QED
  BY <1>1, <1>2, <1>3, <1>4, <1>5, <1>6, <1>7, <1>8, <1>9 DEF Next

\* The type invariant of Lists, for every definition list the parser can
\* hand over (checker_evaluate_scale always leaves a well-formed value).
THEOREM TypeCorrect == Spec => []TypeOK
<1>1. IInv => TypeOK
  BY DEF IInv
<1> QED
  BY IInvInit, IInvStep, <1>1, PTL DEF Spec

(***************************************************************************)
(* The scale of every value is folded into it exactly once, although       *)
(* netlist_checker_intern evaluates the first value of a list and          *)
(* checker_validate_lists evaluates it again with the others: when the     *)
(* checks end, no number carries two scale steps and no const or list     *)
(* sweep keeps a scale.                                                    *)
(***************************************************************************)
THEOREM ScalesFoldedOnce == Spec => []FoldedOnce
<1>1. IInv => FoldedOnce
  BY DEF IInv, TypeOK, FoldedOnce, NonEmpty, ValuesOnce, Once, FirstFolded,
         AllFolded, ListsPassed
<1> QED
  BY IInvInit, IInvStep, <1>1, PTL DEF Spec
=============================================================================
