------------------------------ MODULE Checker ------------------------------
(***************************************************************************)
(* netlist_checker (check_netlist.cpp), restricted to what the subcircuit  *)
(* checks decide.  After checker_build_subcircuits has moved the templates *)
(* to subcircuit_root, netlist_checker_intern walks the top-level list,    *)
(* then the list of templates (their "Def" definitions hold no "Sub"),     *)
(* then the body of each template in subcircuit_root order; in each list  *)
(* checker_validate_subcircuits looks at every "Sub", counts an error for  *)
(* an unknown type, and otherwise runs the cycle search (module SubCycles) *)
(* and stores its error count in the global checker_sub_cycles.  Then      *)
(* checker_validate_actions counts the nonlinear definitions, recursing    *)
(* into subcircuits only while that global is <= 0, and applies the .DC    *)
(* rules; with no errors at all the subcircuits are expanded.              *)
(*                                                                         *)
(* The per-definition catalog checks, the microstrip, nodeset, sweep, port *)
(* and list checks are other components; here their verdict is the        *)
(* Boolean `others' (some of them found an error).  The top-level actions  *)
(* are abstracted to the number of .DC actions and whether an .AC or .SP   *)
(* analysis exists; they are read only by checker_validate_actions, so     *)
(* they are chosen when it runs.                                           *)
(***************************************************************************)
EXTENDS Netlist

VARIABLES
    body, start, stack, deps, status, result,  \* the cycle search
    root,    \* the top-level definitions after the templates are removed
    order,   \* the templates in subcircuit_root order
    list,    \* 0: the top-level list; k > 0: the body of order[k]
    pos,     \* the definition checker_validate_subcircuits is at
    errors,  \* the error count netlist_checker sums
    flag,    \* the global checker_sub_cycles
    phase,   \* "subs", "search", "actions", "decide", "expanded",
             \* "rejected" or "overflow" (unbounded recursion)
    dc,      \* number of .DC actions at top level
    acsp,    \* some .AC or .SP analysis exists at top level
    nonlin   \* c, the count of checker_count_nonlinearities

searchVars == <<body, start, stack, deps, status, result>>
vars == <<body, start, stack, deps, status, result, root, order, list, pos,
          errors, flag, phase, dc, acsp, nonlin>>

SC == INSTANCE SubCycles

Orders == {o \in [1..Cardinality(Templates) -> Templates] :
              \A t \in Templates : \E k \in DOMAIN o : o[k] = t}

\* The definitions of the list the checker walks.
CurList == IF list = 0 THEN root ELSE body[order[list]]

CurDef == CurList[pos]

-----------------------------------------------------------------------------
Init ==
    /\ body \in Bodies
    /\ root \in UNION {[1..m -> Stmts] : m \in 0..MaxBody}
    /\ order \in Orders
    /\ start = CHOOSE t \in Templates : TRUE
    /\ stack = <<>>
    /\ deps = <<>>
    /\ status = "done"
    /\ result = 0
    /\ list = 0
    /\ pos = 1
    /\ errors = 0
    /\ flag = 0
    /\ phase = "subs"
    /\ dc = 0
    /\ acsp = FALSE
    /\ nonlin = 0

\* checker_validate_subcircuits passes over a definition that is no "Sub".
ScanOther ==
    /\ phase = "subs"
    /\ pos <= Len(CurList)
    /\ ~IsSub(CurDef)
    /\ pos' = pos + 1
    /\ UNCHANGED <<searchVars, root, order, list, errors, flag, phase,
                   dc, acsp, nonlin>>

\* "no such subcircuit ... found as referred in ...": one error, no search.
ScanUnknown ==
    /\ phase = "subs"
    /\ pos <= Len(CurList)
    /\ IsSub(CurDef)
    /\ CurDef.type \notin Templates
    /\ errors' = errors + 1
    /\ pos' = pos + 1
    /\ UNCHANGED <<searchVars, root, order, list, flag, phase, dc, acsp,
                   nonlin>>

\* A fresh dependency list and the first call of the cycle search.
ScanSearch ==
    /\ phase = "subs"
    /\ pos <= Len(CurList)
    /\ IsSub(CurDef)
    /\ CurDef.type \in Templates
    /\ start' = CurDef.type
    /\ stack' = <<SC!NewFrame(CurDef.type)>>
    /\ deps' = <<CurDef.type>>
    /\ status' = "run"
    /\ result' = 0
    /\ phase' = "search"
    /\ UNCHANGED <<body, root, order, list, pos, errors, flag, dc, acsp,
                   nonlin>>

\* One step of checker_validate_sub_cycles.
Search ==
    /\ phase = "search"
    /\ SC!Next
    /\ UNCHANGED <<root, order, list, pos, errors, flag, phase, dc, acsp,
                   nonlin>>

\* Variant of SearchDone that keeps the search's count out of the errors.
SearchDoneUncounted ==
    /\ phase = "search"
    /\ status = "done"
    /\ flag' = result
    /\ pos' = pos + 1
    /\ phase' = "subs"
    /\ UNCHANGED <<searchVars, root, order, list, errors, dc, acsp, nonlin>>

\* `errors += err; checker_sub_cycles = err;'
SearchDone ==
    /\ phase = "search"
    /\ status = "done"
    /\ errors' = errors + result
    /\ flag' = result
    /\ pos' = pos + 1
    /\ phase' = "subs"
    /\ UNCHANGED <<searchVars, root, order, list, dc, acsp, nonlin>>

\* Variant of NextList that walks one template body too many.
NextListPastEnd ==
    /\ phase = "subs"
    /\ pos > Len(CurList)
    /\ IF list <= Len(order)
         THEN /\ list' = list + 1
              /\ pos' = 1
              /\ UNCHANGED phase
         ELSE /\ phase' = "actions"
              /\ UNCHANGED <<list, pos>>
    /\ UNCHANGED <<searchVars, root, order, errors, flag, dc, acsp, nonlin>>

\* The end of a list: netlist_checker goes on with the next template body,
\* or, after the last one, with checker_validate_actions.
NextList ==
    /\ phase = "subs"
    /\ pos > Len(CurList)
    /\ IF list < Len(order)
         THEN /\ list' = list + 1
              /\ pos' = 1
              /\ UNCHANGED phase
         ELSE /\ phase' = "actions"
              /\ UNCHANGED <<list, pos>>
    /\ UNCHANGED <<searchVars, root, order, errors, flag, dc, acsp, nonlin>>

(***************************************************************************)
(* checker_count_nonlinearities with the global read as it is now: it      *)
(* never returns when it may recurse (flag <= 0) and a cycle is reachable  *)
(* from the template of a top-level "Sub"; otherwise it counts the         *)
(* nonlinear definitions of the list, and of the subcircuits it may enter. *)
(***************************************************************************)
CountDiverges ==
    /\ flag <= 0
    /\ \E k \in 1..Len(root) :
          IsSub(root[k]) /\ root[k].type \in Templates
          /\ CycleReachable(body, root[k].type)

\* Variant of CountNonlinearities that never enters a subcircuit.
CountTopLevelOnly == NonlinearIn(body, root, 0)

CountNonlinearities ==
    IF flag <= 0 THEN NonlinearInFlat(body, root) ELSE NonlinearIn(body, root, 0)

(***************************************************************************)
(* checker_validate_actions: "no actions .XX defined" when there is none;  *)
(* otherwise the nonlinear count, "the .DC action is defined %dx" for more *)
(* than one .DC, and ".DC action is required" for an .AC/.SP analysis with *)
(* a nonlinearity and no .DC; then the checks of the other components.     *)
(***************************************************************************)
ValidateActions ==
    /\ phase = "actions"
    /\ \E ndc \in 0..2, an \in BOOLEAN, others \in BOOLEAN :
         /\ dc' = ndc
         /\ acsp' = an
         /\ IF ndc = 0 /\ ~an
              THEN /\ errors' = errors + 1 + (IF others THEN 1 ELSE 0)
                   /\ phase' = "decide"
                   /\ UNCHANGED nonlin
              ELSE IF CountDiverges
                THEN /\ phase' = "overflow"
                     /\ UNCHANGED <<errors, nonlin>>
                ELSE LET c == CountNonlinearities
                     IN  /\ nonlin' = c
                         /\ errors' = errors
                                      + (IF ndc > 1 THEN 1 ELSE 0)
                                      + (IF an /\ c >= 1 /\ ndc < 1
                                           THEN 1 ELSE 0)
                                      + (IF others THEN 1 ELSE 0)
                         /\ phase' = "decide"
    /\ UNCHANGED <<searchVars, root, order, list, pos, flag>>

\* `if (!errors)' expand the subcircuits; netlist_checker returns 0 or -1.
Decide ==
    /\ phase = "decide"
    /\ phase' = IF errors = 0 THEN "expanded" ELSE "rejected"
    /\ UNCHANGED <<searchVars, root, order, list, pos, errors, flag, dc,
                   acsp, nonlin>>

Next ==
    \/ ScanOther \/ ScanUnknown \/ ScanSearch \/ Search \/ SearchDone
    \/ NextList \/ ValidateActions \/ Decide

Spec == Init /\ [][Next]_vars /\ WF_vars(Next)

-----------------------------------------------------------------------------
TypeOK ==
    /\ SC!TypeOK
    /\ root \in Seq(Stmts)
    /\ order \in Orders
    /\ list \in 0..Cardinality(Templates)
    /\ pos \in Nat \ {0}
    /\ errors \in Nat
    /\ flag \in Nat
    /\ phase \in {"subs", "search", "actions", "decide", "expanded",
                  "rejected", "overflow"}
    /\ dc \in 0..2
    /\ acsp \in BOOLEAN
    /\ nonlin \in Nat

\* The templates a top-level "Sub" names, and those it reaches.
UsedTemplates ==
    {t \in Templates : \E k \in 1..Len(root) :
        IsSub(root[k]) /\ root[k].type = t}

\* The expansion (checker_copy_subcircuits recurses without end on a cycle
\* and dereferences NULL on an unknown type) only starts on a netlist whose
\* top-level "Sub"s name templates from which neither a cycle nor an
\* unknown type is reachable.
ExpansionSafe ==
    phase = "expanded" =>
        /\ \A k \in 1..Len(root) : IsSub(root[k]) => root[k].type \in Templates
        /\ \A t \in UsedTemplates :
              ~CycleReachable(body, t) /\ ~UndefinedReachable(body, t)

\* An accepted netlist obeys the .DC rules for the circuit the solver will
\* see, nonlinear elements inside subcircuits included: at most one .DC,
\* and one whenever an .AC or .SP analysis meets a nonlinearity.
DCPolicy ==
    phase = "expanded" =>
        /\ dc <= 1
        /\ (acsp /\ NonlinearInFlat(body, root) >= 1) => dc = 1

\* checker_count_nonlinearities always returns: the checker never recurses
\* into subcircuits without end.
NoUnboundedRecursion == phase # "overflow"
=============================================================================
