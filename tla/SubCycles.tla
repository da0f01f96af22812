----------------------------- MODULE SubCycles -----------------------------
(***************************************************************************)
(* checker_validate_sub_cycles (check_netlist.cpp): the depth-first search *)
(* for cyclic subcircuit definitions, started by                           *)
(* checker_validate_subcircuits for one "Sub" instance whose template was  *)
(* found.  The recursion is an explicit stack of frames, one per active    *)
(* call; a frame holds the call's locals: the template t whose body is     *)
(* being walked, the position i in that body, the per-call list `checked'  *)
(* of types already descended into, the copy `saved' of the dependency     *)
(* list taken before the current child call, and the call's error count.   *)
(* deps is the strlist shared by every call through `strlist ** deps'.     *)
(***************************************************************************)
EXTENDS Netlist

VARIABLES
    body,    \* the templates' bodies (never changed by the search)
    start,   \* the template of the "Sub" instance being checked
    stack,   \* frames of the active calls, the innermost last
    deps,    \* *deps: the dependency list (strlist)
    status,  \* "run" while searching, "done" on return, "crash" on NULL use
    result   \* the error count returned to checker_validate_subcircuits

vars == <<body, start, stack, deps, status, result>>

Frame == [t : Templates, i : Nat \ {0}, checked : SUBSET Names,
          saved : Seq(Templates), err : Nat]

Contains(s, x) == \E k \in 1..Len(s) : s[k] = x

\* Variant of NewFrame whose loop starts at position 0.
NewFrameFromZero(t) ==
    [t |-> t, i |-> 0, checked |-> {}, saved |-> <<>>, err |-> 0]

\* A call of checker_validate_sub_cycles for template t whose entry check
\* passed: `(*deps)->append (type)' was done and the loop starts.
NewFrame(t) == [t |-> t, i |-> 1, checked |-> {}, saved |-> <<>>, err |-> 0]

Top == stack[Len(stack)]

\* The definition the innermost call is looking at.
Cur == body[Top.t][Top.i]

\* The current definition is a "Sub" whose type this call has not yet
\* descended into (`!checked->contains (val->ident)').
Unchecked == IsSub(Cur) /\ Cur.type \notin Top.checked

SetTop(f) == stack' = [stack EXCEPT ![Len(stack)] = f]

-----------------------------------------------------------------------------
Init ==
    /\ body \in Bodies
    /\ start \in Templates
    /\ stack = <<NewFrame(start)>>
    /\ deps = <<start>>
    /\ status = "run"
    /\ result = 0

\* The loop passes over a definition that is not a "Sub", or a "Sub" whose
\* type this call already descended into (`checked->contains').
Skip ==
    /\ status = "run"
    /\ Top.i <= Len(body[Top.t])
    /\ ~Unchecked
    /\ SetTop([Top EXCEPT !.i = @ + 1])
    /\ UNCHANGED <<body, start, deps, status, result>>

\* `sub = checker_find_subcircuit (val->ident)' returns NULL for a type no
\* template carries, and `sub->instance' dereferences it.
CallUndefined ==
    /\ status = "run"
    /\ Top.i <= Len(body[Top.t])
    /\ Unchecked
    /\ Cur.type \in Undefined
    /\ status' = "crash"
    /\ UNCHANGED <<body, start, stack, deps, result>>

\* The recursive call finds its type already in *deps: it reports the
\* cycle and returns 1 at once; the caller adds it to its errors and keeps
\* *deps as it is (the copy is deleted, not restored).
CallCyclic ==
    /\ status = "run"
    /\ Top.i <= Len(body[Top.t])
    /\ Unchecked
    /\ Cur.type \in Templates
    /\ Contains(deps, Cur.type)
    /\ SetTop([Top EXCEPT !.checked = @ \cup {Cur.type},
                          !.err = @ + 1, !.i = @ + 1])
    /\ UNCHANGED <<body, start, deps, status, result>>

\* Variant of Call that copies *deps after the callee's append.
CallCopyAfterAppend ==
    /\ status = "run"
    /\ Top.i <= Len(body[Top.t])
    /\ Unchecked
    /\ Cur.type \in Templates
    /\ ~Contains(deps, Cur.type)
    /\ stack' = Append([stack EXCEPT ![Len(stack)] =
                          [Top EXCEPT !.checked = @ \cup {Cur.type},
                                      !.saved = Append(deps, Cur.type)]],
                       NewFrame(Cur.type))
    /\ deps' = Append(deps, Cur.type)
    /\ UNCHANGED <<body, start, status, result>>

\* The caller records the type as checked, copies *deps, and the callee
\* appends its type to *deps and starts walking its body.
Call ==
    /\ status = "run"
    /\ Top.i <= Len(body[Top.t])
    /\ Unchecked
    /\ Cur.type \in Templates
    /\ ~Contains(deps, Cur.type)
    /\ stack' = Append([stack EXCEPT ![Len(stack)] =
                          [Top EXCEPT !.checked = @ \cup {Cur.type},
                                      !.saved = deps]],
                       NewFrame(Cur.type))
    /\ deps' = Append(deps, Cur.type)
    /\ UNCHANGED <<body, start, status, result>>

\* Variant of Return that never restores *deps after a successful call.
ReturnNoRestore ==
    /\ status = "run"
    /\ Top.i > Len(body[Top.t])
    /\ IF Len(stack) = 1
         THEN /\ stack' = <<>>
              /\ status' = "done"
              /\ result' = Top.err
              /\ UNCHANGED deps
         ELSE LET caller == stack[Len(stack) - 1]
              IN  /\ stack' = Append(SubSeq(stack, 1, Len(stack) - 2),
                                      [caller EXCEPT !.err = @ + Top.err,
                                                     !.i = @ + 1])
                  /\ UNCHANGED <<deps, status, result>>
    /\ UNCHANGED <<body, start>>

\* The innermost call has walked its body and returns its error count.
\* Its caller adds the count, or, with no errors, restores *deps to the
\* copy it took before the call; the outermost call returns to
\* checker_validate_subcircuits.
Return ==
    /\ status = "run"
    /\ Top.i > Len(body[Top.t])
    /\ IF Len(stack) = 1
         THEN /\ stack' = <<>>
              /\ status' = "done"
              /\ result' = Top.err
              /\ UNCHANGED deps
         ELSE LET caller == stack[Len(stack) - 1]
                  e == Top.err
              IN  /\ stack' = Append(SubSeq(stack, 1, Len(stack) - 2),
                                      [caller EXCEPT !.err = @ + e,
                                                     !.i = @ + 1])
                  /\ deps' = IF e = 0 THEN caller.saved ELSE deps
                  /\ UNCHANGED <<status, result>>
    /\ UNCHANGED <<body, start>>

Next == Skip \/ CallUndefined \/ CallCyclic \/ Call \/ Return

Spec == Init /\ [][Next]_vars /\ WF_vars(Next)

-----------------------------------------------------------------------------
TypeOK ==
    /\ body \in Bodies
    /\ start \in Templates
    /\ stack \in Seq(Frame)
    /\ deps \in Seq(Templates)
    /\ status \in {"run", "done", "crash"}
    /\ result \in Nat

\* The templates of the active calls, outermost first.
CallPath == [k \in 1..Len(stack) |-> stack[k].t]

\* While no call has met a cycle, *deps is exactly the chain of templates
\* of the active calls: the copy-and-restore around each successful child
\* call in checker_validate_sub_cycles undoes what the child appended.
DepsIsCallPath ==
    (status = "run" /\ \A k \in 1..Len(stack) : stack[k].err = 0)
        => deps = CallPath

\* The abstract promise of the search: it answers, once, whether a cycle
\* is reachable from the checked template.
Verdict == IF status = "done"
             THEN IF result > 0 THEN "cyclic" ELSE "acyclic"
             ELSE "pending"

Abstract == INSTANCE SubCyclesAbstract WITH verdict <- Verdict

\* checker_validate_sub_cycles reports a cycle exactly when one is
\* reachable from the template of the checked instance.
RefinesAbstract == Abstract!Spec

\* No "Type" in a reachable body makes the search dereference NULL.
NoNullDereference == status # "crash"
=============================================================================
