------------------------------ MODULE Lists ------------------------------
(***************************************************************************)
(* checker_validate_lists and checker_evaluate_scale (check_netlist.cpp),  *)
(* with the scale evaluation netlist_checker_intern applies to the first   *)
(* value of every property before checker_validate_actions runs.           *)
(*                                                                         *)
(* A definition is reduced to what these functions read: whether it is an  *)
(* action, its type, the identifier of its "Type" property (NoRef when     *)
(* checker_find_reference returns NULL), how each of "Start", "Stop" and   *)
(* "Points" is given ("none", a number "num" or an identifier "ident"),    *)
(* and how "Values" is given (vform) with, when it is a number, the        *)
(* chained list of its values (vals).  A value is its number, its scale    *)
(* string and its unit string as sequences of characters; the empty        *)
(* sequence stands for NULL (the lexer never hands over an empty scale).   *)
(*                                                                         *)
(* A number is kept exactly, as the parsed mantissa m followed by the      *)
(* steps applied to it: a step [db, e] maps x to                           *)
(* (IF db THEN 10^(x/10) ELSE x) * 10^e.  Rounding of the doubles is left  *)
(* out.                                                                    *)
(***************************************************************************)
EXTENDS Integers, Sequences, FiniteSets

CONSTANTS
    Chars,     \* the characters of scale strings
    Types,     \* definition types, "SW", "AC" and "SP" among them
    Kinds,     \* the identifiers "Type" may hold
    NoRef,     \* no identifier
    DefSpace   \* the definition lists the parser can hand over

Given == {"none", "num", "ident"}

Steps == [db : BOOLEAN, e : Int]

Numbers == [m : Int, steps : Seq(Steps)]

Values == [num : Numbers, scale : Seq(Chars), unit : Seq(Chars)]

Defs == [action : BOOLEAN, type : Types, kind : Kinds \cup {NoRef},
         start : Given, stop : Given, points : Given,
         vform : Given, vals : Seq(Values)]

\* What the parser hands over: definitions whose numbers are as written
\* (no scale applied yet), and a numeric "Values" holds one value or more.
ASSUME ListsAssumption ==
    /\ {"const", "list", "lin", "log"} \subseteq Kinds
    /\ NoRef \notin Kinds
    /\ DefSpace \subseteq Seq(Defs)
    /\ \A ds \in DefSpace : \A k \in DOMAIN ds :
          /\ ds[k].vform = "num" => ds[k].vals # <<>>
          /\ \A n \in DOMAIN ds[k].vals : ds[k].vals[n].num.steps = <<>>

VARIABLES
    parsed,  \* ghost: the definition list as the parser built it
    defs,    \* the definition list
    i,       \* the loop's def
    errors,  \* the error count
    phase    \* "intern", "lists", "done" or "crashed"

vars == <<parsed, defs, i, errors, phase>>

(***************************************************************************)
(* checker_evaluate_scale: one prefix letter gives a power of ten; "d"     *)
(* followed by "B" turns the value into 10^(value/10), and a further "m"   *)
(* is read as the factor 1e-3; whatever is left becomes the unit; the      *)
(* scale is freed and set to NULL.  A value with no scale is multiplied by *)
(* 1.0.                                                                    *)
(***************************************************************************)
Prefix ==
    [c \in {"T", "G", "M", "k", "m", "u", "n", "p", "f", "a"} |->
       CASE c = "T" -> 12 [] c = "G" -> 9 [] c = "M" -> 6 [] c = "k" -> 3
         [] c = "m" -> -3 [] c = "u" -> -6 [] c = "n" -> -9
         [] c = "p" -> -12 [] c = "f" -> -15 [] c = "a" -> -18]

Apply(n, step) ==
    IF step = [db |-> FALSE, e |-> 0] THEN n
    ELSE [n EXCEPT !.steps = Append(@, step)]

\* The number of scale characters the switch consumes, and its step.
ScaleUse(s) ==
    LET isDB  == s[1] = "d" /\ Len(s) >= 2 /\ s[2] = "B"
        isDBm == isDB /\ Len(s) >= 3 /\ s[3] = "m"
    IN  IF s[1] \in DOMAIN Prefix THEN [n |-> 1, db |-> FALSE, e |-> Prefix[s[1]]]
        ELSE IF isDBm THEN [n |-> 3, db |-> TRUE, e |-> -3]
        ELSE IF isDB THEN [n |-> 2, db |-> TRUE, e |-> 0]
        ELSE IF s[1] = "d" THEN [n |-> 1, db |-> FALSE, e |-> 0]
        ELSE [n |-> 0, db |-> FALSE, e |-> 0]

\* Variant of EvaluateScale that keeps the scale string.
EvaluateScaleKeep(v) ==
    IF v.scale = <<>> THEN v
    ELSE LET u    == ScaleUse(v.scale)
             rest == SubSeq(v.scale, u.n + 1, Len(v.scale))
         IN  [num   |-> Apply(v.num, [db |-> u.db, e |-> u.e]),
              scale |-> v.scale,
              unit  |-> IF rest # <<>> THEN rest ELSE v.unit]

EvaluateScale(v) ==
    IF v.scale = <<>> THEN v
    ELSE LET u    == ScaleUse(v.scale)
             rest == SubSeq(v.scale, u.n + 1, Len(v.scale))
         IN  [num   |-> Apply(v.num, [db |-> u.db, e |-> u.e]),
              scale |-> <<>>,
              unit  |-> IF rest # <<>> THEN rest ELSE v.unit]

\* The value list with checker_evaluate_scale applied to every value.
EvaluateAll(vs) == [n \in DOMAIN vs |-> EvaluateScale(vs[n])]

IsList(d) == d.vform = "num"

\* Definitions that checker_validate_lists looks at.
IsSwept(d) == d.action /\ d.type \in {"SW", "AC", "SP"}

\* checker_find_prop_value (def, key) != NULL: given and not an identifier.
Num(g) == IF g = "num" THEN 1 ELSE 0

-----------------------------------------------------------------------------
Init ==
    /\ defs \in DefSpace
    /\ parsed = defs
    /\ i = 1
    /\ errors = 0
    /\ phase = "intern"

\* netlist_checker_intern: the scale of the first value of "Values" (the
\* value of its pair) is evaluated, the rest of the chain is not.
InternDef ==
    /\ phase = "intern"
    /\ i <= Len(defs)
    /\ defs' = IF IsList(defs[i])
                 THEN [defs EXCEPT ![i].vals[1] = EvaluateScale(@)]
                 ELSE defs
    /\ i' = i + 1
    /\ UNCHANGED <<parsed, errors, phase>>

\* Variant of InternDone whose second loop starts one before the head.
InternDoneFromZero ==
    /\ phase = "intern"
    /\ i > Len(defs)
    /\ i' = 0
    /\ phase' = "lists"
    /\ UNCHANGED <<parsed, defs, errors>>

\* The other per-definition checks and checker_validate_subcircuits, the
\* counting, sweep and port checks of checker_validate_actions run here;
\* their errors are outside this model.
InternDone ==
    /\ phase = "intern"
    /\ i > Len(defs)
    /\ i' = 1
    /\ phase' = "lists"
    /\ UNCHANGED <<parsed, defs, errors>>

ListsSkip ==
    /\ phase = "lists"
    /\ i <= Len(defs)
    /\ ~IsSwept(defs[i])
    /\ i' = i + 1
    /\ UNCHANGED <<parsed, defs, errors, phase>>

\* `char * type = val->ident' with val == NULL: the checker crashes.
ListsNullType ==
    /\ phase = "lists"
    /\ i <= Len(defs)
    /\ IsSwept(defs[i])
    /\ defs[i].kind = NoRef
    /\ phase' = "crashed"
    /\ UNCHANGED <<parsed, defs, i, errors>>

\* A "const" or "list" sweep: "Values" is required (a single value for
\* "const") and every value of it gets its scale evaluated; "Start",
\* "Stop" and "Points" are extraneous.
ListsConst ==
    /\ phase = "lists"
    /\ i <= Len(defs)
    /\ IsSwept(defs[i])
    /\ defs[i].kind \in {"const", "list"}
    /\ LET d == defs[i]
       IN  /\ errors' = errors
                        + (IF ~IsList(d) THEN 1
                           ELSE IF d.kind = "const" /\ Len(d.vals) > 1
                             THEN 1 ELSE 0)
                        + Num(d.start) + Num(d.stop) + Num(d.points)
           /\ defs' = IF IsList(d)
                        THEN [defs EXCEPT ![i].vals = EvaluateAll(@)]
                        ELSE defs
    /\ i' = i + 1
    /\ UNCHANGED <<parsed, phase>>

\* A "lin" or "log" sweep: "Start", "Stop" and "Points" are required and
\* "Values" is extraneous.
ListsStepped ==
    /\ phase = "lists"
    /\ i <= Len(defs)
    /\ IsSwept(defs[i])
    /\ defs[i].kind \in {"lin", "log"}
    /\ LET d == defs[i]
       IN  errors' = errors + (1 - Num(d.start)) + (1 - Num(d.stop))
                            + (1 - Num(d.points))
                            + (IF IsList(d) THEN 1 ELSE 0)
    /\ i' = i + 1
    /\ UNCHANGED <<parsed, defs, phase>>

\* Any other "Type" identifier is left to checker_validate_special.
ListsOther ==
    /\ phase = "lists"
    /\ i <= Len(defs)
    /\ IsSwept(defs[i])
    /\ defs[i].kind \notin {"const", "list", "lin", "log", NoRef}
    /\ i' = i + 1
    /\ UNCHANGED <<parsed, defs, errors, phase>>

ListsDone ==
    /\ phase = "lists"
    /\ i > Len(defs)
    /\ phase' = "done"
    /\ UNCHANGED <<parsed, defs, i, errors>>

Next ==
    \/ InternDef \/ InternDone
    \/ ListsSkip \/ ListsNullType \/ ListsConst \/ ListsStepped \/ ListsOther
    \/ ListsDone

Spec == Init /\ [][Next]_vars /\ WF_vars(Next)

-----------------------------------------------------------------------------
TypeOK ==
    /\ parsed \in Seq(Defs)
    /\ defs \in Seq(Defs)
    /\ DOMAIN defs = DOMAIN parsed
    /\ i \in 1..Len(defs) + 1
    /\ errors \in Nat
    /\ phase \in {"intern", "lists", "done", "crashed"}

(***************************************************************************)
(* A value's scale is folded into it exactly once.  The first value of     *)
(* "Values" is evaluated by netlist_checker_intern and again, with every   *)
(* other value, by checker_validate_lists: the second evaluation must find *)
(* the scale gone.  When the checks are over, no number carries more than  *)
(* one scale step, the first value of every list and every value of a      *)
(* "const" or "list" sweep has no scale left.                              *)
(***************************************************************************)
FoldedOnce ==
    phase = "done" =>
        \A k \in DOMAIN defs : IsList(defs[k]) =>
            /\ \A n \in DOMAIN defs[k].vals :
                  Len(defs[k].vals[n].num.steps) <= 1
            /\ defs[k].vals[1].scale = <<>>
            /\ (IsSwept(defs[k]) /\ defs[k].kind \in {"const", "list"})
                  => \A n \in DOMAIN defs[k].vals : defs[k].vals[n].scale = <<>>

(***************************************************************************)
(* The spec's sweep rule: when checker_validate_lists finds no error, a    *)
(* "const" or "list" sweep has "Values" (one value for "const") and no     *)
(* "Start", "Stop" or "Points", and a "lin" or "log" sweep has all three   *)
(* and no "Values".  An identifier-valued property counts as given.        *)
(***************************************************************************)
SweepRule ==
    (phase = "done" /\ errors = 0) =>
        \A k \in DOMAIN defs : IsSwept(defs[k]) =>
            /\ defs[k].kind \in {"const", "list"} =>
                  /\ defs[k].vform # "none"
                  /\ defs[k].kind = "const" => Len(defs[k].vals) <= 1
                  /\ {defs[k].start, defs[k].stop, defs[k].points} = {"none"}
            /\ defs[k].kind \in {"lin", "log"} =>
                  /\ "none" \notin {defs[k].start, defs[k].stop, defs[k].points}
                  /\ defs[k].vform = "none"

\* checker_validate_lists never dereferences a NULL "Type" reference: a
\* sweep, AC or SP action whose "Type" is missing or a number gets an
\* error instead of a crash (errors are accumulated, never fatal).
NoNullType == phase # "crashed"

\* The spec's dBm rule: "3dBm" folds to 10^(3/10) and keeps the unit "m".
DbmKeepsUnit ==
    \A k \in DOMAIN defs : IsList(defs[k]) =>
        \A n \in DOMAIN defs[k].vals :
            (parsed[k].vals[n].scale = <<"d", "B", "m">>
             /\ defs[k].vals[n].scale = <<>>)
               => /\ defs[k].vals[n].unit = <<"m">>
                  /\ defs[k].vals[n].num.steps = <<[db |-> TRUE, e |-> 0]>>
=============================================================================
