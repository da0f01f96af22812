------------------------------ MODULE Ports ------------------------------
(***************************************************************************)
(* checker_validate_ports (check_netlist.cpp): every "Pac" component with  *)
(* a numeric "Num" is compared with every other "Pac" of the list, the     *)
(* numbers cast to int, and each equal pair counts an error (once from     *)
(* each side).  Both loops step with checker_find_port, which returns the  *)
(* next "Pac" component at or after a definition.                          *)
(*                                                                         *)
(* A definition is its action flag, its type and its "Num" value, NoNum    *)
(* when checker_find_prop_value returns NULL (no "Num", or an identifier). *)
(* A number is held in tenths, so 15 stands for 1.5; the cast to int      *)
(* truncates it (the numbers here are not negative).                       *)
(***************************************************************************)
EXTENDS Naturals, Sequences, FiniteSets

CONSTANTS
    Types,     \* definition types, "Pac" among them
    NoNum,     \* no numeric "Num"
    DefSpace   \* the definition lists the parser can hand over

Defs == [action : BOOLEAN, type : Types, num : Nat \cup {NoNum}]

ASSUME PortsAssumption ==
    /\ "Pac" \in Types
    /\ NoNum \notin Nat
    /\ DefSpace \subseteq Seq(Defs)

VARIABLES
    defs,    \* the top-level definition list
    d,       \* the outer loop's def
    p,       \* the inner loop's port
    errors,  \* the error count
    phase    \* "outer", "inner" or "done"

vars == <<defs, d, p, errors, phase>>

\* def->action == PROP_COMPONENT (0, a component) && !strcmp (def->type, "Pac")
IsPort(x) == ~x.action /\ x.type = "Pac"

\* (int) val->value
ToInt(n) == n \div 10

\* Variant of SameNumber that compares the doubles, not their casts.
SameNumberNoCast(m, n) == m = n

\* `p == (int) val->value' with p the cast of the first number.
SameNumber(m, n) == ToInt(m) = ToInt(n)

-----------------------------------------------------------------------------
Init ==
    /\ defs \in DefSpace
    /\ d = 1
    /\ p = 1
    /\ errors = 0
    /\ phase = "outer"

\* checker_find_port passes over a definition that is no "Pac".
OuterScan ==
    /\ phase = "outer"
    /\ d <= Len(defs)
    /\ ~IsPort(defs[d])
    /\ d' = d + 1
    /\ UNCHANGED <<defs, p, errors, phase>>

\* A port without a numeric "Num" is not compared.
OuterNoNum ==
    /\ phase = "outer"
    /\ d <= Len(defs)
    /\ IsPort(defs[d])
    /\ defs[d].num = NoNum
    /\ d' = d + 1
    /\ UNCHANGED <<defs, p, errors, phase>>

\* Variant of OuterPort whose inner walk starts one before the head.
OuterPortFromZero ==
    /\ phase = "outer"
    /\ d <= Len(defs)
    /\ IsPort(defs[d])
    /\ defs[d].num # NoNum
    /\ p' = 0
    /\ phase' = "inner"
    /\ UNCHANGED <<defs, d, errors>>

\* A port with a number: the inner walk starts at the head of the list.
OuterPort ==
    /\ phase = "outer"
    /\ d <= Len(defs)
    /\ IsPort(defs[d])
    /\ defs[d].num # NoNum
    /\ p' = 1
    /\ phase' = "inner"
    /\ UNCHANGED <<defs, d, errors>>

InnerScan ==
    /\ phase = "inner"
    /\ p <= Len(defs)
    /\ ~IsPort(defs[p])
    /\ p' = p + 1
    /\ UNCHANGED <<defs, d, errors, phase>>

\* Another port with a numeric "Num" equal after the cast: "duplicate
\* `Num=%d' property found".
InnerCompare ==
    /\ phase = "inner"
    /\ p <= Len(defs)
    /\ IsPort(defs[p])
    /\ errors' = errors + (IF /\ p # d
                              /\ defs[p].num # NoNum
                              /\ SameNumber(defs[d].num, defs[p].num)
                           THEN 1 ELSE 0)
    /\ p' = p + 1
    /\ UNCHANGED <<defs, d, phase>>

InnerEnd ==
    /\ phase = "inner"
    /\ p > Len(defs)
    /\ d' = d + 1
    /\ phase' = "outer"
    /\ UNCHANGED <<defs, p, errors>>

OuterEnd ==
    /\ phase = "outer"
    /\ d > Len(defs)
    /\ phase' = "done"
    /\ UNCHANGED <<defs, d, p, errors>>

Next ==
    \/ OuterScan \/ OuterNoNum \/ OuterPort
    \/ InnerScan \/ InnerCompare \/ InnerEnd \/ OuterEnd

Spec == Init /\ [][Next]_vars /\ WF_vars(Next)

-----------------------------------------------------------------------------
TypeOK ==
    /\ defs \in Seq(Defs)
    /\ d \in 1..Len(defs) + 1
    /\ p \in 1..Len(defs) + 1
    /\ errors \in Nat
    /\ phase \in {"outer", "inner", "done"}

(***************************************************************************)
(* Spec invariant 8: when the port check finds no error, the port numbers  *)
(* the S-parameter analysis will use (the numeric "Num" of each "Pac" cast *)
(* to int) are pairwise distinct.                                          *)
(***************************************************************************)
PortsUnique ==
    (phase = "done" /\ errors = 0) =>
        \A k1, k2 \in DOMAIN defs :
            (/\ k1 # k2 /\ IsPort(defs[k1]) /\ IsPort(defs[k2])
             /\ defs[k1].num # NoNum /\ defs[k2].num # NoNum)
               => ToInt(defs[k1].num) # ToInt(defs[k2].num)
=============================================================================
