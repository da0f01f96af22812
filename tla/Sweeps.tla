------------------------------ MODULE Sweeps ------------------------------
(***************************************************************************)
(* checker_validate_para and checker_validate_para_cycles                  *)
(* (check_netlist.cpp): the parameter-sweep checks of                      *)
(* checker_validate_actions.  For every "SW" action the "Sim" property     *)
(* must be an identifier, must not name the sweep itself and must name     *)
(* exactly one action; then the chain of "Sim" references is followed from *)
(* that name with a fresh dependency list.  The recursion of               *)
(* checker_validate_para_cycles is a tail call (`return                    *)
(* checker_validate_para_cycles (...)'), so it is a loop here: `cur' is    *)
(* the instance the current call looks for and `j' its position in the     *)
(* definition list.                                                        *)
(*                                                                         *)
(* A definition is its action flag, its type, its instance name and the    *)
(* identifier of its "Sim" property, NoRef when checker_find_reference     *)
(* returns NULL (no "Sim", or a number).                                   *)
(***************************************************************************)
EXTENDS Integers, Sequences, FiniteSets, Relation

CONSTANTS
    Names,     \* instance names, also the identifiers "Sim" may hold
    Types,     \* definition types, "SW" among them
    NoRef,     \* no identifier
    DefSpace   \* the definition lists the parser can hand over

Defs == [action : BOOLEAN, type : Types, inst : Names, sim : Names \cup {NoRef}]

ASSUME SweepsAssumption ==
    /\ IsFiniteSet(Names)
    /\ "SW" \in Types
    /\ NoRef \notin Names
    /\ DefSpace \subseteq Seq(Defs)

VARIABLES
    defs,     \* the top-level definition list
    i,        \* checker_validate_para's def
    errors,   \* the error count checker_validate_actions sums
    cur,      \* the instance argument of the active para_cycles call
    j,        \* that call's def
    deps,     \* the strlist deps shared by the chain of calls
    phase,    \* "para", "cycles" or "done"
    results   \* ghost: the value checker_validate_para_cycles returned for
              \* the sweep at position k, or -1 before it is checked

vars == <<defs, i, errors, cur, j, deps, phase, results>>

IsSweep(d) == d.action /\ d.type = "SW"

\* Variant of IsActionNamed that forgets the action flag.
IsNamed(d, n) == d.inst = n

\* def->action == 1 && !strcmp (def->instance, n)
IsActionNamed(d, n) == d.action /\ d.inst = n

\* checker_count_action
CountAction(n) == Cardinality({k \in DOMAIN defs : IsActionNamed(defs[k], n)})

Contains(s, x) == \E k \in DOMAIN s : s[k] = x

\* A strlist of distinct names never holds more than all of them.
MaxDepth == Cardinality(Names)

-----------------------------------------------------------------------------
Init ==
    /\ defs \in DefSpace
    /\ i = 1
    /\ errors = 0
    /\ cur = NoRef
    /\ j = 1
    /\ deps = <<>>
    /\ phase = "para"
    /\ results = [k \in DOMAIN defs |-> -1]

\* checker_validate_para passes over a definition that is no "SW" action.
ParaSkip ==
    /\ phase = "para"
    /\ i <= Len(defs)
    /\ ~IsSweep(defs[i])
    /\ i' = i + 1
    /\ UNCHANGED <<defs, errors, cur, j, deps, phase, results>>

\* "not a valid `Sim' property": one error, nothing else is checked.
ParaNoSim ==
    /\ phase = "para"
    /\ i <= Len(defs)
    /\ IsSweep(defs[i])
    /\ defs[i].sim = NoRef
    /\ errors' = errors + 1
    /\ i' = i + 1
    /\ UNCHANGED <<defs, cur, j, deps, phase, results>>

\* Variant of ParaCheck whose search starts one before the head.
ParaCheckFromZero ==
    /\ phase = "para"
    /\ i <= Len(defs)
    /\ IsSweep(defs[i])
    /\ defs[i].sim # NoRef
    /\ errors' = errors + (IF defs[i].inst = defs[i].sim THEN 1 ELSE 0)
                        + (IF CountAction(defs[i].sim) # 1 THEN 1 ELSE 0)
    /\ cur' = defs[i].sim
    /\ j' = 0
    /\ deps' = <<>>
    /\ phase' = "cycles"
    /\ UNCHANGED <<defs, i, results>>

\* Variant of ParaCheck that only reports a reference to no action.
ParaCheckAnyCount ==
    /\ phase = "para"
    /\ i <= Len(defs)
    /\ IsSweep(defs[i])
    /\ defs[i].sim # NoRef
    /\ errors' = errors + (IF defs[i].inst = defs[i].sim THEN 1 ELSE 0)
                        + (IF CountAction(defs[i].sim) < 1 THEN 1 ELSE 0)
    /\ cur' = defs[i].sim
    /\ j' = 1
    /\ deps' = <<>>
    /\ phase' = "cycles"
    /\ UNCHANGED <<defs, i, results>>

\* "refers to itself", "no such action", then the cycle search starts
\* at the referred name with a new, empty strlist.
ParaCheck ==
    /\ phase = "para"
    /\ i <= Len(defs)
    /\ IsSweep(defs[i])
    /\ defs[i].sim # NoRef
    /\ errors' = errors + (IF defs[i].inst = defs[i].sim THEN 1 ELSE 0)
                        + (IF CountAction(defs[i].sim) # 1 THEN 1 ELSE 0)
    /\ cur' = defs[i].sim
    /\ j' = 1
    /\ deps' = <<>>
    /\ phase' = "cycles"
    /\ UNCHANGED <<defs, i, results>>

\* The call's loop passes over a definition that is not the action `cur'.
CycleScan ==
    /\ phase = "cycles"
    /\ j <= Len(defs)
    /\ ~IsActionNamed(defs[j], cur)
    /\ j' = j + 1
    /\ UNCHANGED <<defs, i, errors, cur, deps, phase, results>>

\* Variant of CycleFound whose 1 is not added to the errors.
CycleFoundUncounted ==
    /\ phase = "cycles"
    /\ j <= Len(defs)
    /\ IsActionNamed(defs[j], cur)
    /\ Contains(deps, cur)
    /\ results' = [results EXCEPT ![i] = 1]
    /\ i' = i + 1
    /\ phase' = "para"
    /\ UNCHANGED <<defs, errors, cur, j, deps>>

\* The action is already in the dependencies: "cyclic definition", and
\* the 1 is returned through every call of the chain.
CycleFound ==
    /\ phase = "cycles"
    /\ j <= Len(defs)
    /\ IsActionNamed(defs[j], cur)
    /\ Contains(deps, cur)
    /\ errors' = errors + 1
    /\ results' = [results EXCEPT ![i] = 1]
    /\ i' = i + 1
    /\ phase' = "para"
    /\ UNCHANGED <<defs, cur, j, deps>>

\* Variant of CycleFollow that recurses without appending.
CycleFollowNoAppend ==
    /\ phase = "cycles"
    /\ j <= Len(defs)
    /\ IsActionNamed(defs[j], cur)
    /\ ~Contains(deps, cur)
    /\ Len(deps) < MaxDepth
    /\ IsSweep(defs[j]) /\ defs[j].sim # NoRef
    /\ cur' = defs[j].sim
    /\ j' = 1
    /\ UNCHANGED <<defs, i, errors, deps, phase, results>>

\* Append it; a sweep with a "Sim" identifier recurses into that name.
CycleFollow ==
    /\ phase = "cycles"
    /\ j <= Len(defs)
    /\ IsActionNamed(defs[j], cur)
    /\ ~Contains(deps, cur)
    /\ Len(deps) < MaxDepth
    /\ IsSweep(defs[j]) /\ defs[j].sim # NoRef
    /\ deps' = Append(deps, cur)
    /\ cur' = defs[j].sim
    /\ j' = 1
    /\ UNCHANGED <<defs, i, errors, phase, results>>

\* Append it; any other action lets the loop go on with the next one.
CycleContinue ==
    /\ phase = "cycles"
    /\ j <= Len(defs)
    /\ IsActionNamed(defs[j], cur)
    /\ ~Contains(deps, cur)
    /\ ~(IsSweep(defs[j]) /\ defs[j].sim # NoRef)
    /\ deps' = Append(deps, cur)
    /\ j' = j + 1
    /\ UNCHANGED <<defs, i, errors, cur, phase, results>>

\* The end of the list: 0 is returned through the chain and deleted deps.
CycleEnd ==
    /\ phase = "cycles"
    /\ j > Len(defs)
    /\ results' = [results EXCEPT ![i] = 0]
    /\ i' = i + 1
    /\ phase' = "para"
    /\ UNCHANGED <<defs, errors, cur, j, deps>>

ParaDone ==
    /\ phase = "para"
    /\ i > Len(defs)
    /\ phase' = "done"
    /\ UNCHANGED <<defs, i, errors, cur, j, deps, results>>

Next ==
    \/ ParaSkip \/ ParaNoSim \/ ParaCheck
    \/ CycleScan \/ CycleFound \/ CycleFollow \/ CycleContinue \/ CycleEnd
    \/ ParaDone

\* One sequential pass: every step the code takes is eventually taken.
Spec == Init /\ [][Next]_vars /\ WF_vars(Next)

-----------------------------------------------------------------------------
TypeOK ==
    /\ defs \in Seq(Defs)
    /\ i \in 1..Len(defs) + 1
    /\ errors \in Nat
    /\ cur \in Names \cup {NoRef}
    /\ j \in 1..Len(defs) + 1
    /\ deps \in Seq(Names)
    /\ phase \in {"para", "cycles", "done"}
    /\ results \in [DOMAIN defs -> {-1, 0, 1}]

(***************************************************************************)
(* Reference definitions, from the spec: n -> m when a sweep named n has   *)
(* "Sim" m; a chain is cyclic when a name on a cycle is reachable.         *)
(***************************************************************************)
SweepEdge ==
    [p \in Names \X Names |->
       \E k \in DOMAIN defs : IsSweep(defs[k]) /\ defs[k].inst = p[1]
                              /\ defs[k].sim = p[2]]

\* Names reachable from n, n included.
ReachFrom(n) ==
    LET tc == TransitiveClosure(SweepEdge, Names)
    IN  {m \in Names : m = n \/ tc[n, m]}

CyclicFrom(n) ==
    LET tc == TransitiveClosure(SweepEdge, Names)
    IN  \E m \in ReachFrom(n) : tc[m, m]

\* Some name reachable from n names two actions or more.
DuplicateReachable(n) ==
    \E m \in ReachFrom(n), k1, k2 \in DOMAIN defs :
        /\ k1 # k2
        /\ defs[k1].action /\ defs[k1].inst = m
        /\ defs[k2].action /\ defs[k2].inst = m

\* The actions named n.
ActionsNamed(n) == {k \in DOMAIN defs : defs[k].action /\ defs[k].inst = n}

(***************************************************************************)
(* The verdict of the cycle search of a sweep is the spec's: it reports a  *)
(* cycle exactly when the "Sim" chain from the referred name is cyclic.    *)
(* The search only looks at the first action of each name, and a second    *)
(* action of a name it already appended reads as a revisit; so the claim  *)
(* is made where no action name on the chain is duplicated (those netlists *)
(* already get "no such action" from the sweep that refers to it).        *)
(***************************************************************************)
SweepVerdict ==
    \A k \in DOMAIN defs :
        (results[k] # -1 /\ ~DuplicateReachable(defs[k].sim))
           => (results[k] = 1 <=> CyclicFrom(defs[k].sim))

(***************************************************************************)
(* Spec invariant 6 for sweeps, the reference checks of                    *)
(* checker_validate_para: when the sweep checks find no error, every sweep *)
(* names by "Sim" exactly one action, and not itself.                      *)
(***************************************************************************)
AcceptedReferences ==
    (phase = "done" /\ errors = 0) =>
        \A k \in DOMAIN defs : IsSweep(defs[k]) =>
            /\ defs[k].sim # NoRef
            /\ defs[k].sim # defs[k].inst
            /\ Cardinality(ActionsNamed(defs[k].sim)) = 1

(***************************************************************************)
(* Spec invariant 6 for sweeps, the cycle check: when the sweep checks     *)
(* find no error, no chain of "Sim" references from a sweep is cyclic.     *)
(***************************************************************************)
AcceptedAcyclic ==
    (phase = "done" /\ errors = 0) =>
        \A k \in DOMAIN defs :
            (IsSweep(defs[k]) /\ defs[k].sim \in Names)
               => ~CyclicFrom(defs[k].sim)

\* Every sweep check ends: the chain of recursive calls stops because each
\* call appends a name not yet in the dependencies before it recurses.
Terminates == <>(phase = "done")
=============================================================================
