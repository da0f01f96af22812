------------------------------ MODULE Netlist ------------------------------
(***************************************************************************)
(* The parsed netlist as the checker of check_netlist.cpp sees it, reduced *)
(* to what the subcircuit passes read: a subcircuit template (a "Def"      *)
(* definition, kept in subcircuit_root after checker_build_subcircuits)    *)
(* is a name with a body, the ordered list of its definitions.  A body     *)
(* definition is either a subcircuit instance ("Sub", whose "Type"         *)
(* reference names a template) or an ordinary element that is or is not    *)
(* nonlinear (def->nonlinear, copied from the catalog).  A "Type" may      *)
(* name a template that was never defined: the parser does not know the    *)
(* templates, so such netlists reach the checker.                          *)
(***************************************************************************)
EXTENDS Naturals, Sequences, FiniteSets, Relation

CONSTANTS
    Templates,  \* names of the subcircuit templates ("Def:Name" lines)
    Undefined,  \* names a "Type" may use that no template carries
    MaxBody     \* bound on the number of definitions in a body

ASSUME NetlistAssumption ==
    /\ Templates # {}
    /\ IsFiniteSet(Templates)
    /\ Templates \cap Undefined = {}
    /\ MaxBody \in Nat

Names == Templates \cup Undefined

\* A "Sub" definition whose "Type" property is the identifier n.
SubStmt(n) == [kind |-> "Sub", type |-> n]

\* An ordinary component definition; nonlinear is def->nonlinear.
Elem(b) == [kind |-> "Elem", nonlinear |-> b]

Stmts == {SubStmt(n) : n \in Names} \cup {Elem(b) : b \in BOOLEAN}

IsSub(d) == d.kind = "Sub"

\* The bodies the parser can hand over, bounded by MaxBody.
Bodies == [Templates -> UNION {[1..m -> Stmts] : m \in 0..MaxBody}]

-----------------------------------------------------------------------------
(***************************************************************************)
(* Reference definitions about the instantiation graph, used to judge the  *)
(* checker's verdicts: x -> y when the body of x holds a "Sub" of type y.  *)
(***************************************************************************)
Instantiates(body, x, y) ==
    \E k \in 1..Len(body[x]) : body[x][k] = SubStmt(y)

InstGraph(body) ==
    [p \in Templates \X Templates |-> Instantiates(body, p[1], p[2])]

\* Some template on a cycle of the graph is reachable from template s.
CycleReachable(body, s) ==
    LET tc == TransitiveClosure(InstGraph(body), Templates)
    IN  \E x \in Templates : (x = s \/ tc[s, x]) /\ tc[x, x]

\* Some "Sub" reachable from s names a template that does not exist.
UndefinedReachable(body, s) ==
    LET tc == TransitiveClosure(InstGraph(body), Templates)
    IN  \E x \in Templates, u \in Undefined :
            (x = s \/ tc[s, x]) /\ Instantiates(body, x, u)

\* The sum of w(x) over the definitions x of the list l.
ListSum(l, w(_)) ==
    LET f[k \in 0..Len(l)] == IF k = 0 THEN 0 ELSE f[k - 1] + w(l[k])
    IN  f[Len(l)]

(***************************************************************************)
(* The number of nonlinear elements a list contributes once every "Sub" of *)
(* a defined template is replaced by its body, unfolded d levels deep (a   *)
(* "Sub" naming no template contributes nothing).  With no cycle reachable *)
(* a chain of instances has at most Cardinality(Templates) templates, so   *)
(* NonlinearInFlat unfolds everything.                                     *)
(***************************************************************************)
NonlinearIn(body, l, d) ==
    LET nl[n \in Nat] ==
          [t \in Templates |->
             IF n = 0 THEN 0
             ELSE ListSum(body[t],
                    LAMBDA x : IF ~IsSub(x) THEN (IF x.nonlinear THEN 1 ELSE 0)
                               ELSE IF x.type \in Templates
                                      THEN nl[n - 1][x.type] ELSE 0)]
    IN  ListSum(l, LAMBDA x : IF ~IsSub(x) THEN (IF x.nonlinear THEN 1 ELSE 0)
                              ELSE IF x.type \in Templates /\ d > 0
                                     THEN nl[d - 1][x.type] ELSE 0)

NonlinearInFlat(body, l) == NonlinearIn(body, l, Cardinality(Templates) + 1)
=============================================================================
