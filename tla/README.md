# Verification of the qucs-core netlist checker

This directory holds TLA+ models of the netlist checker of qucs-core
(`src/qucs-core/src/check_netlist.cpp`). It contains the TLC configurations
that model-check them and the TLAPS proofs about them. The other files under
`src/` have no state machine of the checker to model: a GUI base class
(`src/qucs/qucs/object.h`), a noise-source constructor (`src/unnamed/*`) and
a CMake file.

## The system

`netlist_checker` (lines 1580-1639) receives the parsed netlist, a chain of
`definition_t` records. Each record is a component, an action (`.DC`, `.AC`,
`.SP`, `.SW`, ...) or a subcircuit instance (`Sub`). The checker runs these
steps in order:

1. **Template extraction.** `checker_build_subcircuits` (936-954) moves
   every `Def:Name ... .Def:End` block into the list `subcircuit_root`.
2. **Structural validation.** `netlist_checker_intern` (1428-1547) looks up
   each definition in the component catalog. It checks the node count, the
   required, optional and extraneous properties, value ranges and
   duplicates. It resolves variables and substrates, and evaluates unit
   scales of the first value of every property (`checker_evaluate_scale`,
   331-374, called at 1501).
3. **Subcircuit validation.** `checker_validate_subcircuits` (1283-1326) is
   called on the top-level list, on the template list and on every template
   body. For each `Sub` it looks up the template. An unknown type is one
   error. Otherwise it runs the depth-first cycle search
   `checker_validate_sub_cycles` (1229-1278) and stores the search's error
   count in the global `checker_sub_cycles`.
4. **Action validation.** `checker_validate_actions` (657-692) counts
   nonlinear elements with `checker_count_nonlinearities` (419-433). That
   function recurses into subcircuits only while `checker_sub_cycles <= 0`.
   The action then applies the `.DC` rules and calls the sweep check
   `checker_validate_para` (479-511), the port check
   `checker_validate_ports` (527-554) and the list check
   `checker_validate_lists` (559-653). Their counts are added to the
   errors; none of them stops the others.
5. **Expansion.** Only when the error count is zero,
   `checker_expand_subcircuits` (1388-1421) flattens the instances:
   `checker_copy_subcircuits` (959-1003) and the node translation helpers
   (1010-1225).

The steps interact through shared state: the error count, the global
`checker_sub_cycles`, the template list and the node translations written
into template bodies. Each run of the checker is sequential (one thread,
no callbacks). The hard behaviours are therefore:

- the order of the passes;
- state one pass leaves for a later one;
- the recursion over user-defined, possibly cyclic, subcircuit graphs.

## Modules

| module | models | code |
|---|---|---|
| `Netlist` | the parsed netlist as the subcircuit passes see it: templates with bodies of `Sub` and plain definitions; reference operators for the instantiation graph (cycle and undefined-type reachability through `TransitiveClosure`) and the flattened nonlinear count | `definition_t`, `checker_find_subcircuit`, `checker_count_nonlinearities` (as a reference) |
| `SubCycles` | `checker_validate_sub_cycles`, one search | 1229-1278 |
| `SubCyclesAbstract` | what the search promises: one verdict, cyclic iff a cycle is reachable | the contract of 1229-1278 |
| `Checker` | `netlist_checker` restricted to the subcircuit passes, the global flag, the nonlinear count and the `.DC` rules | 405-433, 657-692, 936-954, 1283-1326, 1598-1618 |
| `Flatten` | the expander's data: definitions with instance names and node lists, the names it builds (`checker_subcircuit_node`, `checker_subcircuit_instance`) as records of their parts, blank nodes, the port index rule of `checker_xlat_subcircuit_nodes`; and the reference flattening of the spec (chains of nested instances, node resolution level by level) | 979-1011, 1044-1047, 1100-1102, 1145-1156 |
| `Expand` | `checker_expand_subcircuits` and the recursion of `checker_copy_subcircuits` | 960-971, 1036-1124, 1163-1222, 1389-1421 |
| `ExpandAbstract` | what the expander promises: each step replaces one top-level `Sub` by its flattening, until none is left | the spec's Subcircuit Expander |
| `Sweeps` | `checker_validate_para` with `checker_validate_reference` and `checker_count_action`, and the chain search `checker_validate_para_cycles` | 170-178, 438-511 |
| `Lists` | `checker_validate_lists`, `checker_evaluate_scale` and the scale evaluation of `netlist_checker_intern` | 141-165, 331-374, 559-653, 1491-1502 |
| `Ports` | `checker_validate_ports` and `checker_find_port` | 515-554 |
| `MCSubCycles`, `MCChecker`, `MCExpand`, `MCSweeps`, `MCLists`, `MCPorts` | model values, symmetry and the candidate netlists for TLC | |
| `SubCyclesProofs`, `CheckerProofs`, `ExpandProofs`, `ExpandTypeProofs`, `SweepsProofs`, `ListsProofs`, `PortsProofs` | TLAPS proofs about `SubCycles`, `Checker`, `Expand` (two modules), `Sweeps`, `Lists` and `Ports` | |

### SubCycles

The recursion is an explicit stack of frames, one per active call. A frame
holds the call's locals:

- `t`: the template being walked;
- `i`: the loop position;
- `checked`: the per-call list of types already descended into;
- `saved`: the copy of `*deps` taken before the current child call;
- `err`: the call's error count.

`deps` is the shared `strlist ** deps`. The actions are one per branch of
the loop body:

- `Skip`: not a `Sub`, or a type already in `checked`.
- `CallUndefined`: `checker_find_subcircuit` returns NULL and `sub->instance`
  dereferences it.
- `CallCyclic`: the callee finds its type in `*deps` and returns 1 at once.
- `Call`: the caller records the type, copies `*deps`, and the callee
  appends its type.
- `Return`: the body is done. The caller adds the error count. With zero
  errors it restores `*deps` from the copy; otherwise it keeps `*deps` as
  it is.

`SubCycles` refines `SubCyclesAbstract` under the mapping
`verdict <- Verdict`: pending while running, cyclic when `result > 0`.

### Checker

`Checker` instances `SubCycles` for the search and adds the walk of
`checker_validate_subcircuits`:

- `ScanOther`, `ScanUnknown`, `ScanSearch`, `Search` and `SearchDone` cover
  one `Sub` each;
- `NextList` moves from the top-level list to each template body in
  `subcircuit_root` order;
- `ValidateActions` is `checker_validate_actions`;
- `Decide` is the `if (!errors)` of `netlist_checker`.

`ValidateActions` abstracts some inputs to small sets, chosen with `\E`:

- the top-level actions become the number of `.DC` actions (0..2) and
  whether an `.AC`/`.SP` analysis exists;
- the verdict of the checks of the other components becomes one Boolean.

`CountDiverges` marks the case where `checker_count_nonlinearities` recurses
without end: the flag is `<= 0` and a cycle is reachable from a top-level
instance. The model then enters phase `"overflow"`.

### Expand

The recursion of `checker_copy_subcircuits` is again an explicit stack of
frames. A frame holds:

- `t` and `inst`: the template and the instance being copied;
- `k`: the loop position in the template's body;
- `root`: the copies built so far, newest first;
- `instcopy`: the saved instance list.

Two pieces of state are shared by all calls:

- `instances`, the `strlist` that `*instances` points to (NULL and empty
  are both `<<>>`, since `checker_subcircuit_instance_list` maps both to
  NULL);
- `xl`, the `xlate`/`xlatenr` slot of each node of each body definition.
  This is state written into the templates themselves.

The actions are:

- `CopyElement`: the `else` branch, with its xlat and cleanup.
- `Descend`: xlat of a nested `Sub`, save and append of the instance list,
  recursive call.
- `Return`: `checker_copy_circuit_nodes` on the returned copies, prepend,
  restore, cleanup.
- `DriverSkip`, `DriverExpand` and `DriverReplace`: the loop of
  `checker_expand_subcircuits`. After splicing the copies in, the walk
  continues at the old head of the list, as `next = root` does.

A name built with `sprintf` is modelled as a record of its parts. A name
joins the template, the instance list, the instance and the node or
element. This is injective as long as identifiers hold no `.`. The
lexer is not in this repository, so that is an assumption of the model.

`Flatten` states what the expander is handed, as the assumption
`AcceptedShape`. Every definition is an element or a `Sub` (`Defn`). A
`Sub` names a template and has as many nodes as the template has ports
(`SubDefs`). No node name is NULL. `checker_validate_subcircuits` counts an
error for a `Sub` with another node count (lines 1303-1311), and the
expander only runs when there are no errors. Every run of `Expand`
evaluates the assumption on its netlists.

`ExpandAbstract` sees the netlist as a set. In each step one top-level
`Sub` `s` is replaced by `Flat(body, s)`, the reference flattening of
`Flatten`. That reference follows the spec: chains of nested instances,
and a node resolved level by level. A formal port goes to the instance's
node one level up, `gnd` stays `gnd`, and any other node becomes an
internal name qualified by the path. `Expand` refines it under
`net <- Elems(defs)`.

### Sweeps

State: the definition list `defs`, reduced to the action flag, the type,
the instance name and the `Sim` identifier of each definition (`NoRef` when
`checker_find_reference` returns NULL). The outer position `i`, the error
count `errors` and a ghost `results` holding the verdict of each sweep's
search.

`checker_validate_para_cycles` ends in a tail call, so its recursion is a
loop:

- `cur` is the instance argument of the active call;
- `j` is that call's position in the list;
- `deps` is the strlist shared by the chain.

The actions follow the branches of the two functions:

- `ParaSkip`, `ParaNoSim` and `ParaCheck` for `checker_validate_para`. The
  self-reference and `count_action != 1` errors are added, and a fresh
  `deps` starts the search.
- `CycleScan`, `CycleFound`, `CycleFollow`, `CycleContinue` and `CycleEnd`
  for the loop of `checker_validate_para_cycles`. The instance is already
  in `deps`, or it is appended and the call recurses (a sweep with a `Sim`
  identifier), or it is appended and the loop goes on (any other action).

`Len(deps) < MaxDepth` (the number of names) is a bound in the guard of
`CycleFollow`. The code never reaches it, because every call appends a
fresh name before recursing. A bug that breaks this makes `Terminates`
fail.

The reference for the verdict is the transitive closure of the relation
"a sweep named n has `Sim` m" (`Relation!TransitiveClosure`).

### Lists

State:

- the definition list `defs` and a ghost copy `parsed` as the parser built
  it;
- the loop position `i`, the error count `errors`;
- a phase: `intern`, `lists`, `done`, or `crashed` for a NULL dereference.

A definition is reduced to what `checker_validate_lists` reads:

- the action flag and the type;
- the `Type` identifier;
- how `Start`, `Stop`, `Points` and `Values` are given: absent, a number,
  or an identifier (which `checker_find_prop_value` ignores);
- the chain of values of `Values`.

A value is its number, its scale and its unit. The scale and the unit are
sequences of characters, and the empty sequence stands for NULL.

A number is kept exactly: the mantissa, then the list of steps applied to
it. A step `[db, e]` maps x to `(db ? 10^(x/10) : x) * 10^e`. This
representation tells a scale folded twice from one folded once, and a
`dBm` from a `dB` with a unit `m`. Rounding of doubles is not modelled.

`EvaluateScale` translates the switch of `checker_evaluate_scale`: the
prefix letters, `d`, `dB` and `dBm`, the rest of the string becoming the
unit, and the scale freed.

The actions:

- `InternDef` applies it to the first value of `Values`, as the property
  loop of `netlist_checker_intern` does at line 1501.
- `InternDone` stands for the rest of the checker before the list check.
- `ListsSkip`, `ListsNullType`, `ListsConst`, `ListsStepped`, `ListsOther`
  and `ListsDone` follow the branches of `checker_validate_lists`.
  `ListsConst` evaluates every value of the chain again, at line 593.

### Ports

State: the definition list (action flag, type, the numeric `Num` or
`NoNum`), the outer and inner positions `d` and `p`, the error count and a
phase.

`Num` values are held in tenths, so 15 stands for 1.5. `ToInt` is the
`(int)` cast, which truncates. The actions are the branches of the two
nested `while` loops of `checker_validate_ports`. The steps of
`checker_find_port` are `OuterScan` and `InnerScan`.

## Runs

| run | cfg | result | shows |
|---|---|---|---|
| `subcycles` | `MCSubCycles.cfg`: 3 templates, 1 undefined name, bodies of up to 2 definitions | pass, 182 824 states (a search that dereferences NULL stops there and stays pending) | `TypeOK`; `DepsIsCallPath` (with no cycle met, `*deps` is exactly the chain of active calls, so the copy-and-restore is correct); `RefinesAbstract` (the search reports a cycle exactly when one is reachable from the instance's template) |
| `subcycles_null` | `MCSubCyclesNull.cfg`: one undefined name | violation of `NoNullDereference` | a template body holding a `Sub` of an unknown type, reached from a top-level instance, is searched before its own body's check reports the unknown type: NULL dereference at line 1260 |
| `checker` | `MCChecker.cfg`: 2 templates, 1 undefined name, bodies and top level of up to 2 definitions, both template orders | pass, 996 421 states | `TypeOK`; `ExpansionSafe` (expansion starts only on netlists without reachable cycles or unknown types); `DCPolicy` (an accepted netlist obeys the `.DC` rules for the flattened circuit) |
| `expand` | `MCExpand.cfg`: templates A ⊇ B ⊇ C (A may instantiate B and C, B may instantiate C), ports `<<p, q>>`, `<<p, q>>`, `<<p>>`, instances wired to ports in either order, to `gnd` and to internal nodes; 4 top-level lists (one instance; an element then an instance; an instance of B then one of A; two instances of A) | pass, 29 252 states | `TypeOK`; `InstancesIsPath` (the shared instance list is the chain of enclosing instances, so copy-and-restore is right); `BlanksResolvable` (a blank node waits only in the copies of a nested call, at a position of that call's instance node list, so `checker_get_circuit_node` finds it on return, and none reaches the top level); `UniqueNames`; `RefinesAbstract`: each top-level `Sub` is replaced by exactly the reference flattening, with the names and wiring of every copy, and with weak fairness every `Sub` is eventually expanded |
| `sweeps` | `MCSweeps.cfg`: 3 names, types `SW`, `AC`, `R`, every list of up to 4 definitions, symmetry over the names | pass, 290 381 states | `TypeOK`; `SweepVerdict` (a sweep's search reports a cycle exactly when the `Sim` chain from its target reaches a cycle, where no name on the chain names two actions); `AcceptedReferences` (an error-free sweep check leaves every sweep with a `Sim` that is given, is not the sweep itself and names exactly one action); `AcceptedAcyclic` (an error-free sweep check leaves only acyclic `Sim` chains); `Terminates` (the check always ends) |
| `lists` | `MCLists.cfg`: a sweep alone or after a `.DC`; every `Type` case (the four kinds, another identifier, NULL); every way of giving `Start`, `Stop`, `Points`, `Values`; 1 or 2 values with the scales `k`, `dB`, `dBm`, `dx` or none | pass, 60 480 states | `TypeOK`; `FoldedOnce` (the first value, evaluated at line 1501 and again at line 593, carries its scale exactly once, and no scale is left on a const or list sweep) |
| `lists_null` | `MCListsNull.cfg`, `NoNullType` | violation | a sweep with no `Type` identifier crashes `checker_validate_lists` at line 569 |
| `lists_rule` | `MCListsRule.cfg`, `SweepRule` | violation | a const sweep with `Points` given as a variable is accepted with no error |
| `lists_dbm` | `MCListsDbm.cfg`, `DbmKeepsUnit` | violation | `3dBm` becomes `10^(0.3) * 1e-3` with no unit, where the spec keeps the unit `m` |
| `ports` | `MCPorts.cfg`: types `Pac` and `SW`, both action flags, `Num` 1.0, 1.5, 2.0 or none, every list of up to 3 definitions | pass, 31 064 states | `TypeOK`; `PortsUnique` (an error-free port check leaves distinct int port numbers) |
| `checker_stale_flag` | `MCChecker.cfg` constants, `NoUnboundedRecursion` | violation | `checker_sub_cycles` holds the verdict of the *last* search only. A cyclic top-level instance followed by an acyclic one leaves it at 0, and `checker_count_nonlinearities` (which runs even when errors were found) recurses without end at line 425 |

**Why the bounds suffice.** A cycle needs one template instantiating itself.
Three templates and two definitions per body give:

- self-loops and cycles of length 2 and 3;
- a `Sub` repeated in one body, which exercises `checked`;
- a template reached along two paths, so that `deps` is restored after a
  successful child and kept after a failed one.

For the expander, three templates in a chain are needed for a blank node
that stays blank through a middle level (a port of C wired to a port of
B, wired to a port of A). Template C is instantiated at two depths and
B both at top level and nested, so translation slots and the instance
list are reused. Two instances of one template at top level are what
makes names collide when the instance path is left out. Every acyclic
netlist of three templates has such an order up to renaming. The bodies
are a chosen family rather than every body: the full product does not
fit in the time TLC is given.

Three names and four definitions give:

- a sweep cycle of every length;
- a self reference;
- a `Sim` to no action and a name used by two actions;
- a chain that passes through a non-sweep action;
- a name used by two actions, the first of them a sweep whose own chain is
  followed, referred to by a further sweep.

The first four need at most three definitions. The last needs four, and it
is the one case where the `count_action != 1` check matters: a self
reference, and a duplicate whose first action is not followed, are also
caught by the chain search.

For the lists:

- two values are what make "only the first value is evaluated at intern"
  differ from "every value";
- `dx` exercises the lone `d`, and `dBm` the three-character case.

For the ports, 1.0 and 1.5 are equal only after the cast.

The checker needs two templates (one cyclic, one not) for the stale flag.
It needs one undefined name for the NULL case, and both template orders
because `subcircuit_root` is built in reverse.

**Fairness.** The checker runs sequentially and every step of the loop is
always enabled until the loop ends, so `WF_vars(Next)` is what the code
gives. Under it `Terminates` shows that the sweep check ends: this is the
one liveness property, and it depends on the append before the recursion.
The expander's refinement also uses it for its eventual expansion. The
deadlock check is off
because the final states (`done`, `expanded`, `rejected`, `overflow`) are
terminal by design.

**Mutants.** Each property of a passing run is broken by a plausible bug in
the mapped code (see `mutants` in `PROJECT.json`):

- a loop starting at 0;
- copying `*deps` after the append;
- never restoring `*deps`;
- walking one template body too many;
- not adding the search's count to the errors;
- counting nonlinearities at top level only;
- in the expander: skipping two definitions, keeping the nested instance
  list after a return, numbering the formal nodes from 0, leaving the
  path out of copy names, and resolving blanks as if every level were
  outermost;
- in the sweeps: starting a search at position 0, forgetting the action
  flag when matching names, testing `count_action < 1` instead of `!= 1`,
  not counting a cycle, recursing without appending;
- in the lists: starting the list loop at 0, keeping the scale after
  evaluating it;
- in the ports: starting the inner walk at 0, comparing the doubles
  instead of their int casts.

## Proofs

`SubCyclesProofs` proves `THEOREM TypeCorrect == Spec => []TypeOK` for every
set of templates and every `MaxBody`, from `NetlistAssumption`.

`TypeOK` alone is not inductive: `Cur` is `body[Top.t][Top.i]`, and it needs
a non-empty stack. The inductive invariant is therefore

    TypeInv == TypeOK /\ (status = "run" => Len(stack) >= 1)

The proof has the usual three parts: `TypeInvInit`, then `TypeInvStep` with
one case per action, then a PTL step. The lemmas about the four frame
updates (`FrameNext`, `FrameCyclic`, `FrameSave`, `FrameResume`) and about
bodies (`BodyIsSeq`, `SubTypeIsName`) are cited by name.

The same module proves `THEOREM DepsAreCallPath == Spec => []DepsIsCallPath`:
while no call has met a cycle, `*deps` is exactly the chain of templates of
the active calls. It is not inductive on its own, because `Return` restores
`*deps` from the caller's copy `saved`, taken before the child call. The
invariant must also say what each copy holds:

    IInv == /\ TypeInv
            /\ \A k \in 1..Len(stack) - 1 :
                   NoErrBelow(k) => stack[k].saved = Path(k)
            /\ (status = "run" /\ NoErrBelow(Len(stack)))
                   => deps = Path(Len(stack))

Here `Path(k)` is the list of the templates of the `k` outermost calls, and
`NoErrBelow(k)` says none of them has counted an error. The guard matters:
a call made after a cycle was found copies a `*deps` that the cycle left
longer, and the code never repairs it. That is harmless only because an
error count never goes back to 0. The steps:

- `CallCyclic` makes the guard false.
- `Call` saves the chain down to the caller and appends the callee.
- `Return` with no error in the returning call gives the caller back the
  copy, which is the chain down to the caller.

The field lemmas (`FieldsNext`, `FieldsCyclic`, `FieldsSave`,
`FieldsResume`) say what each frame update leaves of a frame.
`SavedPrefix` says that a step that keeps the outer frames keeps their
copies right.

`CheckerProofs` proves `THEOREM DCPolicyHolds == Spec => []DCPolicy` for
every set of templates and every `MaxBody`. The argument does not need the
recursive counts of `Netlist`:

- `checker_sub_cycles` (`flag`) is the count of the last search, which has
  also been added to `errors`, so `flag <= errors` always holds.
- An error-free run therefore has `flag = 0`, and
  `checker_count_nonlinearities` counts through every subcircuit. Its
  result is `NonlinearInFlat(body, root)`, whatever that number is.
- The `.DC` rules of `ValidateActions` then give the policy, and `Decide`
  keeps it.

The search's variables keep the type invariant of `SubCyclesProofs`. The
proof takes it through `INSTANCE SubCyclesProofs` (`TypeInvStep`), after
`SearchAssumption` shows that the instance's assumption is `Netlist`'s own.

`ExpandProofs` proves `THEOREM InstancesArePath == Spec => []InstancesIsPath`
for every set of templates, ports, names and candidate netlists, from
`ExpandAssumption`. It says that the shared `*instances` list always holds
the instance names of the enclosing calls of `checker_copy_subcircuits`,
outermost first. No netlist shape is assumed.

`InstancesIsPath` is not inductive on its own. `Return` restores the list
from the caller's `instcopy`, so the invariant must also say what each saved
copy holds:

    IInv == /\ stack \in Seq(Range(stack))
            /\ every frame has the five frame fields
            /\ instances = Path(stack, Len(stack) - 1)
            /\ \A k \in 1..Len(stack) - 1 :
                   stack[k].instcopy = Path(stack, k - 1)

Here `Path(s, n)` is the list of the instance names of `s[1]`, ..., `s[n]`.
The proof has one case per action:

- `CopyElement` changes only the root and the position of the top frame.
- `Descend` saves the list in the top frame and pushes a frame. The list
  grows by the caller's name.
- `Return` pops the frame. The saved copy of the new top frame is the
  path below it.

The facts about frames are `FrameDomain` and `FrameUpdate`. The facts about
sequence prefixes are `PrefixProperties`.

`ExpandTypeProofs` proves `THEOREM TypeCorrect == Spec => []TypeOK` and
`THEOREM BlanksAlwaysResolvable == Spec => []BlanksResolvable` for `Expand`. They
hold for every set of templates, ports and names, and for every netlist of
the shape `AcceptedShape` describes. Acyclicity is not needed.

A blank (NULL) node is made by `checker_copy_subcircuit_nodes` for a node
wired to a formal port in a nested call. `checker_copy_circuit_nodes`
resolves it one level up. The invariant `TInv` extends the `IInv` of
`ExpandProofs`, and says where blanks may be:

- the top-level list holds only accepted definitions and copies, none with
  a blank (`TopDefs`);
- each frame `k` holds a `Sub` of its own template, and its copies are in
  `Copies(k, t)`: a node is blank only if `k >= 2`, and then it holds a port
  index of template `t`;
- each frame below the top is at a `Sub` of its body, namely the instance
  the next frame copies (the link);
- each translation slot holds a node name or NULL. A slot with a name
  holds a port index of its template.

The link explains why the proof works. A copy returned by frame `k` has
blanks that index the ports of frame `k`'s template. That template is the
type of the caller's `Sub`, so there are exactly as many ports as the
`Sub` has nodes, and every index is valid. The caller's translation of
that `Sub` gives a netlist name at the outermost level, and otherwise a
blank indexing the caller's own ports. `DriverReplace` only takes copies
from frame 1, and frame 1 has none. `BlanksResolvable` then follows from
`TInv`: a blank in frame `k`'s copies is a port index of frame `k`'s
template, and the instance of frame `k` is a `Sub` of that template, with
one node per port.

The lemmas about the operators are stated once:

- `PortIndexRange`: the index `checker_xlat_subcircuit_nodes` writes is 0
  or a port index. The existence of the largest matching index comes from
  `WFMin` and `NatLessThanWellFounded`.
- `XlatShape`, `ClearShape`, `NodeNameShape`, `CopyElemShape` and
  `FixNodesShape`.
- `RemoveProperties`, for unchaining a definition from the list.
- `SeqOnDomain`.

The step has one lemma per action, and `TInvStep` combines them.

`PortsProofs` proves `THEOREM PortsAreUnique == Spec => []PortsUnique` for
every set of types and every definition list, from `PortsAssumption`. The
inductive invariant says three things:

- an inner walk only runs for a numbered port;
- a finished check has passed every definition;
- while no error is counted, no duplicate pair (`Dup`) starts at a port
  the outer loop has passed, or at the current port with a partner the
  inner loop has passed.

`InnerCompare` is the only action that can count an error. When it counts
none, the compared pair is no duplicate. `InnerEnd` closes the current
port, and `OuterEnd` leaves `d` past the last definition, so
`PortsUnique` follows.

`SweepsProofs` proves `THEOREM TypeCorrect == Spec => []TypeOK` and
`THEOREM ReferencesAccepted == Spec => []AcceptedReferences` for every set
of names and every definition list, from `SweepsAssumption`. The invariant
says three things:

- a running chain search belongs to a sweep with a `Sim` identifier and
  looks for a name;
- a finished check has passed every definition;
- while no error is counted, every sweep `checker_validate_para` has
  already checked passes the three reference checks (`RefsOK`).

The proof is split per conjunct, one step per action. `RefsKept` covers
every step that leaves the list and the count alone and checks no new
sweep. `CountIsActionsNamed` ties `checker_count_action` to the set of
actions of a name.

`ListsProofs` proves `THEOREM TypeCorrect == Spec => []TypeOK` and
`THEOREM ScalesFoldedOnce == Spec => []FoldedOnce` for every alphabet, set
of types and definition list, from `ListsAssumption`. The assumption is what
the parser hands over: no scale applied yet, and a numeric `Values` holds
one value or more. The invariant follows each definition:

- every value is `Once`: it carries at most one step, and a value with a
  step has no scale left;
- the first value of a list is folded once the intern pass has passed it;
- every value of a const or list sweep is folded once the list pass has
  passed it.

The lemmas about `checker_evaluate_scale` (`EvaluateScaleFacts`,
`EvaluateAllFacts`) state that it takes a `Once` value to a `Once` value
with no scale. A value with no scale is left as it is, so the second
evaluation of a first value adds no second step.

`PortsProofs` also proves `THEOREM TypeCorrect == Spec => []TypeOK`, from
the same invariant.

Only TLC checks these:

- `UniqueNames` of `Expand`. Its invariant has to follow the name of every
  copy down the instance path, and it needs unique instance names in each
  body and in the top-level list. The code does not give that:
  `checker_count_definition` (lines 105-115) flags a duplicate only when
  both the type and the instance name match, so an element and a `Sub`, or
  two elements of different types, may share a name. The model abstracts
  element types away, so such an assumption would be stronger than the
  code. TLC checks the property on netlists with unique names.
- Both `RefinesAbstract` properties, `SweepVerdict`, `AcceptedAcyclic` and
  `ExpansionSafe`. Each compares the code with a reference defined through
  `TransitiveClosure`, `Chains` or `Resolve`, recursive functions over
  `Nat`. Relating a loop to such a definition needs induction over data,
  which the installed provers cannot instantiate.
- `TypeOK` of `Checker`. The count `nonlin` is a `ListSum`, a recursive
  function over `0..Len(l)`. Using its defining equation needs the
  theorem that such a function exists (`RecursiveFcnOfNat`). That theorem
  takes an operator parameter, which the installed provers cannot
  instantiate.
- Every liveness property (`Terminates`, and the fairness part of the
  expander's refinement). TLAPS does not reason about `ENABLED` and
  fairness here.

## Findings

- **NULL `Type` (line 569), run `lists_null`.** `checker_validate_lists`
  reads `val->ident` before it tests the result of `checker_find_reference`
  for NULL. The per-definition checks report a missing `Type`, but errors
  never stop `checker_validate_actions`, so the checker crashes.
- **Identifier-valued sweep properties (lines 598-649), run `lists_rule`.**
  `checker_find_prop_value` ignores identifier values. A const sweep with
  `Points` given as a variable is therefore accepted, against the spec's
  presence rule.
- **`dBm` (line 361), run `lists_dbm`.** The `m` is read as a factor 1e-3
  and no unit is kept. The spec says the value is `10^(x/10)` with the unit
  `m` retained.
- **NULL template (line 1260), run `subcycles_null`,** and **the stale
  `checker_sub_cycles` (line 425), run `checker_stale_flag`.** These are
  described with their runs above.

## Not modelled (yet)

The following components are listed in `PROJECT.json`, each with its
reason:

- The structural validator and the reference resolver. They check each
  definition against the component catalog, `qucsdefs.h`, which is not in
  the repository. So the range check of later list entries, left unscaled
  by line 1501, is not modelled either.
- The strip, nodeset and variable policies. Each is a table lookup per
  definition, with no ordering or shared state beyond the list walk.
- Destruction and the ownership of shared property chains.

The plan for the next steps:

1. Ownership of property chains in `Expand` (`netlist_free_definition`).
2. `UniqueNames` of `Expand` as a theorem. It needs the element types in
   the model, so that the uniqueness the code enforces per (type, instance)
   can be stated as the assumption.
