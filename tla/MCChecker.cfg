\* The subcircuit checks of netlist_checker over every netlist of two
\* templates with lists of at most two definitions.
CONSTANTS
    t1 = t1
    t2 = t2
    u1 = u1
    Templates <- MCTemplates
    Undefined <- MCUndefined
    MaxBody = 2
SPECIFICATION Spec
\* netlist_checker returns (or crashes): a finished run stops.
CHECK_DEADLOCK FALSE
SYMMETRY Symmetry
INVARIANTS
    TypeOK
    ExpansionSafe
    DCPolicy
