\* Every netlist of three templates with bodies of at most two definitions,
\* "Type" references naming existing templates or one undefined name.
CONSTANTS
    t1 = t1
    t2 = t2
    t3 = t3
    u1 = u1
    Templates <- MCTemplates
    Undefined <- MCUndefinedOne
    MaxBody = 2
SPECIFICATION Spec
\* The search returns to its caller: a finished run stops.
CHECK_DEADLOCK FALSE
SYMMETRY Symmetry
INVARIANTS
    TypeOK
    DepsIsCallPath
PROPERTIES
    RefinesAbstract
