\* Netlists whose "Type" references may also name u1, which no template
\* carries: the search must not dereference the NULL template it finds.
CONSTANTS
    t1 = t1
    t2 = t2
    t3 = t3
    u1 = u1
    Templates <- MCTemplates
    Undefined <- MCUndefinedOne
    MaxBody = 2
SPECIFICATION Spec
CHECK_DEADLOCK FALSE
SYMMETRY Symmetry
INVARIANTS
    NoNullDereference
