\* checker_count_nonlinearities reads checker_sub_cycles as left by the
\* last cycle search, whatever template that search was about.
CONSTANTS
    t1 = t1
    t2 = t2
    u1 = u1
    Templates <- MCTemplates
    Undefined <- MCUndefined
    MaxBody = 2
SPECIFICATION Spec
\* netlist_checker returns (or crashes): a finished run stops.
CHECK_DEADLOCK FALSE
SYMMETRY Symmetry
INVARIANTS
    NoUnboundedRecursion
