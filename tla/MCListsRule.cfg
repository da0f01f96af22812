\* Every sweep of the MCLists shapes, alone or after a .DC action.
CONSTANTS
    none = none
    NoRef <- none
    Chars <- MCChars
    Types <- MCTypes
    Kinds <- MCKinds
    DefSpace <- MCDefSpace
SPECIFICATION Spec
\* The checks end (or crash): a finished run stops.
CHECK_DEADLOCK FALSE
INVARIANT
    SweepRule
