\* Every sweep configuration of up to four definitions over three names:
\* self references, chains, cycles of length one to three, references to
\* no action and duplicated action names all occur.
CONSTANTS
    a = a
    b = b
    c = c
    none = none
    NoRef <- none
    Names <- MCNames
    Types <- MCTypes
    DefSpace <- MCDefSpace
SPECIFICATION Spec
\* checker_validate_para returns: a finished check stops.
CHECK_DEADLOCK FALSE
SYMMETRY Symmetry
INVARIANTS
    TypeOK
    SweepVerdict
    AcceptedReferences
    AcceptedAcyclic
PROPERTIES
    Terminates
