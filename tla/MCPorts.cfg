\* Every port list of up to three definitions: equal numbers, numbers equal
\* only after the cast (1.0 and 1.5), ports without a number, and actions
\* or components of another type between them.
CONSTANTS
    none = none
    NoNum <- none
    Types <- MCTypes
    DefSpace <- MCDefSpace
SPECIFICATION Spec
\* checker_validate_ports returns: a finished check stops.
CHECK_DEADLOCK FALSE
INVARIANTS
    TypeOK
    PortsUnique
