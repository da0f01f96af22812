\* Accepted netlists of three nested templates (see MCExpand).
CONSTANTS
    A = A
    B = B
    C = C
    p = p
    q = q
    m = m
    gnd = gnd
    x = x
    y = y
    X1 = X1
    X2 = X2
    NoNode = NoNode
    Templates <- MCTemplates
    Ports <- MCPorts
    Nodes <- MCNodes
    GND <- gnd
    Insts <- MCInsts
    BodySpace <- MCBodySpace
    RootSpace <- MCRootSpace
SPECIFICATION Spec
\* checker_expand_subcircuits returns when the list is walked.
CHECK_DEADLOCK FALSE
INVARIANTS
    TypeOK
    InstancesIsPath
    BlanksResolvable
    UniqueNames
PROPERTIES
    RefinesAbstract
