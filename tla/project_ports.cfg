CONSTANTS
    Projects = {p1, p2, p3}
    FirstPort = 2
    MaxPort = 5
    ApiKey <- NoKeys
    NoKey = NoKey
SPECIFICATION Spec
INVARIANTS PortsApart IInv
PROPERTY OwnDaemonObeys
SYMMETRY Symmetry
CHECK_DEADLOCK FALSE
CONSTRAINT Careful
