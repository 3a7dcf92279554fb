CONSTANTS
    Key = {k1, k2, k3}
    AttemptCap = 3
SPECIFICATION Spec
INVARIANT TypeOK
PROPERTIES
    RowsFollowStatusMachine
    AttemptsCountBegins
