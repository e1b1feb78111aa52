CONSTANTS
    c1 = c1  c2 = c2
    None = None
    Atom <- MCAtom
    Environments <- MCEnvironments
    Client <- MCClient
    Path <- MCPath
    MaxIdle = 2
    MaxTries = 3
    MaxOutages = 2
SPECIFICATION Spec
INVARIANT SiteInv
PROPERTIES FailuresExplained AlwaysAnswered
CHECK_DEADLOCK FALSE
