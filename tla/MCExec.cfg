CONSTANTS
    Kid <- MCKid
    Key <- MCKey
    Id <- MCId
    Ref <- MCRef
    Hosts <- MCHosts
    Fd <- MCFd
    KeyFd = 3
    NoKey = "none"
    N = 3
    KeyVars <- MCKeyVars
    Path <- MCPath
    Runs <- MCRuns
    MaxAttempts = 2
SPECIFICATION Spec
CHECK_DEADLOCK FALSE
INVARIANTS
    StartedMeansRendered
    PrivateBeforeSecret
    OnlyNeededProviders
    KeyringOutOfReach
    DeliveryInv
PROPERTIES
    RefinesFailClosed
    NothingWrittenEarly
    EveryAttemptEnds
