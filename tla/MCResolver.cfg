CONSTANTS
    Kid <- MCKid
    Key <- MCKey
    Id <- MCId
    Ref <- MCRef
    Hosts <- MCHosts
    Fd <- MCFd
    KeyFd = 3
    NoKey = "none"
SPECIFICATION ResolverSpec
INVARIANTS
    ResolverInv
    AnswersAreGenuine
    OutrankedNeverUsed
    OneLogin
PROPERTIES
    SocketsUndisturbed
    EveryAskReturns
