CONSTANTS
    Source <- MCSource
SPECIFICATION Spec
INVARIANTS
    ReadsBack
    OnlyValuesChange
    ProtectedPasses
    CheckIsDryRun
CHECK_DEADLOCK FALSE
