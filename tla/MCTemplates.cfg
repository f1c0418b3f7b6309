CONSTANTS
    Source <- MCSource
    Answer <- MCAnswer
    From <- MCFrom
    To <- MCTo
    Blob <- MCBlob
SPECIFICATION Spec
INVARIANTS
    EveryPlaceholderFound
    EveryTokenFound
    NoneLeftBehind
    OtherBytesUntouched
PROPERTIES
    RewriteEnds
CHECK_DEADLOCK FALSE
