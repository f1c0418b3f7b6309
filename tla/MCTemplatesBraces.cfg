CONSTANTS
    Source <- MCSource
    Answer <- MCAnswer
    From <- MCFrom
    To <- MCTo
    Blob <- MCBlob
SPECIFICATION Spec
INVARIANT
    EveryOccurrenceReplaced
CHECK_DEADLOCK FALSE
