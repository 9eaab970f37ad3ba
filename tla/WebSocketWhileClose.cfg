CONSTANTS
    OtherFrames = {}
    ReplyLen = 63
    MAX_BUFFER_SIZE = 250
    MaxUnits = 4

SPECIFICATION Spec

INVARIANT
    StillSends

CHECK_DEADLOCK FALSE
