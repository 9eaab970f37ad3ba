\* Two replies have 126 bytes, and three fill the buffer.
CONSTANTS
    OtherFrames = {"continueFrame", "textFrame", "pingFrame"}
    ReplyLen = 63
    MAX_BUFFER_SIZE = 250
    MaxUnits = 6

SPECIFICATION FairSpec

INVARIANTS
    PackagesGoUp
    RepliesKept
    RepliesReadable
    Base64Exact

PROPERTY
    EveryPackageAnswered

\* The client may have nothing more to send.
CHECK_DEADLOCK FALSE
