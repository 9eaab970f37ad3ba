\* The clock starts at 22 hours on 2024-02-29.
CONSTANTS
    BufferLines = 3
    FileSize = 2
    Day <- DayAt
    Hour <- HourAt
    StartTime = 474782
    LinesPerTick = 3
    MaxLines = 5
    MaxTicks = 3
    MaxFails = 1

SPECIFICATION FairSpec

INVARIANTS
    LinesInOrder
    SizeRespected
    CalendarExact

PROPERTY
    EveryLineIsWritten
