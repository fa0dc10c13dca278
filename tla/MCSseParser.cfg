SPECIFICATION Spec
CONSTANTS
    MaxLines = 4
    Usages = {"u1", "u2"}
    Streams <- SmallStreams
    MaxChunk = 2
    MaxBufferBytes = 8
INVARIANTS
    UsageIndependentOfChunks
    GivesUpOnLongEventsOnly
    BufferBounded
CHECK_DEADLOCK FALSE
