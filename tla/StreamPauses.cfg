\* Four events, the usage in the last but one; buffers that hold part of them.
SPECIFICATION FairSpec
CONSTANTS
    Events = 4
    UsageEvent = 3
    CopySize = 4
    BufferSize = 3
PROPERTY
    Passthrough
CHECK_DEADLOCK FALSE
