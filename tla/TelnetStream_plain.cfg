SPECIFICATION Spec
CONSTANTS
    BufferSizes <- TwoSizes
    Byte <- PlainBytes
    MaxChunk = 3
    MaxStream = 9
INVARIANTS
    TypeOK
    DecodesStream
CHECK_DEADLOCK FALSE
