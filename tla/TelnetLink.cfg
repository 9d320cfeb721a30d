SPECIFICATION Spec
CONSTANTS
    BufferSizes <- Sizes
    Calls <- SomeCalls
    MaxSaid = 3
    MaxChunk = 4
INVARIANTS
    NothingHeldBack
PROPERTIES
    ImplementsChannel
    EverythingHeard
CHECK_DEADLOCK FALSE
