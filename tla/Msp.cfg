SPECIFICATION Spec
CONSTANTS
    MAX_WINDOW_SIZE = 1
    SeqSize = 16
    Starts = {0, 15}
    Length = 2
    Last <- SomeLast
    MaxNet <- SomeNet
INVARIANT
    WindowFlagRight
PROPERTIES
    ImplementsStream
    ClosesInTheEnd
