SPECIFICATION Spec
CONSTANTS
    ECHO = ECHO
    Opt = {ECHO}
    UsTable <- EveryOption
    HimTable <- EveryOption
    Requests <- FarSide
PROPERTIES
    RequestAnswered
