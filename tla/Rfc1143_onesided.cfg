SPECIFICATION Spec
CONSTANTS
    ECHO = ECHO
    Opt = {ECHO}
    UsTable <- ClientOnly
    HimTable <- EveryOption
    Requests <- OneSided
INVARIANTS
    TypeOK
    ExchangesOK
    Agreement
    NoProtocolError
PROPERTIES
    ComesOnForAReason
    RequestAnswered
    Settles
