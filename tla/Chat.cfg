SPECIFICATION Spec
CONSTANTS
    MAX_USERS = 2
    LINEBUFFER_SIZE = 2
    MaxName = 1
    Chars <- FewChars
INVARIANTS
    NamesUnique
    ClosedSlotsNameless
PROPERTIES
    EndsForAReason
CHECK_DEADLOCK FALSE
