SPECIFICATION Spec
CONSTANTS
    A = A
    Blank = Blank
    Char = {A, Blank}
    Rows = 4
    Cols = 2
    LineLen = 5
    Beyond <- Somewhere
    MaxLcds = 2
    Places <- Locations
    Programs <- TextAndControl
INVARIANTS
    
    CursorInStep
    LastRequestHonoured
PROPERTIES
    EachIsATerminal
