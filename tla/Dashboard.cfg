SPECIFICATION Spec
CONSTANTS
    Rows = 2
    Cols = 16
    LineLen = 40
    Blank <- Space
    Beyond <- Nowhere
    Speeds <- SomeSpeeds
    Fuels <- AllFuels
    Temperatures <- SomeTemperatures
INVARIANTS
    ReadingShown
    NoOldReadingLeft
PROPERTIES
    MoreFuelMoreBars
