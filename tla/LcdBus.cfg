SPECIFICATION Spec
CONSTANTS
    Commands <- DriverCommands
    Texts <- AnyText
INVARIANTS
    InSync
PROPERTIES
    BytesArrive
