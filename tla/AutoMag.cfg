SPECIFICATION Spec
CONSTANTS
    Frames <- ThreeFrames
    Keys = {"s", "l", "6", "1", "q", "enter"}
    Merge = 2
    MaxFrames = 2
    MaxKeys = 1
INVARIANTS
    TypeOK
    
    SecondPartFollows
    LedsAsBelieved
    NeverBothLeds
    GreenIsCertain
PROPERTIES
    SocketServed
    QuitHonoured
CHECK_DEADLOCK FALSE
