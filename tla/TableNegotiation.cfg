SPECIFICATION Spec
CONSTANTS
    UCHAR = 12
    Opt <- Options
    UsTable <- AutoMagUs
    HimTable <- AutoMagHim
    Requests <- ServerOnly
INVARIANT
    PassiveViewCorrect
PROPERTY
    ImplementsRfc1143
