SPECIFICATION WriteSpec
CONSTANTS
    Bits <- MCBits
    TapMax = 3
    Eyes <- MCEyes
    Dm = Dm
    NoBit = NoBit
INVARIANTS
    TypeOK
    RunIsLongest
    StrobeIsBack
PROPERTIES
    ImplementsCentring
