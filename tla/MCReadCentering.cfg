SPECIFICATION ReadSpec
CONSTANTS
    Bits <- MCBits
    TapMax = 3
    Eyes <- MCEyes
    NoBit = NoBit
INVARIANTS
    TypeOK
    SuccessIsReadable
    StrobeCentred
    BlameIsRestored
PROPERTIES
    ImplementsCentring
