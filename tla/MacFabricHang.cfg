SPECIFICATION Spec
CONSTANTS
    Base = 16
    Sels = {0, 1, 2, 3}
    Words = {2, 13}
    CycleBase = 4
PROPERTY LaunchesFinish
