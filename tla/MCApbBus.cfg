SPECIFICATION BusSpec
CONSTANTS
    Base = 16
    NoAccess = NoAccess
    Accesses <- MCAccesses
INVARIANTS
    BusTypeOK
    NoWriteDropped
    StoreTookEffect
    LoadIsExact
    StatusIsCurrent
    BusInv
PROPERTIES
    AccessesAnswered
    ComputationEnds
