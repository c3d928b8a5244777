SPECIFICATION Spec
CONSTANTS
    Base = 16
    NoAccess = NoAccess
    Accesses = {}
    CoreCounts <- MoreCores
    PackCount = 2
    Pairs <- BothPairs
INVARIANTS
    HostInv
    OperandsComplete
    ResultsPublished
    ElementsAreLaneWords
