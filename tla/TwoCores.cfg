SPECIFICATION Spec
CONSTANTS
    Base = 16
    NoAccess = NoAccess
    Accesses = {}
    CoreCounts <- TwoCores
    PackCount = 1
    Pairs <- SequentialPairs
INVARIANTS
    ElementsCorrect
