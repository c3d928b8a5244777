SPECIFICATION Spec
CONSTANTS
    Base = 16
    NoAccess = NoAccess
    Accesses = {}
    CoreCounts <- OneCore
    PackCount = 2
    Pairs <- BothPairs
INVARIANTS
    TypeOK
    HostInStep
    ElementsCorrect
PROPERTIES
    TransactionReturns
    ImplementsService
