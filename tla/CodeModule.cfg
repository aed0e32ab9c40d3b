SPECIFICATION Spec
CONSTANTS
    a1 = a1
    a2 = a2
    block = block
    NoBlock = NoBlock
    MapFailed = MapFailed
    Programs <- MCPrograms
    Addresses <- MCAddresses
    Blocks <- MCBlocks
    MinSizes <- MCMinSizes
    SystemErrors <- MCErrors
    MaxProcs = 2
    MaxPending = 2
INVARIANTS
    TypeOK
    LinkedCalls
    LoadedImage
    StubsCoherent
    BlockHoldsCode
    ClientSeesExecutable
PROPERTIES
    ExecutableNotWritten
    CallsFollowRequests
    Refines
CHECK_DEADLOCK FALSE
