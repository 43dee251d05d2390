SPECIFICATION Spec
CONSTANTS
    Orders = {1}
    Stores = {"id", "name"}
    Named = {"name"}
    Total <- MCTotal
    Day <- MCDay
    Files <- MCFiles
    Batches = {1, 2}
    w1 = w1 w2 = w2
    Workers = {w1, w2}
CONSTRAINT BoundedLoad
SYMMETRY WorkerSymmetry
INVARIANTS
    UberTypeOK
    CopiesNeedOverlaps
    ConfirmedRowsAreStored
    
PROPERTIES
    SecondClaimsLackAName
