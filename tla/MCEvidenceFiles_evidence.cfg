SPECIFICATION Spec
CONSTANTS
    Orders = {1}
    Tasks = {1, 2}
    Links = {1}
    f1 = f1 f2 = f2 r1 = r1 r2 = r2
    Files = {f1, f2}
    Content <- MCContent
    Requests = {r1, r2}
    Kinds = {"receipt", "cancellation_proof", "waste_photo"}
    Readings <- MCReadings
    MaxUses = 2
CONSTRAINT BoundedLoad
SYMMETRY EvidenceSymmetry
INVARIANTS
    FilesTypeOK
    ReadyIsProven
    ClosedTasksAreProven
    
PROPERTIES
    UsedLinksAreShut

