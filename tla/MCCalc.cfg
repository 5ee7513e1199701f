SPECIFICATION Spec
CONSTANTS
    u1 = u1
    MaxDepth = 2
    MaxTokens = 12
    Coords <- MCCoords
    Contents <- MCContents
    Batches <- MCBatches
    Edits <- MCEdits
    Users = {u1}
CONSTRAINT SmallSheet
INVARIANTS SheetConsistent 
