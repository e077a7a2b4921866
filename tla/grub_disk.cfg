SPECIFICATION Spec
CONSTANTS
    d1 = d1
    d2 = d2
    c2 = c2
    None = None
    Align = 2
    Cells <- MCCells
    Areas <- MCAreas
    Blocks = {d1, d2, c2}
    Under <- MCUnder
    Spans <- MCSpans
    LastBlocks = {d2}
    Slots = 2
    IndexOf <- MCIndexOf
    ZeroBlock = d1
    UnitCells = 3
    PartCells = 2
    MaxUsers = 1
    Requests <- MCRequests
INVARIANTS TypeOK HeapSound OneOwner FailsWhenFull ReadsTrue
CHECK_DEADLOCK FALSE
