\* Every source of two names at two levels, with one edit during the walk, and
\* every stream of three entries; limits that some of them exceed.
CONSTANTS
    Names = {1, 2}
    Star = Star
    DoubleStar = DoubleStar
    Paths <- MCPaths
    ForeignPaths <- MCForeignPaths
    Requests <- MCRequests
    Wants <- MCWants
    Sizes = {1, 2}
    MaxEntries = 3
    MaxPathDepth = 2
    MaxEntrySize = 2
    MaxTotalSize = 3
    MaxEdits = 1
    MaxForeign = 3
SPECIFICATION Spec
INVARIANT ValidIsRestorable
CHECK_DEADLOCK FALSE
