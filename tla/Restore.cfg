\* Two restores, with any policies and archives, to one destination; one fault:
\* a user edits a file there, or a removal fails.  And every merge of two trees.
CONSTANTS
    Ops = {p1, p2}
    Files = {f1, f2}
    Original = Original
    Edited = Edited
    NoTree = NoTree
    MaxFaults = 1
    MergePaths <- SomeMergePaths
    MaxRenames = 2
SPECIFICATION PartSpec
SYMMETRY Symmetry
INVARIANTS TreesSurvive MergeKeepsOld ErrorMeansUnpublished NoLeftovers MergesAsAsked
PROPERTIES PublishedWhole
CHECK_DEADLOCK FALSE
