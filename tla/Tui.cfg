\* A session of two operations with two events each: one that takes a secret and
\* one that reports even when it fails.
CONSTANTS
    Kinds = {protect, benchmark}
    Secret = {protect}
    Reporting = {benchmark}
    None = None
    MaxOps = 2
    MaxEvents = 2
SPECIFICATION FairSpec
PROPERTIES OperationsEnd WaitersEnd
CHECK_DEADLOCK FALSE
