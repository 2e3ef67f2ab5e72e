\* One container of capacity 2, with and without a hint, whose allocations may
\* fail.  The process may end, so deadlock is not an error.
CONSTANTS
    k1 = k1
    k2 = k2
    v1 = v1
    Key = {k1, k2}
    Val = {v1, Unknown, Broken}
    Unknown = Unknown
    Broken = Broken
    SMALL_CAPACITY = 2
    NullPtr = NullPtr
    Followed = {}
    NoRef = NoRef
    NoWalk = NoWalk
    Hints <- MCHints
    Wires <- MCWires
    Others <- MCOthers
SPECIFICATION Spec
CHECK_DEADLOCK FALSE
INVARIANT MemoryTypeOK
INVARIANT ReserveHolds
PROPERTY TerminatesOnlyBy
PROPERTY FailuresAreContained
PROPERTY ClearRepairs
 
