\* The container of HybridMessageMapMemory.cfg with a pointer from find() or an
\* iterate() in progress.  The process may end, so deadlock is not an error.
CONSTANTS
    k1 = k1
    k2 = k2
    v1 = v1
    Key = {k1, k2}
    Val = {v1, Unknown, Broken}
    Unknown = Unknown
    Broken = Broken
    SMALL_CAPACITY = 2
    NullPtr = NullPtr
    Followed = {"pointer", "iterate"}
    NoRef = NoRef
    NoWalk = NoWalk
    Hints <- MCHints
    Wires <- MCFewWires
    Others <- MCFewOthers
SPECIFICATION Spec
CHECK_DEADLOCK FALSE
INVARIANT KeptReferenceHolds
INVARIANT WalkStaysOnEntries
PROPERTY ReferencesDangleOnlyBy
