\* Two objects of a Debug build, sent maps with distinct keys: add() of a key that
\* is there ends the process, so deadlock is not an error.
CONSTANTS
    Key = {k1, k2, k3}
    Val = {v1}
    Object = {o1, o2}
    SMALL_CAPACITY = 2
    MaxWire = 3
    NullPtr = NullPtr
    Absent = Absent
    NDEBUG = FALSE
    Hints <- MCHints
    Wires <- MCDistinctWires
SPECIFICATION Spec
SYMMETRY Symmetry
CHECK_DEADLOCK FALSE
INVARIANT SizeCountsKeys
PROPERTY ImplementsParameterMap
