\* Two Release-build objects that are moved into each other and sent maps with
\* distinct keys; the process stops when an object that lost its map is used, so
\* deadlock is not an error.
CONSTANTS
    Key = {k1, k2, k3}
    Val = {v1}
    Object = {o1, o2}
    SMALL_CAPACITY = 2
    MaxWire = 3
    NullPtr = NullPtr
    Absent = Absent
    NDEBUG = TRUE
    Hints <- MCHints
    Wires <- MCDistinctWires
SPECIFICATION Spec
SYMMETRY Symmetry
CHECK_DEADLOCK FALSE
INVARIANT StorageInv
INVARIANT PackUnpackRoundTrip
PROPERTY HollowOnlyByMove
PROPERTY ImplementsParameterMap
