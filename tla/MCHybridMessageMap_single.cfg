\* One Release-build object, more keys than the capacity, any wire map.  unpack()
\* may end the process, so deadlock is not an error.
CONSTANTS
    Key = {k1, k2, k3}
    Val = {v1, v2}
    Object = {o1}
    SMALL_CAPACITY = 2
    MaxWire = 3
    NullPtr = NullPtr
    Absent = Absent
    NDEBUG = TRUE
    Hints <- MCHints
    Wires <- MCWires
SPECIFICATION Spec
CHECK_DEADLOCK FALSE
SYMMETRY DataSymmetry
INVARIANT TypeOK
INVARIANT StorageInv
INVARIANT PackUnpackRoundTrip
PROPERTY ImplementsParameterMap
