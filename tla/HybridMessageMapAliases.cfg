\* One Release-build object with room for two parameters before it converts.
CONSTANTS
    Key = {k1, k2, k3}
    Val = {v1, v2}
    Object = {o1}
    SMALL_CAPACITY = 2
    NullPtr = NullPtr
    Absent = Absent
    NoCall = NoCall
    NDEBUG = TRUE
    Hints = {0, 3}
    Wires = {}
SPECIFICATION AliasSpec
INVARIANT SetStoresItsArgument
