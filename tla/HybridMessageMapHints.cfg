\* Two Release-build objects, with and without a hint above the capacity; a
\* program that uses an object without its map stops.
CONSTANTS
    Key = {k1}
    Val = {v1}
    Object = {o1, o2}
    SMALL_CAPACITY = 2
    NullPtr = NullPtr
    Absent = Absent
    NDEBUG = TRUE
    Hints = {0, 3}
    Wires = {}
SPECIFICATION HintsSpec
CHECK_DEADLOCK FALSE
PROPERTY HintSurvivesClear
