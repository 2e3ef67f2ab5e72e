\* Enough memory, and wire objects whose string tag may be followed by something
\* else: the value that unpack() leaves is destroyed as a string.
CONSTANTS
    Slot = {x1, x2}
    Zero = Zero
    Data = {Zero, d1, d2}
    Absent = Absent
    AllocFails = FALSE
    WireObjects <- MCAllWire
SPECIFICATION Spec
SYMMETRY Symmetry
CHECK_DEADLOCK FALSE
INVARIANT NeverUndefined
