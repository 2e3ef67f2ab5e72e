\* Strings may fail to allocate and any wire object may arrive.  A program that
\* accessed a missing string stops, so deadlock is not an error.
CONSTANTS
    Slot = {x1, x2, x3}
    Zero = Zero
    Data = {Zero, d1, d2}
    Absent = Absent
    AllocFails = TRUE
    WireObjects <- MCAllWire
SPECIFICATION Spec
SYMMETRY Symmetry
CHECK_DEADLOCK FALSE
INVARIANT TagMatchesBuffer
INVARIANT NoStringLeaked
INVARIANT ValueRoundTrip
PROPERTY BrokenOnlyByException
