\* One header that is set, packed and unpacked, with integers of 2, 3 and 4 bits.
CONSTANTS
    Range16 = 4
    Range32 = 8
    Range64 = 16
    Identifiers <- MCIdentifiers
    Samples <- MCSamples
    Times <- MCTimes
    Foreign <- MCForeign
    Unknown = Unknown
SPECIFICATION Spec
INVARIANT HeaderTypeOK
INVARIANT IdentifiersSurvive
INVARIANT HeadersArrive
