\* Names of up to two characters over an ordinary one and the separator; every
\* key of up to five characters, the longest a composed key can be.
CONSTANTS
    US = US
    Char = {a, US}
    MaxName = 2
    MaxKey = 5
    Names <- MCNames
    WireKeys <- MCWireKeys
SPECIFICATION Spec
INVARIANT ModesAgree
INVARIANT KeysDoNotCollide
INVARIANT CallbacksRecoverNames
