CONSTANTS
    a = a
    b = b
    c = c
    d = d
    v1 = v1
    v2 = v2
    None = None
    Names <- MCNames
    Values <- MCValues
    hash <- MCHash
    SYMBOL_SLOTS = 3
SPECIFICATION Spec
INVARIANT TypeOK
INVARIANT Reachable
INVARIANT NoDuplicates
PROPERTY TableImplementsMap
