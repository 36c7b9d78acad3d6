CONSTANTS
    x = x
    y = y
    f = f
    g = g
    h = h
    GPIOA = GPIOA
    FOO = FOO
    SUPERUSER = SUPERUSER
    NoCap = NoCap
    NoValue = NoValue
    Values <- MCValues
    ZERO = 0
    Faulting <- MCFaulting
    Names <- MCNames
    Caps <- MCCaps
    CapOf <- MCCapOf
    RamFlash <- MCRamFlash
    Lines <- MCAccessLines
    InitialMemory <- MCMemory
    VM_STACK_SIZE = 8
    EXEC_CAPACITY = 12
    MAX_FNS = 2
    FN_BODY_WORDS = 10
    MAX_STREAM_WORDS = 12
    SYMBOL_SLOTS = 1
    AUDIT_SLOTS = 2
    COUNT_MAX = 2
    WORD_BITS = 2
    OverflowChecks = TRUE
    MaxEvents = 3
SPECIFICATION Spec
INVARIANT CheckStillValid
INVARIANT LogIsHistory
INVARIANT DumpIsRecent
INVARIANT LogLeadsWrites
PROPERTY CommandsGated
