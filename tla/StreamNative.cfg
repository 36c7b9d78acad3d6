CONSTANTS
    Values <- MCValues
    ZERO <- MCZero
    Faulting <- MCFaulting
    Garbage <- MCGarbage
    Memories <- MCMemories
    Sessions <- MCPokeFirst
    VM_STACK_SIZE = 3
    EXEC_CAPACITY = 9
SPECIFICATION Spec
INVARIANT TypeOK
INVARIANT EnginesAgree
INVARIANT NoSilentStackLoss
INVARIANT OneEngineRuns
PROPERTY RunEnds
CHECK_DEADLOCK FALSE
