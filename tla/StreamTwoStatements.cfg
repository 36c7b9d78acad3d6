CONSTANTS
    Values <- MCValues
    ZERO <- MCZero
    Faulting <- MCFaulting
    Garbage <- MCGarbage
    Memories <- MCMemories
    Sessions <- MCTwoStatements
    VM_STACK_SIZE = 3
    EXEC_CAPACITY = 20
SPECIFICATION Spec
INVARIANT EnginesAgree
CHECK_DEADLOCK FALSE
