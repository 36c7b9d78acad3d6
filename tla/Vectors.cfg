CONSTANTS
    Bytes = {0, 1}
    ZeroByte = 0
    NoByte = NoByte
    NoHandler = NoHandler
    RING_SIZE = 3
    FLASH_VECTORS <- MCFlash
    Exceptions <- MCExceptions
    IRQ_BASE = 16
    IRQ_LINES = 2
    TRAMPOLINE_LINE = 1
SPECIFICATION Spec
INVARIANT TypeOK
INVARIANT FaultsPark
INVARIANT LinesServed
INVARIANT WildThroughTrampoline
INVARIANT ConsumerOwnsTail
PROPERTY RingImplementsFifo
