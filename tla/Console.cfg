CONSTANTS
    a = a
    Chars <- MCChars
    LINE_MAX = 2
    RX_DEPTH = 1
    TX_DEPTH = 2
    MaxResets = 1
SPECIFICATION Spec
INVARIANT TypeOK
INVARIANT ScreenIsLine
INVARIANT TypistLosesNothing
PROPERTY PromptComesBack
CHECK_DEADLOCK FALSE
