CONSTANTS
    Texts <- MCTexts
    Letters <- MCLetters
    Keywords <- MCKeywords
    WORD = 16
    PEEK <- MCPeek
    Bindings <- MCBindings
    Memory <- MCMemory
SPECIFICATION Spec
INVARIANT TokensAreRight
INVARIANT ValueIsMeaning
PROPERTY LineEvaluated
CHECK_DEADLOCK FALSE
