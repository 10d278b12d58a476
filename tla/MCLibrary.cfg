SPECIFICATION Spec
CONSTANTS
    SCHAR_MAX = 1
    Bits <- MCBits
    NTOA_BUFFER_SIZE = 10
    Destructors = {"f", "g"}
    ATEXIT_MAX_FUNCS = 3
    MaxRegistrations = 4
    MaxFinalizations = 3
    MaxNesting = 3
    Texts <- MCTexts
    Calls <- MCCalls
    Operands <- MCOperands
    WIDEST = 8
INVARIANTS
    StringsAgree
    TokensAreFields
    TruncatesOnly
    NumbersReadBack
    DestroyedOnce
    DivisionIsExact
    OverflowIsTold
CHECK_DEADLOCK FALSE
