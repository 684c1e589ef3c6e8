SPECIFICATION Spec
CONSTANTS
    Half = 128
    Texts <- MCTexts
INVARIANTS
    ParsesExactly
CHECK_DEADLOCK FALSE
