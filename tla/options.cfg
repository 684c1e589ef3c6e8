SPECIFICATION Spec
CONSTANTS
    Declared <- MCDeclared
    m_positional <- MCPositional
    Texts <- MCTexts
    Desc <- MCDesc
    Items <- MCItems
    Valid <- MCValid
    Variables <- MCVariables
    Before <- MCBefore
    MaxArgs = 3
INVARIANTS
    TypeOK
    ResultsAgree
    DefaultsOnce
    PlainTextsKept
CHECK_DEADLOCK FALSE
