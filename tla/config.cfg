SPECIFICATION Spec
CONSTANTS
    Files <- MCFiles
    Keys <- MCKeys
    Texts = {"7", "x"}
    Decodes <- MCDecodes
INVARIANTS
    AnswersMatchFile
CHECK_DEADLOCK FALSE
