SPECIFICATION Spec
CONSTANTS
    Templates <- MCTemplates
    TemplateOrder <- MCTemplateOrder
    AskedTemplates <- MCAskedTemplates
    BodyOf <- MCBodyOf
    AllCanonicalAssistants <- MCCanonical
    Assistants <- MCAssistants
    UserDocs <- MCUserDocs
    MaxEdits = 2
    MaxCommands = 2
INVARIANTS
    SetupThenCurrent
    InitSuccessIsWhole
PROPERTIES
    HandEditsKept
    PointerKeepsText
    InitKeepsFiles
CHECK_DEADLOCK FALSE
