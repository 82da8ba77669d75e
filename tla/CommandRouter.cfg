SPECIFICATION Spec
CONSTANTS
    x = x
    y = y
    Fragment <- MCFragment
    Id <- MCId
    Declared <- MCDeclared
    MaxReady = 2
INVARIANTS TypeOK Unambiguous ProgramServed
CHECK_DEADLOCK FALSE
