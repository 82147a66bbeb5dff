SPECIFICATION Spec
CONSTANTS
    app = app
    level = level
    cursor = cursor
    sound = sound
    None = None
    MaxEntries <- MCMaxEntries
    Priority <- MCPriority
INVARIANTS
    TypeOK
    NeverTogether
PROPERTIES
    CalledInOrder
    QuitEnds
