CONSTANTS
    Worlds <- MCWorlds
    World <- MCWorld
    Lines <- MCLines
    MaxLines <- MCMaxLines
SPECIFICATION MCSpec
CHECK_DEADLOCK FALSE
INVARIANTS
    CascadeHolds
    AuditIsTrue
    PersonaWhole
    FilledIn
    ListedIsLoaded
    HandedIsTold
    ReadAsWritten
