CONSTANTS
    Worlds <- MCWorlds
    World <- MCWorld
    Lines <- MCLines
    MaxLines <- MCMaxLines
SPECIFICATION MCSpec
CHECK_DEADLOCK FALSE
INVARIANT
    ProjectAboveFlow
