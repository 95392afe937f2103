\* Human input, and agents that agree on what they had read before it.
SPECIFICATION Spec
CONSTANTS
  a1 = a1
  a2 = a2
  c1 = c1
  c2 = c2
  Roster <- Two
  Callers = {c1, c2}
  Scenes <- OnlyServer
  MaxTurns = 3
  EventCap = 1
  HumanCap = 1
  PipeCap = 1
INVARIANT ConvergedOnLatest
