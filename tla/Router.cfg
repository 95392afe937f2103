\* Two agents, in every mode.
SPECIFICATION FairSpec
CONSTANTS
  a1 = a1
  a2 = a2
  c1 = c1
  c2 = c2
  Roster <- Two
  Callers = {c1, c2}
  Scenes <- AllScenes
  MaxTurns = 3
  EventCap = 1
  HumanCap = 1
  PipeCap = 1
INVARIANTS OfferedInOrder LastWordsHeard
PROPERTIES RouterEnds CallAnswered DiscourseRefined
