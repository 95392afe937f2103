\* Two processes on the run directory, as two resumes of one paused run; and
\* what people say to a run, in two seconds of three ticks.
SPECIFICATION SharedSpec
CONSTANTS
  NoState = NoState
  p1 = p1
  p2 = p2
  Procs = {p1, p2}
  StateId <- MCStates
  Flows <- OnlyRework
  Policies = {"pause", "inline"}
  MaxSteps = 5
  MaxVisits = 2
  MaxLaunch = 3
  MaxInline = 4
  Fraction = 3
  MaxTime = 6
  MaxComments = 2
  MaxTyped = 3
  MaxAnswers = 2
  Situations <- MCSituations
  MaxEntries = 4
  MaxFaults = 2
INVARIANTS
  MetaBacked PausedNumbering ManifestComplete
  HeardOnce AnswersComplete AuditTells
CHECK_DEADLOCK FALSE
