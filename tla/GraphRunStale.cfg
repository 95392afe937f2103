\* A run that pauses twice at the same human state.
SPECIFICATION Spec
CONSTANTS
  NoState = NoState
  p1 = p1
  Procs = {p1}
  StateId <- MCStates
  Flows <- OnlyRework
  Policies = {"pause"}
  MaxSteps = 6
  MaxVisits = 4
  MaxLaunch = 3
  MaxInline = 5
INVARIANT PriorContextFresh
