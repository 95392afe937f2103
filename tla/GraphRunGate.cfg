\* A run that pauses, and is resumed after an edit that has an agent stand
\* where it paused.
SPECIFICATION Spec
CONSTANTS
  NoState = NoState
  p1 = p1
  Procs = {p1}
  StateId <- MCStates
  Flows <- ReworkOrUnattended
  Policies = {"pause"}
  MaxSteps = 5
  MaxVisits = 2
  MaxLaunch = 3
  MaxInline = 5
PROPERTY TransitIsFirst
