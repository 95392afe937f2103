\* One process at a time, pausing and inline runs, a flow file that may be
\* edited between pause and resume, into a dead end or so that an agent stands
\* where the run paused.  In machines of their own a shell that leaves children
\* behind, an agent that is sent two lines, and every reply of four bytes, with
\* a decision behind it or not.
SPECIFICATION MCSpec
CONSTANTS
  NoState = NoState
  p1 = p1
  Procs = {p1}
  StateId <- MCStates
  Flows <- Edits
  Policies = {"pause", "inline"}
  MaxSteps = 5
  MaxVisits = 2
  MaxLaunch = 3
  MaxInline = 5
  Tasks <- MCTasks
  MaxSends = 2
  Settings <- MCSettings
  Edges <- MCEdges
  Allowed <- MCAllowed
  Replies <- MCReplies
INVARIANTS
  ManifestBacked ManifestIsWalk BudgetSpansResumes PriorRecorded
  WholeOutput LinesWhole LastObjectWins
PROPERTIES
  CompletedIsFinal DriverEnds WalkRefined WaitReturns
CHECK_DEADLOCK FALSE
