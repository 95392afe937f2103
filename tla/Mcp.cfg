\* One client; runs with conversations, failures, and a channel of one line.
SPECIFICATION FairSpec
CONSTANTS
  Scenes <- Sessions
  MaxFrames = 3
  Headings <- MCHeadings
  Verdicts <- MCVerdicts
  Commits <- MCCommits
  Room = 1
INVARIANTS
  OneResponse LineKeepsItsTalk NoRunCutOff ReportIsRead
PROPERTIES
  CallEnds
CHECK_DEADLOCK FALSE
