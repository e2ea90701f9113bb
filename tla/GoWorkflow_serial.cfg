\* Two runs, one after the other, of any workflow of three steps with at most
\* two dependencies each; contexts may be cancelled.  The behaviour ends when
\* both runs have returned: no deadlock check.
SPECIFICATION FairSearchSpec
CONSTANTS
  Steps = {a, b, c}
  Runs = {r1, r2}
  NoStep = NoStep
  StepList <- AnyOrder
  Graphs <- AllGraphs
  MayCancel = TRUE
  MayOverlap = FALSE
CHECK_DEADLOCK FALSE
INVARIANTS OverallIsHonest SortIsRight
PROPERTIES KeepsPromise RunsReturn
