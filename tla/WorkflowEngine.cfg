\* Two activations at a time on a workflow of five nodes.
SPECIFICATION FairSpec
CONSTANTS
  build = build
  test = test
  review = review
  deploy = deploy
  alert = alert
  Nodes = {build, test, review, deploy, alert}
  EntryPoint = build
  Edges <- Graph
  Checkpoints = {review, deploy}
  Activations = {a1, a2}
  None = None
INVARIANTS ApprovesWhatWasAsked EachOnceInOrder
PROPERTIES PauseHolds EndIsFinal RunEnds
CHECK_DEADLOCK FALSE
