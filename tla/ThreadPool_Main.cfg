SPECIFICATION Spec
CONSTANTS
  N = 2
  M = 4
INVARIANTS SubmitWakes RunsOnce
PROPERTIES TaskStaysPut ResultsArrive AwakeWorkersStop
