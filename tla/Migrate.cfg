SPECIFICATION DeploymentSpec
CONSTANTS
  Runners = {1, 2, 3}
  Sums = {"a", "b"}
  Builds <- AllBuilds
  Failures = TRUE
CHECK_DEADLOCK FALSE
INVARIANTS AtMostOnce HistoryIsTrue OkMeansUpToDate
PROPERTIES ImplementsHistory UpReturns
