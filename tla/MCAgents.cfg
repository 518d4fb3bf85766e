SPECIFICATION MCSpec
CONSTANTS
  Kinds = {"prompt", "agent"}
  Calls = {c1, c2}
  Names = {"x", "y", "z"}
  Templates <- MCTemplates
  Bindings <- MCBindings
  MaxVersions = 3
  MaxText = 5
  Tools = {"echo", "fetch", "post", "remote"}
  KindOf <- MCKindOf
  Refused = {"post"}
  Servers = {"s"}
  ServerOf <- MCServerOf
  Versions <- MCVersions
  Batches <- MCBatches
  Costs = {0, 1}
  MaxRows = 2
  MaxCases = 2
  Verdicts = {0, 9}
  RunCosts = {1, 2}
INVARIANTS PublishTakesEffect LimitsHold RunIsRecorded SummaryFollowsRows
PROPERTIES RenderingEnds RunsEnd
CHECK_DEADLOCK FALSE
