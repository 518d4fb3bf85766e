\* Bounds and sets of every part of the server.
SPECIFICATION MCSpec
CONSTANTS
  Names = {alice}
  Calls = {c1, c2}
  TrustsHeader = TRUE
  MaxTokens = 1
  MaxKeys = 2
  SessionTtl = 1
  MaxTime = 1
  Workers = {w1, w2}
  MaxAttempts = 3
  RetryDelay = 1
  MaxJobs = 2
  MaxRequeues = 1
  MaxJobTime = 3
  MAX_RESTARTS = 5
  HealthChecks = 2
  PipeSize = 1
  Restores = {r1, r2}
  MaxVersion = 3
  Request = {q1, q2}
  Uploads = {u1, u2}
  Files <- MCFiles
  Target = 4
  Models = {"m", "n"}
  Runtime = TRUE
  MaxBusy = 2
SYMMETRY Symmetry
INVARIANTS RolesGovernChanges CredentialsEnd RunsAreBounded RestartsAreBounded RestoreIsWhole
  ReadyIsIndexed QueryFindsReady OneDocumentPerFile
PROPERTIES EmbeddingsLedger
CHECK_DEADLOCK FALSE
