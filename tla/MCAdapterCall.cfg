SPECIFICATION Spec
CONSTANTS
  Requests <- MCRequests
  Answers <- MCAnswers
  Statuses = {400, 401, 403, 404, 422, 429, 503}
  PageLimit = 2
  VendorPages = 3
INVARIANTS
  StreamAgreesWithWhole
  FinishMeansWhole
  UsageCoversReports
  ConversationKept
