SPECIFICATION Spec
CONSTANTS
  MaxAttempts = 2
  Threshold = 0
  MaxReports = 2
  MaxMessages = 2
  MaxEntries = 2
INVARIANTS
  TypeOK
  CancelledOnRequest
  AnswersTruthfully
  SettledBeforeReport
  FreshToken
PROPERTIES
  RequestsTakeEffect
