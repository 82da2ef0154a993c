SPECIFICATION Spec
CONSTANTS
  Vocabularies <- MCVocabularies
  Documents <- MCDocuments
  Entries <- MCEntries
  Summaries <- MCSummaries
  BlankTexts = {"blank"}
  MaxOwners = 2
  MaxPatterns = 3
  MaxLines <- MCMaxLines
  MaxSteps <- MCMaxSteps
  ReportJobs <- MCJobs
  ChannelCapacity = 1
  SummaryCapacity = 1
  PutAttempts = 2
  LiveCapacity = 2
  FlushThreshold = 2
  MinAttempts = 2
  Retain = 2
  PreAcquire = 2
  MaxEvents = 6
  MaxJobs = 3
  MaxFaults = 1
CHECK_DEADLOCK FALSE
INVARIANTS
  OutputIsRight
  ReportsAreComplete
  JournalIsExact
