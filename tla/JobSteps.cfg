SPECIFICATION MCSpec
CONSTANTS
  Plans <- MCPlans
  MaxDepth = 2
  MaxTrouble = 2
  Workers <- MCWorkers
  Dirs <- MCDirs
  MaxFaults = 1
  Fetches <- MCFetches
  Sites <- MCSites
  Revisions <- MCRevisions
  NoCell = NoCell
  Installs <- MCInstalls
  Targets <- MCTargets
  Preseeds = {"unset", "missing", "good", "broken"}
  MaxDownloads = 2
  MaxSwaps = 1
  Declared <- MCDeclared
  Phases <- MCPhases
  Switches <- MCSwitches
  MaxStages = 3
  Tree <- MCTree
  Folders <- MCFolders
  Dockerfile <- MCDockerfile
  IgnoreFile <- MCIgnoreFile
  Lines <- MCLines
  MaxLines = 3
  DirLinks <- MCDirLinks
  Dangling <- MCDangling
  Collate <- MCCollate
  Alphabets <- MCAlphabets
  Names <- MCNames
  Quoted <- MCQuoted
  MaxTokens = 6
  Contexts <- MCContexts
  Trees <- MCTrees
INVARIANTS
  JobIsTold
  NothingLeft
  FetchIsSafe
  NodeIsRight
  WalksAreExact
  ExpressionsAgree
PROPERTIES
  CancelledEnds
  CallsEnd
