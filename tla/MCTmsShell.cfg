SPECIFICATION MCSpec
CONSTANTS
  Functions <- tmsxxdb
  Tables <- MCTables
  MaxRows = 2
  MaxId = 3
  Modules = {1, 2}
  MAX_ROUTE_NODE = 3
  PageLength = 1
  MaxLinks = 4
  MaxLinkId = 6
  Connections = {c1, c2}
  Sockets = {5, 6}
  Places <- MCPlaces
  Refs <- MCRefs
  Paths = {"f1", "f2"}
  Answers <- MCAnswers
  FrameCount = 2
  RowLength = 2
  MAX_SLOT = 3
  MaxListed = 2
  MaxReports = 2
  Sizes = {0, 1, 3}
  SocketRoom = 8
  Files <- MCFiles
  FileRows = {0, 1, 2, 3, 4}
  Block = 2
  Preset = 3
  Room = 5
  Subjects = {"tables", "lines", "drafts", "lists", "devices", "levels", "traces", "modules", "wire", "files"}
INVARIANTS
  StoredAsAsked
  DeletedAsAsked
  FoundAsStored
  LinesWhole
  ListedWhole
  SentAsTyped
  TracesAsSaved
  ModulesShown
  FramesWhole
  LineFound

