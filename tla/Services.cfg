\* Thirteen components that share no state; each behaviour follows one of them.
SPECIFICATION Spec
CONSTANTS
  Ids = {p, q}
  MoreIds = {x, y, z}
  MaxFaults = 1
  ToolNames = {"tool"}
  MaxConcurrent = 1
  RateLimit = 1
  MaxRetries = 1
  Frames = 2
  Definitions = {"definition"}
  Types = {"order", "stock"}
  MaxRoutes = 4
  Users = {"u", "v"}
  Managers = {"sse", "dashboard"}
  UserTokens = 2
  ToolTokens = 3
  FrameTokens = 1
  PromptTokens = 1
  CompressionThreshold = 6
  Budget = 3
  MaxAdded = 4
  MaxEvents = 1
  Jobs = {"job"}
  Tenants = {"a", "b"}
  Syncs = {"sync"}
  MaxWrites = 1
  MatchIds = {"match"}
  Decisions = {"first", "second"}
  ChannelSkus = {"c1", "c2"}
  Batches <- Imports
  Orders = {"order"}
  Readers = {"reader"}
  Length = 2
  PeriodEnd = 3
  MaxTime = 3
  MaxLag = 1
  QueueCount = 2
  MaxMessages = 2
  MaxPolls = 2
  Sessions = {"s", "t"}
  NoSession = "null"
  MaxReconnectAttempts = 2
SYMMETRY Symmetry
INVARIANTS
  TypesOK
  ToolListsFit
  ExecutionsAgree
  AdmittedWithinLimit
  LogTellsTheOutcome
  ChatsFit
  FairShare
  KeepsTheLiving
  TimersHaveStreams
  SchedulesFollowRows
  QueriesFit
  MappingsStand
  BoardAgrees
  RatesAreExplained
  ListensToItsSession
  AlgorithmsAgree
\* Every component comes to rest.
CHECK_DEADLOCK FALSE
