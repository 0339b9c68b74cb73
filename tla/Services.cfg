SPECIFICATION ServicesSpec
CONSTANTS
  Keys = {k1, k2}
  Values = {v1}
  Observers = {o1}
  Setters = {s1, s2}
  MaxStarts = 2
  MaxWrites = 2
  Nothing = Nothing
  FromOptions = FromOptions
  MaxFlagSteps = 3
  Contents = {h1, h2}
  Windows = {0, 2}
  CacheExpiry = 2
  MaxCacheSize = 1
  MaxNow = 5
  MaxRecords = 4
  Pingers = {p1, p2}
  MaxBytes = 3
  MaxLogs = 3
  MaxPings = 3
  FlagCallers = {c1, c2}
  MaxBufferedSpans = 2
  MaxChanges = 3
  MaxSpans = 3
  Handlers = {h1, h2}
  Requests <- MCRequests
  Dt4aRequests <- MCDt4aRequests
  TrustedKeys = {"root"}
  NoMunemo = NoMunemo
  Munemos = {"m1"}
  Ports <- MCPorts
  BusyPorts = {1}
  maxDesiredCallbackQueueSize = 1
  callbackQueueCapacity = 3
  MaxRequests = 2
  MaxUpdates = 1
  MaxLocEvents = 1
  Retain = 3
  MaxTime = 4
  MaxFileEvents = 4
  MaxMoves = 2
  MaxHwEvents = 2
  Queries = {q1, q2, q3, q4}
  numWorkers = 2
  Code <- AllCode
  Roots <- EntryPoints
  Asked <- ThingsAsked
  AskedTwice <- ConditionsAskedTwice
SYMMETRY FlagSymmetry
INVARIANTS 
  SuppressedAreCounted  ExportFollowsFlag CallbacksNeverBlock  
  ResetsAccounted WorkersFollowTables  CheckupsReport 
CHECK_DEADLOCK FALSE
