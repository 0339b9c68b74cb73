SPECIFICATION ShippingSpec
CONSTANTS
  maxWriteBytes = 2
  maxStorageSizeBytes = 4
  maxSendSizeBytes = 2
  maxDrainSends = 2
  WriteLens = {0, 1, 2, 3}
  MaxWrites = 6
  EnrollCallers = {logs, config}
  LogCaller = logs
  ConfigCaller = config
  Launch = launch
  LocalServer = local
  Home = home
  Elsewhere = elsewhere
  None = none
  MaxKeys = 2
  MaxInvalid = 1
  MaxFaults = 1
  MaxRequests = 1
  LogTypes = 2
  Lengths = {1, 3, 4}
  MaxBytesPerBatch = 3
  MinBytesPerBatch = 2
  Increment = 2
  MaxBufferedLogs = 2
  MaxLogWrites = 3
  MaxLogFaults = 1
  MaxLogRestarts = 1
INVARIANTS SizeIsBytes LogsAccounted KeyHasRecord
PROPERTIES EventuallyShipped  StaleKeyIsReplaced  LogsLeave
CHECK_DEADLOCK FALSE
