SPECIFICATION OfflineSpec
CONSTANTS
  None = None
  Refused = Refused
  Name <- MCName
  HaDocument <- MCHaDocument
  EntryId = {"a", "b"}
  DeviceCsv <- MCDeviceCsv
  NameCsv <- MCNameCsv
  DeviceCount = {None, 0, 1, 3, 4}
  HandTable <- MCHandTable
  MaxDevice = 3
  MaxOutput = 2
  MaxSection = 2
  MaxSteps = 4
  ReportSize = 6
  PacketType = {1, 2}
  Data <- MCData
  Noise <- MCNoise
  MaxBatch = 3
INVARIANTS
  ReloadsSame
  PositionsDense
  NoCodeWritten
  MergeKeeps
  RoundTrip
  SplitsExactly
CHECK_DEADLOCK FALSE
