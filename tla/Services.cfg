SPECIFICATION MCSpec
CONSTANTS
  ChangeLimit = 4
  CrashLimit = 2
  FullLimit = 1
  OpLimit = 3
  BufferSizes = {0, 2, 3}
  DefaultSize = 3
  EntryLimit = 5
  MeasurementMax = 2
  MeasurementKeep = 1
  LogKeep = 2
  MeasurementLimit = 3
  TickLimit = 3
  FileLimit = 3
  TroubleLimit = 2
  PlugLimit = 3
  WorldLimit = 1
  WebLimit = 2
  MappingLimit = 3
  SendLimit = 5
  ReadMax = 3
  ArrivalLimit = 3
CHECK_DEADLOCK FALSE
INVARIANTS
  PartsTypeOK ConfigurationSurvives ChangesReachAll LogIsTrue WatchdogsAgree ServerFollows
  CallsAreChecked MappingsHold ExportsHold ConnectionsHold
PROPERTIES
  StepsKeep PartsSettle
