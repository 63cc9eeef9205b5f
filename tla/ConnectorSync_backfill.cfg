CONSTANTS
  Syncers = {s1}
  Tables = {log, audit}
  RowLimit = 1
  MaxTimes = 3
  MaxFailures = 0
SPECIFICATION ConnectorSpec
INVARIANTS WatermarkCovers
CHECK_DEADLOCK FALSE
