SPECIFICATION ViewsSpec
CONSTANTS
  NoData = NoData
  Devices <- MCDevices
  DeviceType <- MCDeviceType
  ReportedTypes <- MCReportedTypes
  Ranges <- MCRanges
  Retention = 1
  MaxTime = 2
  MaxSkew = 1
  MaxReadings = 2
  MaxMoves = 1
  MaxTrouble = 1
  Statuses = {"online", "offline", "unknown"}
  Records <- MCRecords
  MaxItems = 3
  MaxChanges = 1
INVARIANTS
  ChartsCountEveryRecord
  FleetChartExact
  ThresholdsAgree
  ChartIsMeasured
PROPERTIES
  CardNeverOlder
CONSTRAINT
  OneEvent
CHECK_DEADLOCK FALSE
