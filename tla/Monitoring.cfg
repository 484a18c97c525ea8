SPECIFICATION MonitoringSpec
CONSTANTS
  Intervals = {2, 3}
  BackgroundDelay = 4
  HiddenDelay = 5
  FirstDelay = 1
  MaxGap = 8
  MaxCommands = 2
  MaxPostponed = 2
  MaxPosted = 2
  None = None
  Missing = Missing
  Infinite = Infinite
  Readings <- MCReadings
  Retention = 3
  MaxSamples = 4
  TrendPointLimit = 3
  MaxTime = 5
  MaxPushes = 5
  Interfaces = {i1, i2}
  CounterGap = 2
  MaxOctets = 1
  MaxChanges = 2
INVARIANTS
  WorkerKeepsPace
  HistoryIsTrue
  NeverOverReports
PROPERTIES
  MonitoringGoesOn
CHECK_DEADLOCK FALSE
