CONSTANTS
  Tickers = {t1}
  AtTimes = {0}
  Periods = {1}
  CronEnds = {1}
  RetryInterval = 1
  MaxRetries = 1
  MaxTime = 1
  MaxOrphans = 1
  MaxUpdates = 1
SPECIFICATION Spec
INVARIANTS TypeOK EnabledIsScheduled
PROPERTIES RemovedGoesQuiet BackOnSchedule
CHECK_DEADLOCK FALSE
