SPECIFICATION OneNeverSpec
CONSTANTS
  Schedules = {s1, s2, s3}
  Every = Every
  Odd = Odd
  Never = Never
  Stuck = s3
  None = None
  LastTime = 2
  Times <- ClockTimes
  Crons <- EveryOrNever
  NextAfter <- CronTable
  Batch = 2
  Hour = 2
PROPERTIES
  DueIsHandled
