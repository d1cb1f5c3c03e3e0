SPECIFICATION Spec
CONSTANTS
  Schedules = {s1, s2, s3}
  Every = Every
  Odd = Odd
  Never = Never
  Stuck = None
  None = None
  LastTime = 3
  Times <- ClockTimes
  Crons <- AllCrons
  NextAfter <- CronTable
  Batch = 2
  Hour = 2
SYMMETRY AnySchedule
INVARIANTS
  TypeOK
  FiresOnceInOrder
PROPERTIES
  MissedRunsCoalesce
