SPECIFICATION FairSpec
CONSTANTS
  p1 = p1
  w = w
  none = none
  j1 = j1
  j2 = j2
  Posters <- MCPosters
  Worker <- w
  NoThread <- none
  Jobs <- MCJobs
  NoJob = NoJob
  Capacity = 2
  Modulus = 4
  TimerIds <- MCTimerIds
  Intervals <- MCIntervals
  MaxTime = 2
INVARIANTS
  TypeOK
  SleepsOnlyWhenIdle
PROPERTIES
  ImplementsJobQueue
  WorkIsDone
  StopReturns
