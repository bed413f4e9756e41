SPECIFICATION FairSpec
CONSTANTS
  THREAD_DEFAULT_PRI = 2
  Thread = {a, b}
  Idle = idle
  MaxSleep = 1
  SleepMod = 4
PROPERTY YieldReturns
