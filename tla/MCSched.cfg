SPECIFICATION FairSpec
CONSTANTS
  THREAD_DEFAULT_PRI = 3
  Thread = {a, b}
  Idle = idle
  MaxSleep = 3
  SleepMod = 4
INVARIANTS CurRunnable SleepTimerExact FindIsScan
PROPERTIES OnlyWakeupsEndWaits ImplementsDispatch NoStarvation
