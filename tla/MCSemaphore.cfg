SPECIFICATION SemaFairSpec
CONSTANTS
  THREAD_DEFAULT_PRI = 2
  SleepMod = 4
  NumCpus = 2
  idle0 = idle0
  idle1 = idle1
  w2 = w2
  s3 = s3
  s4 = s4
  Thread <- MCThread
  Idle <- MCIdle
  Home <- MCHome
  Boot <- MCBoot
  Shows = {}
  Sleeps = {s3, s4}
  MaxSleep = 1
  Waiter = {w2}
  Signaller = {idle0}
  InitCount = 1
  MaxCount = 1
INVARIANTS NoLostWakeup
PROPERTIES ImplementsCountingSema GrantedReturns
