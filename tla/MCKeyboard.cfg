SPECIFICATION KbdSpec
CONSTANTS
  THREAD_DEFAULT_PRI = 1
  SleepMod = 4
  NumCpus = 2
  idle0 = idle0
  idle1 = idle1
  test = test
  kterm = kterm
  Thread <- MCThread
  Idle <- MCIdle
  Home <- MCHome
  Boot <- MCBoot
  Shows = {kterm}
  Sleeps = {test}
  MaxSleep = 1
  KbdCpu = 0
  Reader = kterm
  Code = {2, 30}
  KBD_BUFSIZE = 2
  MaxKeys = 3
  MaxMods = 1
INVARIANTS KeysInOrder CharsAsTyped ReaderNotAsleepOnKeys NoSelfDeadlock
