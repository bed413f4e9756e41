SPECIFICATION FairSpec
CONSTANTS
  THREAD_DEFAULT_PRI = 1
  SleepMod = 4
  NumCpus = 2
  idle0 = idle0
  idle1 = idle1
  worker = worker
  test = test
  kterm = kterm
  Thread <- MCThread
  Idle <- MCIdle
  Home <- MCHome
  Boot <- MCBoot
  Shows = {kterm}
  Sleeps = {worker, test}
  MaxSleep = 2
INVARIANTS OneHolder SwitchedOutParked IntrDiscipline RingsDisjoint
PROPERTIES ImplementsSched LocksReleased
