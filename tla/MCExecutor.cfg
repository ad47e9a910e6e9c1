SPECIFICATION FairSpec
CONSTANTS
  Task = {a, b, c}
  Sleeper = {a}
  Reinits = {a}
  Waiter = {b, c}
  MaxTasks = 2
  TickRange = 6
  Duration = {1, 2}
  MaxLag = 1
  MaxIrqs = 1
  MaxSpawns = 1
INVARIANTS
  TypeOK
  EachIsPolledOnce
PROPERTIES
  SleepLasts
  ReadyRuns
  SleepEnds
