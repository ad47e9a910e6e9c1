SPECIFICATION Spec
CONSTANTS
  Task = {a}
  Sleeper = {a}
  Reinits = {}
  Waiter = {}
  MaxTasks = 1
  TickRange = 6
  Duration = {2}
  MaxLag = 1
  MaxIrqs = 0
  MaxSpawns = 0
PROPERTIES
  SleepLasts
