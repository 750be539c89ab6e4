SPECIFICATION MCSpec
CONSTANTS
  s1 = s1
  s2 = s2
  s3 = s3
  t1 = t1
  t2 = t2
  t3 = t3
  t4 = t4
  Relations <- MCRelations
  Deadlines = {1, 2}
  DueTimes = {1}
  MaxDelay = 3
  Levels = 6
  HeapEvents = 4
  None = None
  EventEnd = EventEnd
  ReadyEnd = ReadyEnd
  KernelTasks <- MCTasks
  ReadyList = ReadyList
  SortedList = SortedList
  Values = {1, 2, 3}
  MaxValue = 3
  HeapSize = 31
  StructSize = 2
  StartSizes = {1, 4}
  EventSize = 4
  uxLength = 3
  Items = {1, 2}
  NoItem = 0
SYMMETRY Perms
INVARIANTS
  EndFlagLast
  Sorted
  RingsFollow
  BlocksFillHeap
  HeapIsCounter
PROPERTIES
  ImplementsPool
  SleepsOnlyIfNothingDue
  ImplementsTurns
  ImplementsBuffer
