\* Up to three tasks, some of them due in every tick.
CONSTANTS
  Intervals = {1, 3}
  Pause = 1
  MaxLag = 2
  MaxTasks = 3
  Longest = 8
SPECIFICATION Spec
INVARIANTS
  RunsInTime
  OwedTasksAreDue
PROPERTIES
  RunsOncePerInterval
  EveryTaskRuns
