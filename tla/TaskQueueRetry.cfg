\* Two processes, a task nobody handles, failing calls and restarts.
SPECIFICATION QueueFairSpec
CONSTANTS
  Workers = {w1, w2}
  Bodies = {qa, odd}
  Unhandled = {odd}
  NoBody = none
  MaxTasks = 2
  Faults = TRUE
  CanCrash = TRUE
CHECK_DEADLOCK FALSE
PROPERTIES AbandonedTaskIsRetried
