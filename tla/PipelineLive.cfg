\* Nothing fails and the bus has room for every event.
CONSTANTS
  Jobs = {j1}
  Agents = {a1}
  NoAgent = NoAgent
  NoJob = NoJob
  Submissions = {s1, s2}
  OtherEvent = other
  BusCapacity = 2
  Faults = FALSE
  CanCrash = FALSE
  Workers = {w1, w2}
  NoBody = NoBody
  Bodies <- TaskBodies
  Unhandled = {}
  MaxTasks = 6
  OtherTraffic = FALSE
SPECIFICATION FairSpec
CHECK_DEADLOCK FALSE
INVARIANTS RowHasOneWorker
PROPERTIES PassedSurveyIsReported
