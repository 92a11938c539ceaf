\* Two surveys of one job, an arrival, failing calls anywhere, restarts.
CONSTANTS
  Jobs = {j1}
  Agents = {a1}
  NoAgent = NoAgent
  NoJob = NoJob
  Submissions = {s1, s2}
  OtherEvent = other
  BusCapacity = 1
  Faults = TRUE
  CanCrash = TRUE
  Workers = {w1}
  NoBody = NoBody
  Bodies <- TaskBodies
  Unhandled = {}
  MaxTasks = 6
  OtherTraffic = TRUE
SPECIFICATION Spec
CHECK_DEADLOCK FALSE
SYMMETRY Symmetry
INVARIANTS
  StatusHasItsCause EventHasResponse
  StatusIsTruthful ReportIsComplete OneTaskOfEachKind
PROPERTIES ImplementsSurveyFollowUp
