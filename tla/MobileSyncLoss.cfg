\* Two surveys of a job with two photos, two sync triggers, every call may fail,
\* the app may be killed.
CONSTANTS
  MaxMedia = 2
  MaxSurveys = 2
  Steps = {s1, s2}
  NoStep = none
  Syncs = {y1, y2}
  Faults = TRUE
  CanKill = TRUE
SPECIFICATION Spec
CHECK_DEADLOCK FALSE
INVARIANTS NothingIsLost
