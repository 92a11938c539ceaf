\* One cascade over two agents and two rounds, with failing calls and crashes.
CONSTANTS
  Jobs = {j1}
  Agents = {a1, a2}
  NoAgent = NoAgent
  MaxRounds = 2
  MaxCandidates = 2
  MaxConcurrentJobs = 1
  MaxRequests = 3
  Faults = TRUE
  CanCrash = TRUE
SPECIFICATION FairSpec
INVARIANTS AtMostOnePendingOffer AssignedAgreed
PROPERTIES CascadeEnds RefusedNotReoffered AssignmentIsFinal ImplementsJobAllocation
CHECK_DEADLOCK FALSE
