\* Three agents, one query for all of them, two candidates; up to five photos.
SPECIFICATION DecisionSpec
CONSTANTS
    Limit = 3
    MaxCandidates = 2
    Pool = {a1, a2, a3}
    SurveyTypes = {"basic_check", "premium_inspection"}
    Distances = {24500, 25000, 50000, 60000, 100000}
    Merits = {100, 400}
    Tiers = {"basic", "senior"}
    Loads = {2, 3}
    MaxMedia = 5
    Whole = 60
    Spans = {0, 5, 15, 120, 150}
    Walks = {10, 50, 100}
SYMMETRY Symmetry
INVARIANTS
    BetterAgentFirst
    NobodyIsOverlooked
    MoreEvidenceNeverHurts
    PassedHasEvidence
CHECK_DEADLOCK FALSE
