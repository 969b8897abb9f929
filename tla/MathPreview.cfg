CONSTANTS
    Equations = {"e1", "e2", "e3"}
    BufferOf <- TwoBuffers
    Outcomes <- AllOutcomes
    MaxJobs = 3
    MaxFaults = 1
SPECIFICATION FairSpec
INVARIANTS IdsDescend RightImage Tracked
PROPERTIES JobsFinish
CHECK_DEADLOCK FALSE
