CONSTANTS
  Plans <- MCPlans
  Base = 2
  MaxChunkSizeLength = 5
SPECIFICATION FairSpec
INVARIANTS OutputInOrder OverIsComplete
PROPERTIES PipelineEnds
CHECK_DEADLOCK FALSE
