SPECIFICATION FairSpec
CONSTANTS
  GenModulus = 2
  Exclusive = FALSE
  HostOps = {"start", "pause", "suspend", "release", "format", "props", "buffers", "clear"}
  LoopMayFail = TRUE
INVARIANTS PendingHasOwner CompletionIsCurrent MainOpensAlone StopIsComplete
PROPERTIES MainReturns RebuildAnswered DataLoopNeverCloses
