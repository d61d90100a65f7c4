SPECIFICATION Spec
CONSTANTS
  GenModulus = 3
  Exclusive = TRUE
  HostOps = {"start", "pause", "format", "buffers"}
  LoopMayFail = FALSE
INVARIANTS UnknownQueueNeverExtended
