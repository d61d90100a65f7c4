SPECIFICATION FairPortSpec
CONSTANTS
  HostOps = {"start", "pause", "format", "release", "suspend", "props"}
  StoppedOnly = TRUE
  MaxEpoch = 4
INVARIANTS DeadIsKnown LostIsLost
PROPERTIES DeadIsAnnounced
